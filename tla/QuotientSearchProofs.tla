------------------------ MODULE QuotientSearchProofs ------------------------
(***************************************************************************)
(* Theorems about the quotient state search: the state that is changed and *)
(* rolled back is always that of the path, every answer is right, and the  *)
(* checker of refutations accepts none of a problem that has a model.      *)
(*                                                                         *)
(* The search and the audit find their classes and values in different     *)
(* orders.  They are compared through Closed: classes and values that need *)
(* no further step under the assumptions of a path.  What the audit comes  *)
(* to is closed, and everything closed refines it (AuditIsRight); a state  *)
(* of the search holds nothing but what everything closed obeys            *)
(* (StateIsRight), and where no rule applies any more it is closed itself. *)
(* So the two agree (RestIsAudited), and decide the same (SameChoice).     *)
(* The values of a model are closed, so that no model is lost either.      *)
(*                                                                         *)
(* The inductive invariant SearchInv says besides that every entry of the  *)
(* trail undoes what was done with it, so that a rollback to a frame gives *)
(* back the state in which it decided (FramesAreRight), and that what is   *)
(* recorded as refuted has a certificate that holds (RefutedAre).          *)
(***************************************************************************)
EXTENDS QuotientSearch, FiniteSetTheorems, SequenceTheorems, NumberInduction, TLAPS

-----------------------------------------------------------------------------
(* Two sequences of one length have their elements at the same places.     *)
LEMMA SameLength ==
    ASSUME NEW S, NEW s \in Seq(S), NEW t \in Seq(S), Len(s) = Len(t), NEW i \in DOMAIN s
    PROVE  s[i] \in S /\ t[i] \in S
OBVIOUS

-----------------------------------------------------------------------------
(* Choices that the algorithms make from what they find.                   *)
LEMMA MinIsLeast ==
    ASSUME NEW S \in SUBSET Nat, S # {}
    PROVE  Min(S) \in S /\ \A x \in S : Min(S) <= x
<1>1. PICK x \in S : \A y \in S : ~(y < x) BY LeastNumber
<1>2. x \in S /\ \A y \in S : x <= y BY <1>1
<1>3. Min(S) = CHOOSE z \in S : \A y \in S : z <= y BY DEF Min
<1> QED BY <1>2, <1>3

LEMMA FirstPairIsOne ==
    ASSUME NEW S \in SUBSET (Nat \X Nat), S # {}
    PROVE  FirstPair(S) \in S
<1> DEFINE Firsts == {n \in Nat : \E q \in S : q[1] = n}
           a == Min(Firsts)
           Seconds == {n \in Nat : <<a, n>> \in S}
           b == Min(Seconds)
<1>1. \A q \in S : q = <<q[1], q[2]>> /\ q[1] \in Nat /\ q[2] \in Nat OBVIOUS
<1>2. Firsts \in SUBSET Nat /\ Firsts # {} BY <1>1
<1>3. a \in Firsts /\ \A n \in Firsts : a <= n BY <1>2, MinIsLeast
<1> HIDE DEF a
<1>4. Seconds \in SUBSET Nat /\ Seconds # {} BY <1>1, <1>3
<1>5. b \in Seconds /\ \A n \in Seconds : b <= n BY <1>4, MinIsLeast
<1> HIDE DEF b
<1>6. <<a, b>> \in S /\ a \in Nat /\ b \in Nat BY <1>3, <1>5
<1>7. ASSUME NEW q \in S \ {<<a, b>>} PROVE Before(<<a, b>>, q)
  <2>1. a <= q[1] /\ q[1] \in Nat /\ q[2] \in Nat /\ q = <<q[1], q[2]>> BY <1>1, <1>3
  <2>2. CASE q[1] # a BY <2>1, <2>2, <1>6 DEF Before
  <2>3. CASE q[1] = a
    <3>1. q[2] \in Seconds BY <2>1, <2>3
    <3>2. b <= q[2] /\ q[2] # b BY <1>5, <2>1, <2>3, <3>1
    <3> QED BY <2>1, <2>3, <3>2, <1>6 DEF Before
  <2> QED BY <2>2, <2>3
<1>8. \E p \in S : \A q \in S \ {p} : Before(p, q) BY <1>6, <1>7
<1> QED BY <1>8 DEF FirstPair

(* Counted from the least, every value has a place of its own.             *)
UpTo(S, w) == {u \in S : u <= w}

LEMMA PlacesDiffer ==
    ASSUME NEW S \in SUBSET Nat, IsFiniteSet(S), NEW v \in S, NEW w \in S
    PROVE  /\ IsFiniteSet(UpTo(S, v))
           /\ Cardinality(UpTo(S, v)) \in 1..Cardinality(S)
           /\ Cardinality(UpTo(S, v)) = Cardinality(UpTo(S, w)) => v = w
<1>1. \A x \in S : IsFiniteSet(UpTo(S, x)) /\ Cardinality(UpTo(S, x)) \in Nat
                   /\ Cardinality(UpTo(S, x)) <= Cardinality(S)
  <2> SUFFICES ASSUME NEW x \in S
               PROVE  IsFiniteSet(UpTo(S, x)) /\ Cardinality(UpTo(S, x)) \in Nat
                      /\ Cardinality(UpTo(S, x)) <= Cardinality(S)
      OBVIOUS
  <2>1. UpTo(S, x) \in SUBSET S BY DEF UpTo
  <2> QED BY <2>1, FS_Subset, FS_CardinalityType
<1>2. Cardinality(UpTo(S, v)) # 0
  <2>1. v \in UpTo(S, v) BY DEF UpTo
  <2> QED BY <1>1, <2>1, FS_EmptySet
<1>3. Cardinality(S) \in Nat BY FS_CardinalityType
<1>4. ASSUME NEW x \in S, NEW y \in S, x < y PROVE Cardinality(UpTo(S, x)) # Cardinality(UpTo(S, y))
  <2>0. x \in Nat /\ y \in Nat /\ \A u \in S : u \in Nat OBVIOUS
  <2>1. UpTo(S, x) \subseteq UpTo(S, y) /\ y \in UpTo(S, y) /\ y \notin UpTo(S, x)
    <3>1. \A u \in S : u <= x => u <= y BY <1>4, <2>0
    <3>2. y <= y /\ ~(y <= x) BY <1>4, <2>0
    <3> QED BY <3>1, <3>2 DEF UpTo
  <2>2. UpTo(S, x) # UpTo(S, y) BY <2>1
  <2> QED BY <1>1, <2>1, <2>2, FS_Subset
<1>5. v \in Nat /\ w \in Nat OBVIOUS
<1> QED BY <1>1, <1>2, <1>3, <1>4, <1>5

Place(S, i, value) == Cardinality({w \in S : w <= value}) = i

LEMMA ValuesHavePlaces ==
    ASSUME NEW S \in SUBSET Nat, IsFiniteSet(S)
    PROVE  /\ Cardinality(S) \in Nat
           /\ \A i \in 1..Cardinality(S) : (CHOOSE value \in S : Place(S, i, value)) \in S
           /\ \A v \in S : \E i \in 1..Cardinality(S) : v = CHOOSE value \in S : Place(S, i, value)
<1> DEFINE n == Cardinality(S)
           place == [v \in S |-> Cardinality(UpTo(S, v))]
<1>1. n \in Nat BY FS_CardinalityType
<1>2. \A v, w \in S : /\ Cardinality(UpTo(S, v)) \in 1..n
                      /\ Cardinality(UpTo(S, v)) = Cardinality(UpTo(S, w)) => v = w
      BY PlacesDiffer
<1>3. \A i \in 1..n, v \in S : Place(S, i, v) <=> Cardinality(UpTo(S, v)) = i BY DEF Place, UpTo
<1>4. place \in Injection(S, 1..n)
  <2>1. place \in [S -> 1..n] BY <1>2
  <2> QED BY <1>2, <2>1 DEF Injection, IsInjective
<1>5. IsFiniteSet(1..n) /\ Cardinality(1..n) = n BY <1>1, FS_Interval
<1>6. place \in Surjection(S, 1..n) BY <1>4, <1>5, FS_Injection
<1>7. \A i \in 1..n : \E v \in S : place[v] = i BY <1>6 DEF Surjection
<1>8. \A i \in 1..n : \E v \in S : Place(S, i, v) BY <1>3, <1>7
<1>9. ASSUME NEW v \in S PROVE \E i \in 1..n : v = CHOOSE value \in S : Place(S, i, value)
  <2> DEFINE i == Cardinality(UpTo(S, v))
  <2>1. i \in 1..n BY <1>2
  <2>2. Place(S, i, v) /\ \A w \in S : Place(S, i, w) => w = v BY <1>2, <1>3, <2>1
  <2> HIDE DEF i
  <2>3. v = CHOOSE value \in S : Place(S, i, value) BY <2>2
  <2> QED BY <2>1, <2>3
<1> QED BY <1>1, <1>8, <1>9

(* Sorted into a sequence, pairs stay the pairs they are.                  *)
LEMMA SortedPairs ==
    ASSUME NEW S \in SUBSET (Nat \X Nat), IsFiniteSet(S)
    PROVE  LET sorted == [i \in 1..Cardinality(S) |->
                             CHOOSE x \in S : Cardinality({y \in S : Before(y, x)}) = i - 1]
           IN  /\ sorted \in Seq(S)
               /\ Len(sorted) = Cardinality(S)
               /\ Range(sorted) = S
<1> DEFINE Earlier(x) == {y \in S : Before(y, x)}
           n == Cardinality(S)
           place == [x \in S |-> Cardinality(Earlier(x)) + 1]
           Rank(i, x) == Cardinality({y \in S : Before(y, x)}) = i - 1
           sorted == [i \in 1..n |-> CHOOSE x \in S : Rank(i, x)]
<1>1. \A q \in S : q = <<q[1], q[2]>> /\ q[1] \in Nat /\ q[2] \in Nat OBVIOUS
<1>2. \A x \in S : ~Before(x, x) BY <1>1 DEF Before
<1>3. \A x, y \in S : x # y => Before(x, y) \/ Before(y, x) BY <1>1 DEF Before
<1>4. \A x, y, z \in S : Before(x, y) /\ Before(y, z) => Before(x, z)
  <2> SUFFICES ASSUME NEW x \in S, NEW y \in S, NEW z \in S, Before(x, y), Before(y, z)
               PROVE  Before(x, z)
      OBVIOUS
  <2>1. /\ x[1] \in Nat /\ y[1] \in Nat /\ z[1] \in Nat /\ x[2] \in Nat /\ y[2] \in Nat /\ z[2] \in Nat
        BY <1>1
  <2> QED BY <2>1 DEF Before
<1>5. n \in Nat BY FS_CardinalityType
<1>6. ASSUME NEW x \in S PROVE Cardinality(Earlier(x)) \in 0..(n - 1) /\ IsFiniteSet(Earlier(x))
  <2>1. Earlier(x) \in SUBSET S /\ x \notin Earlier(x) BY <1>2
  <2>2. IsFiniteSet(Earlier(x)) /\ Cardinality(Earlier(x)) <= n /\ Earlier(x) # S
        BY <2>1, FS_Subset
  <2>3. Cardinality(Earlier(x)) \in Nat BY <2>2, FS_CardinalityType
  <2>4. Cardinality(Earlier(x)) # n BY <2>1, <2>2, FS_Subset
  <2> QED BY <1>5, <2>2, <2>3, <2>4
<1>7. ASSUME NEW x \in S, NEW y \in S, Before(x, y)
      PROVE  Cardinality(Earlier(x)) # Cardinality(Earlier(y))
  <2>1. Earlier(x) \in SUBSET Earlier(y) BY <1>4, <1>7
  <2>2. x \in Earlier(y) /\ x \notin Earlier(x) BY <1>2, <1>7
  <2> QED BY <1>6, <2>1, <2>2, FS_Subset
<1>8. place \in Injection(S, 1..n)
  <2>1. place \in [S -> 1..n] BY <1>5, <1>6
  <2>2. \A x, y \in S : place[x] = place[y] => x = y
    <3> SUFFICES ASSUME NEW x \in S, NEW y \in S, place[x] = place[y] PROVE x = y OBVIOUS
    <3>1. Cardinality(Earlier(x)) = Cardinality(Earlier(y)) BY <1>6
    <3> QED BY <1>3, <1>7, <3>1
  <2> QED BY <2>1, <2>2 DEF Injection, IsInjective
<1>9. IsFiniteSet(1..n) /\ Cardinality(1..n) = n BY <1>5, FS_Interval
<1>10. place \in Surjection(S, 1..n) BY <1>8, <1>9, FS_Injection
<1>11. \A i \in 1..n : \E x \in S : place[x] = i BY <1>10 DEF Surjection
<1>12. \A i \in 1..n : \E x \in S : Rank(i, x)
  <2> SUFFICES ASSUME NEW i \in 1..n PROVE \E x \in S : Rank(i, x) OBVIOUS
  <2>1. PICK x \in S : place[x] = i BY <1>11
  <2>2. Cardinality(Earlier(x)) = i - 1 BY <1>6, <2>1
  <2> QED BY <2>2
<1> HIDE DEF Rank
<1>13. \A i \in 1..n : sorted[i] \in S /\ Rank(i, sorted[i]) BY <1>12
<1>14. \A x \in S : \E i \in 1..n : sorted[i] = x
  <2> SUFFICES ASSUME NEW x \in S PROVE \E i \in 1..n : sorted[i] = x OBVIOUS
  <2> DEFINE i == place[x]
  <2>1. i \in 1..n BY <1>8 DEF Injection
  <2>2. Cardinality(Earlier(sorted[i])) = i - 1 BY <1>13, <2>1 DEF Rank
  <2>3. Cardinality(Earlier(x)) = i - 1 BY <1>6
  <2>4. sorted[i] \in S BY <1>13, <2>1
  <2> HIDE DEF sorted, i
  <2>5. sorted[i] = x BY <1>3, <1>7, <2>2, <2>3, <2>4
  <2> QED BY <2>1, <2>5
<1>15. sorted \in Seq(S) /\ Len(sorted) = n BY <1>5, <1>13
<1>16. Range(sorted) = S BY <1>13, <1>14 DEF Range
<1> QED BY <1>15, <1>16 DEF Rank

-----------------------------------------------------------------------------
(* Parents without a cycle: every term is higher than its parent.          *)
IsTree(p, T) ==
    /\ p \in [T -> T]
    /\ \E n \in Nat : \E h \in [T -> 0..n] : \A t \in T : p[t] # t => h[p[t]] < h[t]

(* What every root has, and a parent hands to its children, all terms have. *)
LEMMA TreeInduction ==
    ASSUME NEW T, NEW p, IsTree(p, T), NEW S,
           \A t \in T : p[t] = t => t \in S,
           \A t \in T : p[t] \in S => t \in S
    PROVE  \A t \in T : t \in S
<1>1. PICK n \in Nat : \E h \in [T -> 0..n] : \A t \in T : p[t] # t => h[p[t]] < h[t]
      BY DEF IsTree
<1>2. PICK h \in [T -> 0..n] : \A t \in T : p[t] # t => h[p[t]] < h[t] BY <1>1
<1> DEFINE N == {k \in Nat : \A t \in T : h[t] <= k => t \in S}
<1>3. \A t \in T : p[t] \in T /\ h[t] \in Nat /\ h[t] <= n BY DEF IsTree
<1>4. 0 \in N
  <2> SUFFICES ASSUME NEW t \in T, h[t] <= 0 PROVE t \in S OBVIOUS
  <2>1. h[t] \in Nat /\ h[p[t]] \in Nat /\ p[t] \in T BY <1>3
  <2>2. p[t] = t BY <1>2, <2>1
  <2> QED BY <2>2
<1>5. ASSUME NEW k \in N PROVE k + 1 \in N
  <2> SUFFICES ASSUME NEW t \in T, h[t] <= k + 1 PROVE t \in S OBVIOUS
  <2>1. CASE p[t] = t BY <2>1
  <2>2. CASE p[t] # t
    <3>1. h[p[t]] < h[t] /\ h[p[t]] \in Nat /\ h[t] \in Nat /\ p[t] \in T BY <1>2, <1>3, <2>2
    <3>2. h[p[t]] <= k BY <3>1
    <3> QED BY <3>1, <3>2
  <2> QED BY <2>1, <2>2
<1>6. N = Nat BY <1>4, <1>5, Induction
<1>7. n \in N BY <1>6
<1> QED BY <1>3, <1>7

(* The recursion of find ends: there is a function that it describes.      *)
LEMMA RootsExist ==
    ASSUME NEW T, NEW p, IsTree(p, T)
    PROVE  \E f : f = [t \in T |-> IF p[t] = t THEN t ELSE f[p[t]]]
<1>1. PICK n \in Nat : \E h \in [T -> 0..n] : \A t \in T : p[t] # t => h[p[t]] < h[t]
      BY DEF IsTree
<1>2. PICK h \in [T -> 0..n] : \A t \in T : p[t] # t => h[p[t]] < h[t] BY <1>1
<1>3. \A t \in T : p[t] \in T /\ h[t] \in Nat /\ h[t] <= n BY DEF IsTree
<1> DEFINE Good(f, k) == \A t \in T : h[t] <= k => f[t] = IF p[t] = t THEN t ELSE f[p[t]]
           N == {k \in Nat : \E f : Good(f, k)}
<1>4. 0 \in N
  <2> DEFINE f == [t \in T |-> t]
  <2>1. ASSUME NEW t \in T, h[t] <= 0 PROVE p[t] = t
    <3>1. h[t] \in Nat /\ h[p[t]] \in Nat /\ p[t] \in T BY <1>3
    <3> QED BY <1>2, <2>1, <3>1
  <2>2. Good(f, 0) BY <2>1
  <2> HIDE DEF f
  <2> QED BY <2>2
<1>5. ASSUME NEW k \in N PROVE k + 1 \in N
  <2>1. PICK f : Good(f, k) OBVIOUS
  <2> DEFINE g == [t \in T |-> IF h[t] <= k THEN f[t] ELSE IF p[t] = t THEN t ELSE f[p[t]]]
  <2>2. ASSUME NEW t \in T, h[t] <= k + 1 PROVE g[t] = IF p[t] = t THEN t ELSE g[p[t]]
    <3>1. CASE p[t] = t BY <2>1, <3>1
    <3>2. CASE p[t] # t
      <4>1. h[p[t]] < h[t] /\ h[p[t]] \in Nat /\ h[t] \in Nat /\ p[t] \in T BY <1>2, <1>3, <3>2
      <4>2. h[p[t]] <= k BY <2>2, <4>1
      <4>3. g[p[t]] = f[p[t]] BY <4>1, <4>2
      <4>4. g[t] = f[p[t]] BY <2>1, <3>2
      <4> QED BY <3>2, <4>3, <4>4
    <3> QED BY <3>1, <3>2
  <2>3. Good(g, k + 1) BY <2>2
  <2> HIDE DEF g
  <2>4. \E f2 : Good(f2, k + 1) BY <2>3
  <2> QED BY <2>4
<1>6. N = Nat BY <1>4, <1>5, Induction
<1>7. PICK f : Good(f, n) BY <1>6
<1> DEFINE g == [t \in T |-> f[t]]
<1>8. \A t \in T : p[t] \in T /\ f[t] = IF p[t] = t THEN t ELSE f[p[t]] BY <1>3, <1>7
<1>9. g = [t \in T |-> IF p[t] = t THEN t ELSE g[p[t]]] BY <1>8
<1> HIDE DEF g
<1> QED BY <1>9

(* So a lookup is what its recursion says, ends at a root, and sees what   *)
(* all terms share with their parents.                                     *)
LEMMA FindRecursion ==
    ASSUME NEW T, NEW s, IsTree(s.parent, T)
    PROVE  \A t \in T : FindIn(s, t) = IF s.parent[t] = t THEN t ELSE FindIn(s, s.parent[t])
<1> DEFINE p == s.parent
           find == CHOOSE f : f = [t \in T |-> IF p[t] = t THEN t ELSE f[p[t]]]
<1>1. DOMAIN p = T /\ \A t \in T : p[t] \in T BY DEF IsTree
<1> HIDE DEF p
<1>0. \E f : f = [t \in T |-> IF p[t] = t THEN t ELSE f[p[t]]]
  <2>1. IsTree(p, T) BY DEF p
  <2> QED BY <2>1, RootsExist
<1>2. find = [t \in T |-> IF p[t] = t THEN t ELSE find[p[t]]] BY <1>0
<1> USE DEF p
<1>3. \A t \in T : FindIn(s, t) = find[t] BY <1>1 DEF FindIn
<1> HIDE DEF find
<1>4. \A t \in T : find[t] = IF p[t] = t THEN t ELSE find[p[t]] BY <1>2
<1> QED BY <1>1, <1>3, <1>4

LEMMA FindFacts ==
    ASSUME NEW T, NEW s, IsTree(s.parent, T), NEW t \in T
    PROVE  /\ FindIn(s, t) \in T
           /\ s.parent[FindIn(s, t)] = FindIn(s, t)
           /\ FindIn(s, FindIn(s, t)) = FindIn(s, t)
           /\ FindIn(s, s.parent[t]) = FindIn(s, t)
           /\ s.parent[t] = t <=> FindIn(s, t) = t
<1> DEFINE p == s.parent
           S == {u \in T : FindIn(s, u) \in T /\ p[FindIn(s, u)] = FindIn(s, u)}
<1>1. \A u \in T : FindIn(s, u) = IF p[u] = u THEN u ELSE FindIn(s, p[u]) BY FindRecursion
<1>2. \A u \in T : p[u] = u => u \in S BY <1>1
<1>3. \A u \in T : p[u] \in S => u \in S BY <1>1
<1>4. \A u \in T : u \in S BY <1>2, <1>3, TreeInduction
<1>5. FindIn(s, t) \in T /\ p[FindIn(s, t)] = FindIn(s, t) BY <1>4
<1> QED BY <1>1, <1>5

(* What a term has in common with its parent it has in common with its root. *)
LEMMA FindShares ==
    ASSUME NEW T, NEW s, IsTree(s.parent, T), NEW c,
           \A t \in T : c[s.parent[t]] = c[t]
    PROVE  \A t \in T : c[FindIn(s, t)] = c[t]
<1> DEFINE p == s.parent
           S == {u \in T : c[FindIn(s, u)] = c[u]}
<1>1. \A u \in T : FindIn(s, u) = IF p[u] = u THEN u ELSE FindIn(s, p[u]) BY FindRecursion
<1>2. \A u \in T : p[u] = u => u \in S BY <1>1
<1>3. \A u \in T : p[u] \in S => u \in S BY <1>1
<1>4. \A u \in T : u \in S BY <1>2, <1>3, TreeInduction
<1> QED BY <1>4

(* A root that gets another one as its parent leaves the parents without a *)
(* cycle, and the terms below it have the other root.                      *)
LEMMA Linked ==
    ASSUME NEW T, NEW s, IsTree(s.parent, T), NEW child \in T, NEW root \in T,
           child # root, s.parent[child] = child, s.parent[root] = root,
           NEW s2, s2.parent \in [T -> T], s2.parent[child] = root,
           \A t \in T \ {child} : s2.parent[t] = s.parent[t]
    PROVE  /\ IsTree(s2.parent, T)
           /\ \A t \in T : FindIn(s2, t) = IF FindIn(s, t) = child THEN root ELSE FindIn(s, t)
<1> DEFINE p == s.parent
           q == s2.parent
<1>1. PICK n \in Nat : \E h \in [T -> 0..n] : \A t \in T : p[t] # t => h[p[t]] < h[t]
      BY DEF IsTree
<1>2. PICK h \in [T -> 0..n] : \A t \in T : p[t] # t => h[p[t]] < h[t] BY <1>1
<1>3. p \in [T -> T] BY DEF IsTree
<1>4. q \in [T -> T] /\ q[child] = root /\ \A t \in T \ {child} : q[t] = p[t] OBVIOUS
<1> DEFINE k == [t \in T |-> IF FindIn(s, t) = child THEN h[t] + n + 1 ELSE h[t]]
<1>5. \A t \in T : FindIn(s, p[t]) = FindIn(s, t) BY FindRecursion
<1>6. FindIn(s, root) = root /\ FindIn(s, child) = child BY FindRecursion
<1>7. \A t \in T : h[t] \in Nat /\ h[t] <= n OBVIOUS
<1>8. k \in [T -> 0..(n + n + 1)] BY <1>7
<1>9. ASSUME NEW t \in T, q[t] # t PROVE k[q[t]] < k[t]
  <2>1. CASE t = child
    <3>1. k[t] = h[t] + n + 1 /\ k[root] = h[root] BY <1>6, <2>1
    <3> QED BY <1>4, <1>7, <2>1, <3>1
  <2>2. CASE t # child
    <3>1. q[t] = p[t] /\ p[t] # t /\ p[t] \in T BY <1>3, <1>4, <1>9, <2>2
    <3>2. h[p[t]] < h[t] /\ h[p[t]] \in Nat /\ h[t] \in Nat BY <1>2, <1>7, <3>1
    <3>3. CASE FindIn(s, t) = child
      <4>1. k[t] = h[t] + n + 1 /\ k[p[t]] = h[p[t]] + n + 1 BY <1>5, <3>1, <3>3
      <4> QED BY <3>1, <3>2, <4>1
    <3>4. CASE FindIn(s, t) # child
      <4>1. k[t] = h[t] /\ k[p[t]] = h[p[t]] BY <1>5, <3>1, <3>4
      <4> QED BY <3>1, <3>2, <4>1
    <3> QED BY <3>3, <3>4
  <2> QED BY <2>1, <2>2
<1> DEFINE m == n + n + 1
<1>10. m \in Nat OBVIOUS
<1>11. IsTree(q, T)
  <2> HIDE DEF k, q, m
  <2> QED BY <1>4, <1>8, <1>9, <1>10 DEF IsTree, m
<1> DEFINE g == [t \in T |-> IF FindIn(s, t) = child THEN root ELSE FindIn(s, t)]
<1>12. ASSUME NEW t \in T PROVE g[t] = IF q[t] = t THEN t ELSE g[q[t]]
  <2>1. FindIn(s, t) = IF p[t] = t THEN t ELSE FindIn(s, p[t]) BY FindRecursion
  <2>2. q[t] \in T /\ p[t] \in T BY <1>3, <1>4
  <2>3. CASE t = child BY <1>4, <1>6, <2>3
  <2>4. CASE t # child
    <3>1. q[t] = p[t] BY <1>4, <2>4
    <3>2. CASE p[t] = t BY <2>1, <2>4, <3>1, <3>2
    <3>3. CASE p[t] # t BY <1>5, <2>1, <2>2, <3>1, <3>3
    <3> QED BY <3>2, <3>3
  <2> QED BY <2>3, <2>4
<1> HIDE DEF g
<1>13. \A t \in T : FindIn(s2, t) = g[t]
  <2> DEFINE S == {u \in T : FindIn(s2, u) = g[u]}
  <2>1. \A u \in T : FindIn(s2, u) = IF q[u] = u THEN u ELSE FindIn(s2, q[u])
        BY <1>11, FindRecursion
  <2>2. \A u \in T : q[u] = u => u \in S BY <1>12, <2>1
  <2>3. \A u \in T : q[u] \in S => u \in S BY <1>12, <2>1
  <2>4. \A u \in T : u \in S BY <1>11, <2>2, <2>3, TreeInduction
  <2> QED BY <2>4
<1> QED BY <1>11, <1>13 DEF g

-----------------------------------------------------------------------------
(* The audit's labels: every class has its least term.                     *)
Labels(T) == {l \in [T -> T] : \A t \in T : l[l[t]] = l[t] /\ l[t] <= t}

(* A function that tells no term from another one with its label.          *)
Follows(T, l, c) == \A u, v \in T : l[u] = l[v] => c[u] = c[v]

LEMMA RelabelledFacts ==
    ASSUME NEW T \in SUBSET Nat, NEW l \in Labels(T), NEW s \in T, NEW t \in T
    PROVE  LET m == Relabelled(l, s, t)
           IN  /\ m \in Labels(T)
               /\ m[s] = m[t]
               /\ Follows(T, l, m)
               /\ \A c : Follows(T, l, c) /\ c[s] = c[t] => Follows(T, m, c)
               /\ l[s] # l[t] => Range(m) \subseteq Range(l) /\ Range(m) # Range(l)
<1> DEFINE low == OrderedPair(l[s], l[t])[1]
           high == OrderedPair(l[s], l[t])[2]
           m == Relabelled(l, s, t)
<1>1. l \in [T -> T] /\ \A u \in T : l[u] \in T /\ l[l[u]] = l[u] /\ l[u] <= u BY DEF Labels
<1>2. \A u \in T : u \in Nat OBVIOUS
<1>3. /\ low \in T /\ high \in T /\ low <= high
      /\ (low = l[s] /\ high = l[t]) \/ (low = l[t] /\ high = l[s])
  <2>1. l[s] \in T /\ l[t] \in T /\ l[s] \in Nat /\ l[t] \in Nat BY <1>1, <1>2
  <2>2. CASE l[s] <= l[t] BY <2>1, <2>2 DEF OrderedPair
  <2>3. CASE ~(l[s] <= l[t]) BY <2>1, <2>3 DEF OrderedPair
  <2> QED BY <2>1, <2>2, <2>3
<1>4. m = [u \in T |-> IF l[u] = high THEN low ELSE l[u]] BY <1>1 DEF Relabelled
<1> HIDE DEF low, high
<1>5. l[low] = low /\ l[high] = high BY <1>1, <1>3
<1>6. \A u \in T : m[u] = IF l[u] = high THEN low ELSE l[u] BY <1>4
<1> HIDE DEF m
<1>7. m \in Labels(T)
  <2>1. m \in [T -> T] BY <1>1, <1>3, <1>4
  <2>2. ASSUME NEW u \in T PROVE m[m[u]] = m[u] /\ m[u] <= u
    <3>1. l[u] \in T /\ u \in Nat /\ l[u] \in Nat /\ low \in Nat /\ high \in Nat /\ l[u] <= u
          BY <1>1, <1>2, <1>3
    <3>2. CASE l[u] = high
      <4>1. m[u] = low BY <1>6, <3>2
      <4>2. m[low] = low BY <1>3, <1>5, <1>6
      <4> QED BY <1>3, <3>1, <3>2, <4>1, <4>2
    <3>3. CASE l[u] # high
      <4>1. m[u] = l[u] /\ l[l[u]] = l[u] BY <1>1, <1>6, <3>3
      <4>2. m[l[u]] = l[u] BY <1>6, <3>1, <3>3, <4>1
      <4> QED BY <3>1, <4>1, <4>2
    <3> QED BY <3>2, <3>3
  <2> QED BY <2>1, <2>2 DEF Labels
<1>8. m[s] = m[t] BY <1>3, <1>6
<1>9. Follows(T, l, m) BY <1>6 DEF Follows
<1>10. ASSUME NEW c, Follows(T, l, c), c[s] = c[t] PROVE Follows(T, m, c)
  <2>1. c[low] = c[high]
    <3>1. c[l[s]] = c[s] /\ c[l[t]] = c[t] BY <1>1, <1>10 DEF Follows
    <3> QED BY <1>3, <1>10, <3>1
  <2>2. \A u \in T : c[m[u]] = c[u]
    <3> SUFFICES ASSUME NEW u \in T PROVE c[m[u]] = c[u] OBVIOUS
    <3>1. c[l[u]] = c[u] BY <1>1, <1>10 DEF Follows
    <3> QED BY <1>6, <2>1, <3>1
  <2> QED BY <2>2 DEF Follows
<1>11. ASSUME l[s] # l[t] PROVE Range(m) \subseteq Range(l) /\ Range(m) # Range(l)
  <2>1. DOMAIN l = T /\ DOMAIN m = T BY <1>1, <1>4
  <2>2. \A u \in T : m[u] \in Range(l) /\ m[u] # high
    <3>1. low # high BY <1>3, <1>11
    <3>2. low \in Range(l) BY <1>3, <1>5, <2>1 DEF Range
    <3> QED BY <1>6, <2>1, <3>1, <3>2 DEF Range
  <2>3. high \in Range(l) BY <1>3, <1>5, <2>1 DEF Range
  <2>4. Range(m) \subseteq Range(l) /\ high \notin Range(m)
    <3>1. \A x \in Range(m) : \E u \in T : x = m[u] BY <2>1 DEF Range
    <3> HIDE DEF m, high, low
    <3> QED BY <2>2, <3>1
  <2> QED BY <2>3, <2>4
<1> QED BY <1>7, <1>8, <1>9, <1>10, <1>11 DEF m

(* One merge after the other.                                              *)
Merges(f, l, pairs, n) ==
    IF n = 0 THEN l ELSE Relabelled(f[n - 1], pairs[n][1], pairs[n][2])
MergesUpTo(l, pairs, n) == CHOOSE f : f = [i \in 0..n |-> Merges(f, l, pairs, i)]

LEMMA MergesExist ==
    ASSUME NEW l, NEW pairs, NEW n \in Nat
    PROVE  MergesUpTo(l, pairs, n) = [i \in 0..n |-> Merges(MergesUpTo(l, pairs, n), l, pairs, i)]
<1> DEFINE P == {k \in Nat : \E f : f = [i \in 0..k |-> Merges(f, l, pairs, i)]}
<1>1. 0 \in P
  <2> DEFINE f == [i \in 0..0 |-> l]
  <2>1. f = [i \in 0..0 |-> Merges(f, l, pairs, i)] BY DEF Merges
  <2> QED BY <2>1
<1>2. ASSUME NEW k \in P PROVE k + 1 \in P
  <2>1. PICK f : f = [i \in 0..k |-> Merges(f, l, pairs, i)] OBVIOUS
  <2> DEFINE g == [i \in 0..(k + 1) |-> IF i = k + 1 THEN Merges(f, l, pairs, i) ELSE f[i]]
  <2>2. \A i \in 0..(k + 1) : g[i] = Merges(g, l, pairs, i)
    <3> SUFFICES ASSUME NEW i \in 0..(k + 1) PROVE g[i] = Merges(g, l, pairs, i) OBVIOUS
    <3>1. CASE i = 0 BY <3>1, <2>1 DEF Merges
    <3>2. CASE i > 0
      <4>1. i - 1 \in 0..k /\ g[i - 1] = f[i - 1] BY <3>2
      <4>2. g[i] = Merges(f, l, pairs, i) BY <2>1
      <4> QED BY <3>2, <4>1, <4>2 DEF Merges
    <3> QED BY <3>1, <3>2
  <2>3. g = [i \in 0..(k + 1) |-> Merges(g, l, pairs, i)] BY <2>2
  <2> HIDE DEF g
  <2>4. \E h : h = [i \in 0..(k + 1) |-> Merges(h, l, pairs, i)] BY <2>3
  <2> QED BY <2>4
<1>3. P = Nat BY <1>1, <1>2, Induction
<1>4. \E f : f = [i \in 0..n |-> Merges(f, l, pairs, i)] BY <1>3
<1> QED BY <1>4 DEF MergesUpTo

LEMMA MergedAllFacts ==
    ASSUME NEW T \in SUBSET Nat, NEW l \in Labels(T), NEW pairs \in Seq(T \X T)
    PROVE  LET m == MergedAll(l, pairs)
           IN  /\ m \in Labels(T)
               /\ \A i \in DOMAIN pairs : m[pairs[i][1]] = m[pairs[i][2]]
               /\ Follows(T, l, m)
               /\ \A c : Follows(T, l, c) /\ (\A i \in DOMAIN pairs : c[pairs[i][1]] = c[pairs[i][2]])
                         => Follows(T, m, c)
<1> DEFINE N == Len(pairs)
           merged == MergesUpTo(l, pairs, N)
<1>1. N \in Nat /\ DOMAIN pairs = 1..N OBVIOUS
<1>2. MergedAll(l, pairs) = merged[N] BY DEF MergedAll, Merges, MergesUpTo
<1> HIDE DEF N
<1>3. merged = [i \in 0..N |-> Merges(merged, l, pairs, i)] BY <1>1, MergesExist
<1> HIDE DEF merged
<1>4. merged[0] = l BY <1>1, <1>3 DEF Merges
<1>5. \A n \in 0..(N - 1) : merged[n + 1] = Relabelled(merged[n], pairs[n + 1][1], pairs[n + 1][2])
  <2> SUFFICES ASSUME NEW n \in 0..(N - 1)
               PROVE  merged[n + 1] = Relabelled(merged[n], pairs[n + 1][1], pairs[n + 1][2])
      OBVIOUS
  <2>1. n + 1 \in 0..N /\ n + 1 # 0 /\ (n + 1) - 1 = n BY <1>1
  <2>2. merged[n + 1] = Merges(merged, l, pairs, n + 1) BY <1>3, <2>1
  <2> QED BY <2>1, <2>2 DEF Merges
<1>6. \A n \in 1..N : pairs[n][1] \in T /\ pairs[n][2] \in T BY <1>1
<1> DEFINE Fine(n) == /\ merged[n] \in Labels(T)
                      /\ \A i \in 1..n : merged[n][pairs[i][1]] = merged[n][pairs[i][2]]
                      /\ Follows(T, l, merged[n])
                      /\ \A c : Follows(T, l, c) /\ (\A i \in 1..n : c[pairs[i][1]] = c[pairs[i][2]])
                                => Follows(T, merged[n], c)
           P == {n \in Nat : n <= N => Fine(n)}
<1>7. 0 \in P BY <1>4 DEF Follows
<1>8. ASSUME NEW n \in P PROVE n + 1 \in P
  <2> SUFFICES ASSUME n + 1 <= N PROVE Fine(n + 1) OBVIOUS
  <2> DEFINE x == pairs[n + 1][1]
             y == pairs[n + 1][2]
             old == merged[n]
             new == merged[n + 1]
  <2>1. n \in 0..(N - 1) /\ n + 1 \in 1..N /\ Fine(n) BY <1>1, <1>8
  <2>2. x \in T /\ y \in T /\ new = Relabelled(old, x, y) BY <1>5, <1>6, <2>1
  <2>3. old \in Labels(T)
    <3> HIDE DEF Fine
    <3>1. Fine(n) BY <2>1
    <3> QED BY <3>1 DEF Fine
  <2> HIDE DEF x, y, old, new
  <2>4. /\ new \in Labels(T)
        /\ new[x] = new[y]
        /\ Follows(T, old, new)
        /\ \A c : Follows(T, old, c) /\ c[x] = c[y] => Follows(T, new, c)
        BY <2>2, <2>3, RelabelledFacts
  <2>5. \A i \in 1..(n + 1) : new[pairs[i][1]] = new[pairs[i][2]]
    <3> SUFFICES ASSUME NEW i \in 1..(n + 1) PROVE new[pairs[i][1]] = new[pairs[i][2]] OBVIOUS
    <3>1. CASE i = n + 1 BY <2>4, <3>1 DEF x, y
    <3>2. CASE i # n + 1
      <4>1. i \in 1..n /\ i \in 1..N BY <1>1, <3>2
      <4>2. old[pairs[i][1]] = old[pairs[i][2]] BY <2>1, <4>1 DEF old
      <4> QED BY <1>6, <2>4, <4>1, <4>2 DEF Follows
    <3> QED BY <3>1, <3>2
  <2>6. Follows(T, l, new) BY <2>1, <2>4 DEF Follows, old
  <2>7. ASSUME NEW c, Follows(T, l, c), \A i \in 1..(n + 1) : c[pairs[i][1]] = c[pairs[i][2]]
        PROVE  Follows(T, new, c)
    <3>1. \A i \in 1..n : c[pairs[i][1]] = c[pairs[i][2]] BY <2>1, <2>7
    <3>2. Follows(T, old, c) BY <2>1, <2>7, <3>1 DEF old
    <3>3. c[x] = c[y] BY <2>1, <2>7 DEF x, y
    <3> QED BY <2>4, <3>2, <3>3
  <2> QED BY <2>4, <2>5, <2>6, <2>7 DEF new
<1>9. P = Nat BY <1>7, <1>8, Induction
<1>10. Fine(N) BY <1>1, <1>9
<1> QED BY <1>1, <1>2, <1>10

-----------------------------------------------------------------------------
(* Problems and paths as they are once a problem is found valid.           *)
WellFormed(p) ==
    /\ p.terms \in Nat /\ p.values \in Nat
    /\ p.arities \in Seq(Nat) /\ p.apps \in Seq(Application)
    /\ p.equalities \in Seq(Terms(p) \X Terms(p))
    /\ p.disequalities \in Seq(Terms(p) \X Terms(p))
    /\ \A t \in Terms(p) : DomainOf(p, t) \in SUBSET Carrier(p)
    /\ \A i \in DOMAIN p.apps :
          /\ p.apps[i].args \in Seq(Terms(p)) /\ p.apps[i].result \in Terms(p)
          /\ p.apps[i].fun \in DOMAIN p.arities
          /\ Len(p.apps[i].args) = p.arities[p.apps[i].fun]

AssumptionOf(p) ==
    {a \in Assumption : a.left \in Terms(p) /\ (a.kind # "Value" => a.right \in Terms(p))}

LEMMA WellFormedFinite ==
    ASSUME NEW p, WellFormed(p)
    PROVE  /\ Terms(p) \in SUBSET Nat /\ IsFiniteSet(Terms(p)) /\ Cardinality(Terms(p)) = p.terms
           /\ Carrier(p) \in SUBSET Nat /\ IsFiniteSet(Carrier(p)) /\ Cardinality(Carrier(p)) = p.values
<1>1. p.terms \in Nat /\ p.values \in Nat BY DEF WellFormed
<1>2. ASSUME NEW n \in Nat
      PROVE  0..(n - 1) \in SUBSET Nat /\ IsFiniteSet(0..(n - 1)) /\ Cardinality(0..(n - 1)) = n
  <2>1. IsFiniteSet(0..(n - 1)) /\ Cardinality(0..(n - 1)) = IF 0 > n - 1 THEN 0 ELSE (n - 1) - 0 + 1
        BY FS_Interval
  <2> QED BY <2>1
<1> QED BY <1>1, <1>2 DEF Terms, Carrier

LEMMA ValidIsWellFormed ==
    ASSUME NEW p \in Problems, Valid(p)
    PROVE  WellFormed(p)
<1>1. /\ p.terms \in Nat /\ p.values \in Nat
      /\ p.arities \in Seq(Nat) /\ p.apps \in Seq(Application)
      /\ p.equalities \in Seq(Nat \X Nat) /\ p.disequalities \in Seq(Nat \X Nat)
      /\ p.domains \in Seq(SUBSET Nat)
      BY SearchAssumption
<1>2. ASSUME NEW pairs \in Seq(Nat \X Nat), \A pair \in Range(pairs) : Range(pair) \subseteq Terms(p)
      PROVE  pairs \in Seq(Terms(p) \X Terms(p))
  <2>1. ASSUME NEW i \in 1..Len(pairs) PROVE pairs[i] \in Terms(p) \X Terms(p)
    <3>1. pairs[i] \in Range(pairs) BY <1>2 DEF Range
    <3>2. pairs[i] \in Nat \X Nat BY <1>2
    <3>3. pairs[i] = <<pairs[i][1], pairs[i][2]>> BY <3>2
    <3>4. DOMAIN pairs[i] = 1..2 BY <3>3
    <3>5. pairs[i][1] \in Range(pairs[i]) /\ pairs[i][2] \in Range(pairs[i]) BY <3>4 DEF Range
    <3>6. pairs[i][1] \in Terms(p) /\ pairs[i][2] \in Terms(p) BY <1>2, <3>1, <3>5
    <3> QED BY <3>3, <3>6
  <2> QED BY <2>1
<1>3. p.equalities \in Seq(Terms(p) \X Terms(p)) /\ p.disequalities \in Seq(Terms(p) \X Terms(p))
  <2>1. /\ \A pair \in Range(p.equalities) : Range(pair) \subseteq Terms(p)
        /\ \A pair \in Range(p.disequalities) : Range(pair) \subseteq Terms(p)
        BY DEF Valid
  <2> QED BY <1>1, <1>2, <2>1
<1>4. \A t \in Terms(p) : DomainOf(p, t) \in SUBSET Carrier(p)
  <2>1. DOMAIN p.domains = 1..p.terms BY <1>1 DEF Valid
  <2>2. \A t \in Terms(p) : t + 1 \in DOMAIN p.domains BY <1>1, <2>1 DEF Terms
  <2> QED BY <2>2 DEF Valid, DomainOf
<1>5. ASSUME NEW i \in DOMAIN p.apps
      PROVE  /\ p.apps[i].args \in Seq(Terms(p)) /\ p.apps[i].result \in Terms(p)
             /\ p.apps[i].fun \in DOMAIN p.arities
             /\ Len(p.apps[i].args) = p.arities[p.apps[i].fun]
  <2> DEFINE app == p.apps[i]
  <2>1. /\ app.fun \in DOMAIN p.arities
        /\ Len(app.args) = p.arities[app.fun]
        /\ Range(app.args) \subseteq Terms(p)
        /\ app.result \in Terms(p)
        BY DEF Valid
  <2>2. app.args \in Seq(Nat)
    <3>1. app \in Application BY <1>1
    <3> HIDE DEF app
    <3> QED BY <3>1 DEF Application
  <2>3. app.args \in Seq(Terms(p))
    <3> HIDE DEF app
    <3>1. \A j \in 1..Len(app.args) : app.args[j] \in Terms(p) BY <2>1, <2>2 DEF Range
    <3> QED BY <2>2, <3>1
  <2> QED BY <2>1, <2>3
<1> QED BY <1>1, <1>3, <1>4, <1>5 DEF WellFormed

(* The labels of a path respect its equalities, and nothing else.          *)
Respects(p, walk, c) ==
    /\ \A pair \in Range(p.equalities) : c[pair[1]] = c[pair[2]]
    /\ \A a \in Assumed(walk, "Equal") : c[a.left] = c[a.right]

LEMMA AuditLabelsFacts ==
    ASSUME NEW p, WellFormed(p), NEW walk \in Seq(AssumptionOf(p))
    PROVE  LET l == AuditLabels(p, walk)
           IN  /\ l \in Labels(Terms(p))
               /\ Respects(p, walk, l)
               /\ \A c : Respects(p, walk, c) => Follows(Terms(p), l, c)
<1> DEFINE T == Terms(p)
           id == [t \in T |-> t]
           assumed == [i \in DOMAIN walk |-> MergedBy(walk[i])]
           pairs == p.equalities \o assumed
           l == MergedAll(id, pairs)
<1>1. T \in SUBSET Nat BY DEF WellFormed, Terms
<1>2. p.equalities \in Seq(T \X T) BY DEF WellFormed
<1>3. assumed \in Seq(T \X T) /\ DOMAIN assumed = DOMAIN walk /\ Len(assumed) = Len(walk)
  <2>1. \A a \in AssumptionOf(p) : MergedBy(a) \in T \X T
    <3> SUFFICES ASSUME NEW a \in AssumptionOf(p) PROVE MergedBy(a) \in T \X T OBVIOUS
    <3>1. a.left \in T /\ (a.kind = "Equal" => a.right \in T) BY DEF AssumptionOf
    <3> HIDE DEF T
    <3> QED BY <3>1 DEF MergedBy
  <2>2. \A i \in DOMAIN walk : MergedBy(walk[i]) \in T \X T BY <2>1
  <2>3. DOMAIN walk = 1..Len(walk) /\ Len(walk) \in Nat OBVIOUS
  <2> HIDE DEF T
  <2>4. assumed = [i \in 1..Len(walk) |-> MergedBy(walk[i])] BY <2>3
  <2>5. assumed \in [1..Len(walk) -> T \X T] BY <2>2, <2>3, <2>4
  <2> HIDE DEF assumed
  <2> QED BY <2>3, <2>5
<1> HIDE DEF T, assumed
<1>4. id \in Labels(T) BY <1>1 DEF Labels
<1>5. pairs \in Seq(T \X T) BY <1>2, <1>3
<1>6. \A c : Follows(T, id, c) BY DEF Follows
<1>7. ASSUME NEW c
      PROVE  (\A i \in DOMAIN pairs : c[pairs[i][1]] = c[pairs[i][2]]) <=> Respects(p, walk, c)
  <2>1. ASSUME \A i \in DOMAIN pairs : c[pairs[i][1]] = c[pairs[i][2]] PROVE Respects(p, walk, c)
    <3>1. ASSUME NEW i \in DOMAIN p.equalities
          PROVE  c[p.equalities[i][1]] = c[p.equalities[i][2]]
      <4>1. i \in DOMAIN pairs /\ pairs[i] = p.equalities[i] BY <1>2, <1>3
      <4> QED BY <2>1, <4>1
    <3>2. ASSUME NEW a \in Assumed(walk, "Equal") PROVE c[a.left] = c[a.right]
      <4>1. PICK i \in DOMAIN walk : walk[i] = a BY DEF Assumed, Range
      <4>2. /\ Len(p.equalities) + i \in DOMAIN pairs
            /\ pairs[Len(p.equalities) + i] = assumed[i]
            BY <1>2, <1>3
      <4>3. assumed[i] = <<a.left, a.right>> BY <3>2, <4>1 DEF assumed, MergedBy, Assumed
      <4> HIDE DEF pairs
      <4> QED BY <2>1, <4>2, <4>3
    <3> QED BY <3>1, <3>2 DEF Respects, Range
  <2>2. ASSUME Respects(p, walk, c), NEW i \in DOMAIN pairs PROVE c[pairs[i][1]] = c[pairs[i][2]]
    <3>1. CASE i <= Len(p.equalities)
      <4>1. i \in DOMAIN p.equalities /\ pairs[i] = p.equalities[i] BY <1>2, <1>3, <3>1
      <4>2. pairs[i] \in Range(p.equalities) BY <4>1 DEF Range
      <4> QED BY <2>2, <4>2 DEF Respects
    <3>2. CASE ~(i <= Len(p.equalities))
      <4> DEFINE j == i - Len(p.equalities)
      <4>1. j \in DOMAIN walk /\ pairs[i] = assumed[j] BY <1>2, <1>3, <3>2
      <4>2. assumed[j] = MergedBy(walk[j]) BY <4>1 DEF assumed
      <4>3. CASE walk[j].kind = "Equal"
        <5>1. walk[j] \in Assumed(walk, "Equal") BY <4>1, <4>3 DEF Assumed, Range
        <5>2. c[walk[j].left] = c[walk[j].right] BY <2>2, <5>1 DEF Respects
        <5> QED BY <4>1, <4>2, <4>3, <5>2 DEF MergedBy
      <4>4. CASE walk[j].kind # "Equal" BY <4>1, <4>2, <4>4 DEF MergedBy
      <4> QED BY <4>3, <4>4
    <3> QED BY <3>1, <3>2
  <2> QED BY <2>1, <2>2
<1> HIDE DEF id, pairs
<1>8. /\ l \in Labels(T)
      /\ \A i \in DOMAIN pairs : l[pairs[i][1]] = l[pairs[i][2]]
      /\ \A c : Follows(T, id, c) /\ (\A i \in DOMAIN pairs : c[pairs[i][1]] = c[pairs[i][2]])
                => Follows(T, l, c)
      BY <1>1, <1>4, <1>5, MergedAllFacts
<1>9. AuditLabels(p, walk) = l BY DEF AuditLabels, id, pairs, assumed, T
<1> HIDE DEF l
<1>10. Respects(p, walk, l) BY <1>7, <1>8
<1>11. \A c : Respects(p, walk, c) => Follows(T, l, c) BY <1>6, <1>7, <1>8
<1> QED BY <1>8, <1>9, <1>10, <1>11 DEF T

-----------------------------------------------------------------------------
(* Sets with one value.                                                    *)
LEMMA OneValue ==
    ASSUME NEW S, IsFiniteSet(S)
    PROVE  IsSingleton(S) <=> \E x : S = {x}
BY FS_Singleton DEF IsSingleton

(* A known value is taken from a class that differs, or two classes that   *)
(* differ have the same one.                                               *)
Reduces(R, D, apart, r) ==
    \E q \in apart :
       \/ r.conflict /\ D[q[1]] = D[q[2]] /\ IsCut(D, q[1], q[2])
       \/ /\ ~r.conflict /\ r.apart = apart
          /\ \E k, o \in R :
                /\ <<k, o>> = q \/ <<o, k>> = q
                /\ IsCut(D, k, o) /\ D[k] # D[o]
                /\ r.domains = [D EXCEPT ![o] = @ \ D[k]]

LEMMA ReductionFacts ==
    ASSUME NEW R \in SUBSET Nat, NEW V, IsFiniteSet(V), NEW D \in [R -> SUBSET V],
           NEW apart \in SUBSET (R \X R), ActivePairs(apart, D) # {}
    PROVE  Reduces(R, D, apart, Reduction(apart, D))
<1> DEFINE active == ActivePairs(apart, D)
           q == FirstPair(active)
           k == IF IsCut(D, q[1], q[2]) THEN q[1] ELSE q[2]
           o == IF k = q[1] THEN q[2] ELSE q[1]
           r == Reduction(apart, D)
<1>1. q \in active
  <2>1. active \in SUBSET (Nat \X Nat) /\ active # {} BY DEF ActivePairs
  <2> HIDE DEF active
  <2> QED BY <2>1, FirstPairIsOne
<1>2. /\ q \in apart /\ q[1] \in R /\ q[2] \in R /\ q = <<q[1], q[2]>>
      /\ IsCut(D, q[1], q[2]) \/ IsCut(D, q[2], q[1])
      BY <1>1 DEF ActivePairs
<1>3. r = IF D[q[1]] = D[q[2]] THEN ConflictAt(Collision(q[1], q[2], TheValue(D[k])))
          ELSE ConsistentAt(<<>>, [D EXCEPT ![o] = @ \ D[k]], apart)
      BY DEF Reduction, ReductionAt
<1> HIDE DEF q, r
<1>4. CASE D[q[1]] = D[q[2]]
  <2>1. r.conflict BY <1>3, <1>4 DEF ConflictAt
  <2>2. IsCut(D, q[1], q[2]) BY <1>2, <1>4 DEF IsCut
  <2> QED BY <1>2, <1>4, <2>1, <2>2 DEF r, Reduces
<1>5. CASE D[q[1]] # D[q[2]]
  <2>1. ~r.conflict /\ r.apart = apart /\ r.domains = [D EXCEPT ![o] = @ \ D[k]]
        BY <1>3, <1>5 DEF ConsistentAt
  <2>2. /\ k \in R /\ o \in R /\ (<<k, o>> = q \/ <<o, k>> = q)
        /\ IsCut(D, k, o) /\ D[k] # D[o]
        BY <1>2, <1>5
  <2> HIDE DEF k, o
  <2>3. \E k2, o2 \in R :
            /\ <<k2, o2>> = q \/ <<o2, k2>> = q
            /\ IsCut(D, k2, o2) /\ D[k2] # D[o2]
            /\ r.domains = [D EXCEPT ![o2] = @ \ D[k2]]
        BY <2>1, <2>2
  <2> QED BY <1>2, <2>1, <2>3 DEF r, Reduces
<1> QED BY <1>4, <1>5

(* Values that no disequality forbids.                                     *)
Uncut(apart, e) == \A q \in apart : ~IsCut(e, q[1], q[2]) /\ ~IsCut(e, q[2], q[1])
Within(R, e, D) == \A x \in R : e[x] # {} /\ e[x] \subseteq D[x]
ValuesIn(R, V, D) == {choice \in R \X V : choice[2] \in D[choice[1]]}

Preserves(R, V, apart, D, r) ==
    /\ \A e : Uncut(apart, e) /\ Within(R, e, D) => ~r.conflict /\ Within(R, e, r.domains)
    /\ ~r.conflict =>
          /\ r.apart = apart /\ r.domains \in [R -> SUBSET V]
          /\ \A x \in R : r.domains[x] \subseteq D[x]
          /\ (\A x \in R : D[x] # {}) => \A x \in R : r.domains[x] # {}
          /\ ValuesIn(R, V, r.domains) \subseteq ValuesIn(R, V, D)
          /\ ValuesIn(R, V, r.domains) # ValuesIn(R, V, D)

LEMMA ReductionKeeps ==
    ASSUME NEW R \in SUBSET Nat, NEW V, IsFiniteSet(V), NEW D \in [R -> SUBSET V],
           NEW apart \in SUBSET (R \X R), ActivePairs(apart, D) # {}
    PROVE  Preserves(R, V, apart, D, Reduction(apart, D))
<1> DEFINE r == Reduction(apart, D)
<1>0. Reduces(R, D, apart, r) BY ReductionFacts
<1> HIDE DEF r
<1>1. PICK q \in apart :
          \/ r.conflict /\ D[q[1]] = D[q[2]] /\ IsCut(D, q[1], q[2])
          \/ /\ ~r.conflict /\ r.apart = apart
             /\ \E k, o \in R :
                   /\ <<k, o>> = q \/ <<o, k>> = q
                   /\ IsCut(D, k, o) /\ D[k] # D[o]
                   /\ r.domains = [D EXCEPT ![o] = @ \ D[k]]
      BY <1>0 DEF Reduces
<1>2. q[1] \in R /\ q[2] \in R OBVIOUS
<1>3. \A x \in R : D[x] \subseteq V /\ IsFiniteSet(D[x]) BY FS_Subset
<1>4. \A x, y \in R : IsCut(D, x, y) => \E v \in V : D[x] = {v} /\ v \in D[y]
  <2> SUFFICES ASSUME NEW x \in R, NEW y \in R, IsCut(D, x, y)
               PROVE  \E v \in V : D[x] = {v} /\ v \in D[y]
      OBVIOUS
  <2>1. PICK v : D[x] = {v} BY <1>3, OneValue DEF IsCut
  <2> QED BY <1>3, <2>1 DEF IsCut
<1>5. ASSUME NEW e, Uncut(apart, e), Within(R, e, D)
      PROVE  /\ ~(D[q[1]] = D[q[2]] /\ IsCut(D, q[1], q[2]))
             /\ \A k, o \in R : (<<k, o>> = q \/ <<o, k>> = q) /\ IsCut(D, k, o)
                    => e[k] = D[k] /\ ~(D[k] \subseteq e[o])
  <2>0. ASSUME NEW k \in R, NEW o \in R, IsCut(D, k, o), <<k, o>> = q \/ <<o, k>> = q
        PROVE e[k] = D[k] /\ ~(D[k] \subseteq e[o])
    <3>0. IsCut(D, k, o) BY <2>0
    <3>1. PICK v \in V : D[k] = {v} /\ v \in D[o] BY <1>4, <3>0
    <3>2. e[k] = {v}
      <4>1. e[k] # {} /\ e[k] \subseteq D[k] BY <1>5 DEF Within
      <4> QED BY <3>1, <4>1
    <3>3. IsSingleton(e[k]) BY <3>1, <3>2, <2>0 DEF IsCut
    <3>4. ~IsCut(e, k, o) BY <1>5, <2>0 DEF Uncut
    <3> QED BY <3>1, <3>2, <3>3, <3>4 DEF IsCut
  <2>1. ASSUME D[q[1]] = D[q[2]], IsCut(D, q[1], q[2]) PROVE FALSE
    <3>1. q = <<q[1], q[2]>> OBVIOUS
    <3>2. e[q[1]] = D[q[1]] /\ ~(D[q[1]] \subseteq e[q[2]]) BY <1>2, <2>0, <2>1, <3>1
    <3>3. PICK v \in V : D[q[1]] = {v} BY <1>2, <1>4, <2>1
    <3>4. e[q[2]] # {} /\ e[q[2]] \subseteq D[q[2]] BY <1>2, <1>5 DEF Within
    <3> QED BY <2>1, <3>2, <3>3, <3>4
  <2> QED BY <2>0, <2>1
<1>6. ASSUME NEW e, Uncut(apart, e), Within(R, e, D) PROVE ~r.conflict /\ Within(R, e, r.domains)
  <2>1. ~r.conflict BY <1>1, <1>5, <1>6
  <2>2. PICK k \in R, o \in R : /\ <<k, o>> = q \/ <<o, k>> = q
                                /\ IsCut(D, k, o)
                                /\ r.domains = [D EXCEPT ![o] = @ \ D[k]]
        BY <1>1, <2>1
  <2>3. PICK v \in V : D[k] = {v} /\ v \in D[o] BY <1>4, <2>2
  <2>4. v \notin e[o]
    <3>1. ~(D[k] \subseteq e[o])
      <4>1. Uncut(apart, e) /\ Within(R, e, D) BY <1>6
      <4>2. \A y, z \in R : (<<y, z>> = q \/ <<z, y>> = q) /\ IsCut(D, y, z)
                            => ~(D[y] \subseteq e[z])
            BY <1>5, <4>1
      <4> QED BY <2>2, <4>2
    <3> QED BY <2>3, <3>1
  <2>5. \A x \in R : r.domains[x] = IF x = o THEN D[x] \ {v} ELSE D[x] BY <2>2, <2>3
  <2>6. \A x \in R : e[x] # {} /\ e[x] \subseteq r.domains[x] BY <1>6, <2>4, <2>5 DEF Within
  <2> QED BY <2>1, <2>6 DEF Within
<1>7. ASSUME ~r.conflict
      PROVE  /\ r.apart = apart /\ r.domains \in [R -> SUBSET V]
             /\ \A x \in R : r.domains[x] \subseteq D[x]
             /\ (\A x \in R : D[x] # {}) => \A x \in R : r.domains[x] # {}
             /\ ValuesIn(R, V, r.domains) \subseteq ValuesIn(R, V, D)
             /\ ValuesIn(R, V, r.domains) # ValuesIn(R, V, D)
  <2>1. r.apart = apart BY <1>1, <1>7
  <2>2. PICK k \in R, o \in R : /\ IsCut(D, k, o) /\ D[k] # D[o]
                                /\ r.domains = [D EXCEPT ![o] = @ \ D[k]]
        BY <1>1, <1>7
  <2>3. PICK v \in V : D[k] = {v} /\ v \in D[o] BY <1>4, <2>2
  <2>4. \A x \in R : r.domains[x] = IF x = o THEN D[x] \ {v} ELSE D[x] BY <2>2, <2>3
  <2>5. r.domains \in [R -> SUBSET V] BY <1>3, <2>2
  <2>6. \A x \in R : r.domains[x] \subseteq D[x] BY <2>4
  <2>7. (\A x \in R : D[x] # {}) => \A x \in R : r.domains[x] # {} BY <2>2, <2>3, <2>4
  <2>8. ValuesIn(R, V, r.domains) \subseteq ValuesIn(R, V, D) BY <2>6 DEF ValuesIn
  <2>9. <<o, v>> \in ValuesIn(R, V, D) /\ <<o, v>> \notin ValuesIn(R, V, r.domains)
        BY <2>3, <2>4 DEF ValuesIn
  <2> QED BY <2>1, <2>5, <2>6, <2>7, <2>8, <2>9
<1> QED BY <1>6, <1>7 DEF r, Preserves

(* Turn after turn, until no value is cut.                                 *)
ReducesAt(f, apart, D, n) ==
    IF n = 0 THEN ConsistentAt(<<>>, D, apart)
    ELSE IF f[n - 1].conflict \/ ActivePairs(apart, f[n - 1].domains) = {} THEN f[n - 1]
    ELSE Reduction(apart, f[n - 1].domains)
ReducesUpTo(apart, D, n) == CHOOSE f : f = [i \in 0..n |-> ReducesAt(f, apart, D, i)]

LEMMA ReducesExist ==
    ASSUME NEW apart, NEW D, NEW n \in Nat
    PROVE  ReducesUpTo(apart, D, n) = [i \in 0..n |-> ReducesAt(ReducesUpTo(apart, D, n), apart, D, i)]
<1> DEFINE P == {k \in Nat : \E f : f = [i \in 0..k |-> ReducesAt(f, apart, D, i)]}
<1>1. 0 \in P
  <2> DEFINE f == [i \in 0..0 |-> ConsistentAt(<<>>, D, apart)]
  <2>1. f = [i \in 0..0 |-> ReducesAt(f, apart, D, i)] BY DEF ReducesAt
  <2> QED BY <2>1
<1>2. ASSUME NEW k \in P PROVE k + 1 \in P
  <2>1. PICK f : f = [i \in 0..k |-> ReducesAt(f, apart, D, i)] OBVIOUS
  <2> DEFINE g == [i \in 0..(k + 1) |-> IF i = k + 1 THEN ReducesAt(f, apart, D, i) ELSE f[i]]
  <2>2. \A i \in 0..(k + 1) : g[i] = ReducesAt(g, apart, D, i)
    <3> SUFFICES ASSUME NEW i \in 0..(k + 1) PROVE g[i] = ReducesAt(g, apart, D, i) OBVIOUS
    <3>1. CASE i = 0 BY <3>1, <2>1 DEF ReducesAt
    <3>2. CASE i > 0
      <4>1. i - 1 \in 0..k /\ g[i - 1] = f[i - 1] BY <3>2
      <4>2. g[i] = ReducesAt(f, apart, D, i) BY <2>1
      <4> QED BY <3>2, <4>1, <4>2 DEF ReducesAt
    <3> QED BY <3>1, <3>2
  <2>3. g = [i \in 0..(k + 1) |-> ReducesAt(g, apart, D, i)] BY <2>2
  <2> HIDE DEF g
  <2>4. \E h : h = [i \in 0..(k + 1) |-> ReducesAt(h, apart, D, i)] BY <2>3
  <2> QED BY <2>4
<1>3. P = Nat BY <1>1, <1>2, Induction
<1>4. \E f : f = [i \in 0..n |-> ReducesAt(f, apart, D, i)] BY <1>3
<1> QED BY <1>4 DEF ReducesUpTo

(* What is left of the values when none is cut any more.                   *)
ReducedTo(R, V, apart, D, r) ==
    /\ r.apart = apart
    /\ r.domains \in [R -> SUBSET V]
    /\ \A x \in R : r.domains[x] \subseteq D[x]
    /\ (\A x \in R : D[x] # {}) => \A x \in R : r.domains[x] # {}

LEMMA ReducedFacts ==
    ASSUME NEW p, NEW R \in SUBSET Nat, IsFiniteSet(R), IsFiniteSet(Carrier(p)),
           NEW D \in [R -> SUBSET Carrier(p)], NEW apart \in SUBSET (R \X R)
    PROVE  LET r == Reduced(p, apart, D)
           IN  /\ \A e : Uncut(apart, e) /\ Within(R, e, D) => ~r.conflict /\ Within(R, e, r.domains)
               /\ ~r.conflict => ReducedTo(R, Carrier(p), apart, D, r)
                                 /\ ActivePairs(apart, r.domains) = {}
               /\ r.conflict => r.settled
<1> DEFINE V == Carrier(p)
           N == Cardinality(ValuesIn(R, V, D))
           turn == ReducesUpTo(apart, D, N)
           Count(E) == Cardinality(ValuesIn(R, V, E))
<1>1. ASSUME NEW E PROVE IsFiniteSet(ValuesIn(R, V, E)) /\ Count(E) \in Nat
  <2>1. IsFiniteSet(R \X V) BY FS_Product
  <2>2. ValuesIn(R, V, E) \in SUBSET (R \X V) BY DEF ValuesIn
  <2> QED BY <2>1, <2>2, FS_Subset, FS_CardinalityType
<1>2. N \in Nat BY <1>1
<1>3. Reduced(p, apart, D) = turn[N]
  <2>1. ValuesLeft(p, D) = ValuesIn(R, V, D) BY DEF ValuesLeft, ValuesIn
  <2> QED BY <2>1 DEF Reduced, ReducesAt, ReducesUpTo
<1> HIDE DEF N
<1>4. turn = [i \in 0..N |-> ReducesAt(turn, apart, D, i)] BY <1>2, ReducesExist
<1> HIDE DEF turn
<1>5. turn[0] = ConsistentAt(<<>>, D, apart) BY <1>2, <1>4 DEF ReducesAt
<1> DEFINE Over(r) == r.conflict \/ ActivePairs(apart, r.domains) = {}
<1>6. ASSUME NEW n \in 0..(N - 1)
      PROVE  turn[n + 1] = IF Over(turn[n]) THEN turn[n] ELSE Reduction(apart, turn[n].domains)
  <2>1. n + 1 \in 0..N /\ n + 1 # 0 /\ (n + 1) - 1 = n BY <1>2
  <2>2. turn[n + 1] = ReducesAt(turn, apart, D, n + 1) BY <1>4, <2>1
  <2> QED BY <2>1, <2>2 DEF ReducesAt
<1> DEFINE Right(r) ==
               /\ \A e : Uncut(apart, e) /\ Within(R, e, D) => ~r.conflict /\ Within(R, e, r.domains)
               /\ ~r.conflict => ReducedTo(R, V, apart, D, r)
               /\ r.conflict => r.settled
           Fine(n) == Right(turn[n]) /\ (Over(turn[n]) \/ Count(turn[n].domains) + n <= N)
           P == {n \in Nat : n <= N => Fine(n)}
<1>7. 0 \in P
  <2>1. Right(turn[0]) BY <1>5 DEF ConsistentAt, ReducedTo
  <2>2. Count(turn[0].domains) + 0 <= N BY <1>1, <1>5 DEF ConsistentAt, N
  <2> HIDE DEF Right, Over, Count
  <2> QED BY <2>1, <2>2
<1>8. ASSUME NEW n \in P PROVE n + 1 \in P
  <2> SUFFICES ASSUME n + 1 <= N PROVE Fine(n + 1) OBVIOUS
  <2>1. n \in 0..(N - 1) /\ n \in Nat /\ n <= N BY <1>2
  <2>2. Fine(n) BY <1>8, <2>1
  <2>3. CASE Over(turn[n])
    <3>1. turn[n + 1] = turn[n] BY <1>6, <2>1, <2>3
    <3> HIDE DEF Right, Over, Count
    <3> QED BY <2>2, <2>3, <3>1
  <2>4. CASE ~Over(turn[n])
    <3> DEFINE E == turn[n].domains
               r == turn[n + 1]
    <3>1. r = Reduction(apart, E) BY <1>6, <2>1, <2>4
    <3>2. ReducedTo(R, V, apart, D, turn[n]) BY <2>2, <2>4
    <3>3. E \in [R -> SUBSET V] /\ ActivePairs(apart, E) # {} BY <2>4, <3>2 DEF ReducedTo
    <3>4. Count(E) + n <= N BY <2>2, <2>4
    <3>5. /\ \A x \in R : E[x] \subseteq D[x]
          /\ (\A x \in R : D[x] # {}) => \A x \in R : E[x] # {}
          BY <3>2 DEF ReducedTo
    <3>6. \A e : Uncut(apart, e) /\ Within(R, e, D) => Within(R, e, E)
      <4>1. Right(turn[n]) BY <2>2
      <4> QED BY <4>1
    <3> HIDE DEF E, r, Count, V
    <3>7. Preserves(R, V, apart, E, r)
      <4>1. IsFiniteSet(V) BY DEF V
      <4> QED BY <3>1, <3>3, <4>1, ReductionKeeps
    <3>8. \A e : Uncut(apart, e) /\ Within(R, e, D) => ~r.conflict /\ Within(R, e, r.domains)
          BY <3>6, <3>7 DEF Preserves
    <3>9. ~r.conflict => ReducedTo(R, V, apart, D, r) BY <3>5, <3>7 DEF ReducedTo, Preserves
    <3>10. r.conflict => r.settled BY <3>1 DEF Reduction, ReductionAt, ConflictAt, ConsistentAt
    <3>11. ~r.conflict => Count(r.domains) + (n + 1) <= N
      <4> SUFFICES ASSUME ~r.conflict PROVE Count(r.domains) + (n + 1) <= N OBVIOUS
      <4>1. Count(r.domains) <= Count(E) /\ Count(r.domains) # Count(E)
            BY <1>1, <3>7, FS_Subset DEF Count, Preserves
      <4>2. Count(r.domains) \in Nat /\ Count(E) \in Nat BY <1>1
      <4> HIDE DEF Count
      <4> QED BY <1>2, <2>1, <3>4, <4>1, <4>2
    <3>12. Right(r) BY <3>8, <3>9, <3>10
    <3>13. Over(r) \/ Count(r.domains) + (n + 1) <= N BY <3>11
    <3> HIDE DEF Right, Over
    <3> QED BY <3>12, <3>13 DEF r
  <2> QED BY <2>3, <2>4
<1>9. P = Nat BY <1>7, <1>8, Induction
<1>10. Fine(N) BY <1>2, <1>9
<1>11. ASSUME ~turn[N].conflict PROVE ActivePairs(apart, turn[N].domains) = {}
  <2> SUFFICES ASSUME Count(turn[N].domains) + N <= N PROVE ActivePairs(apart, turn[N].domains) = {}
    <3> HIDE DEF Count, Right
    <3> QED BY <1>10, <1>11
  <2> DEFINE E == turn[N].domains
  <2>1. ReducedTo(R, V, apart, D, turn[N])
    <3>1. Right(turn[N]) BY <1>10
    <3> QED BY <1>11, <3>1
  <2>2. Count(E) = 0
    <3>1. Count(E) \in Nat BY <1>1
    <3> HIDE DEF Count
    <3> QED BY <1>2, <3>1
  <2>3. ValuesIn(R, V, E) = {} BY <1>1, <2>2, FS_EmptySet
  <2>4. E \in [R -> SUBSET V] BY <2>1 DEF ReducedTo
  <2> HIDE DEF E
  <2>5. \A x \in R : E[x] = {}
    <3> SUFFICES ASSUME NEW x \in R, NEW v \in E[x] PROVE FALSE OBVIOUS
    <3>1. v \in V BY <2>4
    <3>2. <<x, v>> \in ValuesIn(R, V, E) BY <3>1 DEF ValuesIn
    <3> QED BY <2>3, <3>2
  <2>6. \A x \in R : ~IsSingleton(E[x]) BY <2>5, FS_EmptySet DEF IsSingleton
  <2>7. ActivePairs(apart, E) = {} BY <2>6 DEF ActivePairs, IsCut
  <2> QED BY <2>7 DEF E
<1> QED BY <1>3, <1>10, <1>11

-----------------------------------------------------------------------------
(* Classes c with values d that need no further step under the assumptions *)
(* of a path: what both the search and the audit come to.                  *)
Congruent(p, c, i, j) ==
    /\ p.apps[i].fun = p.apps[j].fun
    /\ \A k \in DOMAIN p.apps[i].args : c[p.apps[i].args[k]] = c[p.apps[j].args[k]]

Closed(p, walk, c, d) ==
    /\ Respects(p, walk, c)
    /\ \A t, u \in Terms(p) : c[t] = c[u] => d[t] = d[u]
    /\ \A t \in Terms(p) : d[t] # {} /\ d[t] \subseteq DomainOf(p, t)
    /\ \A a \in Assumed(walk, "Value") : d[a.left] \subseteq {a.right}
    /\ \A q \in RawDisequalities(p, walk) : c[q[1]] # c[q[2]]
    /\ Uncut(RawDisequalities(p, walk), d)
    /\ \A i, j \in DOMAIN p.apps : Congruent(p, c, i, j) => c[p.apps[i].result] = c[p.apps[j].result]
    /\ \A t, u \in Terms(p) : SameSingleton(d[t], d[u]) => c[t] = c[u]

LEMMA RawFacts ==
    ASSUME NEW p, WellFormed(p), NEW walk \in Seq(AssumptionOf(p))
    PROVE  RawDisequalities(p, walk) \in SUBSET (Terms(p) \X Terms(p))
<1>1. ASSUME NEW s \in Terms(p), NEW t \in Terms(p) PROVE OrderedPair(s, t) \in Terms(p) \X Terms(p)
      BY DEF OrderedPair
<1>2. \A pair \in Range(p.disequalities) : pair[1] \in Terms(p) /\ pair[2] \in Terms(p)
      BY DEF WellFormed, Range
<1>3. \A a \in Assumed(walk, "Distinct") : a.left \in Terms(p) /\ a.right \in Terms(p)
      BY DEF Assumed, Range, AssumptionOf
<1> QED BY <1>1, <1>2, <1>3 DEF RawDisequalities

LEMMA LabelsRange ==
    ASSUME NEW T \in SUBSET Nat, NEW l \in Labels(T)
    PROVE  /\ Range(l) \in SUBSET T
           /\ \A x \in Range(l) : l[x] = x
           /\ \A t \in T : l[t] \in Range(l)
<1>1. DOMAIN l = T /\ \A t \in T : l[t] \in T /\ l[l[t]] = l[t] BY DEF Labels
<1> QED BY <1>1 DEF Range

LEMMA AuditDomainsFacts ==
    ASSUME NEW p, WellFormed(p), NEW walk \in Seq(AssumptionOf(p)), NEW l \in Labels(Terms(p))
    PROVE  LET D == AuditDomains(p, walk, l)
           IN  /\ D \in [Range(l) -> SUBSET Carrier(p)]
               /\ \A t \in Terms(p) : D[l[t]] \subseteq DomainOf(p, t)
               /\ \A a \in Assumed(walk, "Value") : D[l[a.left]] \subseteq {a.right}
               /\ \A c, d : Closed(p, walk, c, d) /\ Follows(Terms(p), l, c) => Within(Range(l), d, D)
<1> DEFINE T == Terms(p)
           D == AuditDomains(p, walk, l)
<1>1. T \in SUBSET Nat BY DEF WellFormed, Terms
<1>2. /\ Range(l) \in SUBSET T /\ \A x \in Range(l) : l[x] = x
      /\ \A t \in T : l[t] \in Range(l)
      BY <1>1, LabelsRange
<1>3. \A a \in Assumed(walk, "Value") : a.left \in T
      BY DEF Assumed, Range, AssumptionOf
<1>4. D = [rep \in Range(l) |->
              {value \in Carrier(p) :
                  /\ \A t \in T : l[t] = rep => value \in DomainOf(p, t)
                  /\ \A a \in Assumed(walk, "Value") : l[a.left] = rep => value = a.right}]
      BY DEF AuditDomains
<1> HIDE DEF D
<1>5. \A x \in Range(l) : D[x] =
          {value \in Carrier(p) :
              /\ \A t \in T : l[t] = x => value \in DomainOf(p, t)
              /\ \A a \in Assumed(walk, "Value") : l[a.left] = x => value = a.right}
      BY <1>4
<1>6. D \in [Range(l) -> SUBSET Carrier(p)]
  <2>1. \A x \in Range(l) : D[x] \in SUBSET Carrier(p) BY <1>5
  <2> QED BY <1>4, <2>1
<1>7. \A t \in T : D[l[t]] \subseteq DomainOf(p, t) BY <1>2, <1>5
<1>8. \A a \in Assumed(walk, "Value") : D[l[a.left]] \subseteq {a.right} BY <1>2, <1>3, <1>5
<1>9. ASSUME NEW c, NEW d, Closed(p, walk, c, d), Follows(T, l, c), NEW x \in Range(l)
      PROVE  d[x] # {} /\ d[x] \subseteq D[x]
  <2>1. x \in T /\ l[x] = x BY <1>2
  <2>2. d[x] # {} /\ d[x] \subseteq Carrier(p) BY <1>9, <2>1 DEF Closed, WellFormed
  <2>3. \A t \in T : l[t] = x => d[x] \subseteq DomainOf(p, t)
    <3> SUFFICES ASSUME NEW t \in T, l[t] = x PROVE d[x] \subseteq DomainOf(p, t) OBVIOUS
    <3>1. c[t] = c[x] BY <1>9, <2>1 DEF Follows
    <3>2. d[t] = d[x] BY <1>9, <2>1, <3>1 DEF Closed
    <3> QED BY <1>9, <3>2 DEF Closed
  <2>4. \A a \in Assumed(walk, "Value") : l[a.left] = x => d[x] \subseteq {a.right}
    <3> SUFFICES ASSUME NEW a \in Assumed(walk, "Value"), l[a.left] = x
                 PROVE  d[x] \subseteq {a.right}
        OBVIOUS
    <3>1. c[a.left] = c[x] BY <1>3, <1>9, <2>1 DEF Follows
    <3>2. d[a.left] = d[x] BY <1>3, <1>9, <2>1, <3>1 DEF Closed
    <3> QED BY <1>9, <3>2 DEF Closed
  <2> QED BY <1>5, <2>2, <2>3, <2>4
<1>10. \A c, d : Closed(p, walk, c, d) /\ Follows(T, l, c) => Within(Range(l), d, D)
       BY <1>9 DEF Within
<1> QED BY <1>6, <1>7, <1>8, <1>10 DEF D

LEMMA ApartFacts ==
    ASSUME NEW p, WellFormed(p), NEW walk \in Seq(AssumptionOf(p)), NEW l \in Labels(Terms(p))
    PROVE  /\ Apart(p, walk, l) \in SUBSET (Range(l) \X Range(l))
           /\ \A q \in Apart(p, walk, l) : q[1] <= q[2]
           /\ \A e : Uncut(Apart(p, walk, l), e)
                     <=> \A q \in RawDisequalities(p, walk) :
                            ~IsCut(e, l[q[1]], l[q[2]]) /\ ~IsCut(e, l[q[2]], l[q[1]])
<1> DEFINE T == Terms(p)
           raw == RawDisequalities(p, walk)
<1>1. T \in SUBSET Nat BY DEF WellFormed, Terms
<1>2. Range(l) \in SUBSET T /\ \A t \in T : l[t] \in Range(l) BY <1>1, LabelsRange
<1>3. \A q \in raw : q[1] \in T /\ q[2] \in T BY RawFacts
<1> HIDE DEF raw, T
<1>4. \A q \in raw : l[q[1]] \in Range(l) /\ l[q[2]] \in Range(l)
                     /\ l[q[1]] \in Nat /\ l[q[2]] \in Nat
      BY <1>1, <1>2, <1>3
<1>5. \A x, y \in Range(l) : OrderedPair(x, y) \in Range(l) \X Range(l) BY DEF OrderedPair
<1>6. \A x, y \in Nat : OrderedPair(x, y)[1] <= OrderedPair(x, y)[2] BY DEF OrderedPair
<1>7. \A x, y \in Nat : \A e : (~IsCut(e, OrderedPair(x, y)[1], OrderedPair(x, y)[2])
                                /\ ~IsCut(e, OrderedPair(x, y)[2], OrderedPair(x, y)[1]))
                               <=> (~IsCut(e, x, y) /\ ~IsCut(e, y, x))
      BY DEF OrderedPair
<1>8. Apart(p, walk, l) = {OrderedPair(l[q[1]], l[q[2]]) : q \in raw} BY DEF Apart, raw
<1>9. Apart(p, walk, l) \in SUBSET (Range(l) \X Range(l)) BY <1>4, <1>5, <1>8
<1>10. \A q \in Apart(p, walk, l) : q[1] <= q[2] BY <1>4, <1>6, <1>8
<1>11. ASSUME NEW e
       PROVE  Uncut(Apart(p, walk, l), e)
              <=> \A q \in raw : ~IsCut(e, l[q[1]], l[q[2]]) /\ ~IsCut(e, l[q[2]], l[q[1]])
  <2>1. Uncut(Apart(p, walk, l), e)
        <=> \A q \in raw : LET r == OrderedPair(l[q[1]], l[q[2]])
                           IN  ~IsCut(e, r[1], r[2]) /\ ~IsCut(e, r[2], r[1])
        BY <1>8 DEF Uncut
  <2> QED BY <1>4, <1>7, <2>1
<1> QED BY <1>9, <1>10, <1>11 DEF raw

(* What a turn of the audit may come to: a conflict that every model and   *)
(* every state of the search has, an answer that needs no further step, or *)
(* fewer classes.                                                          *)
Rests(p, walk, audit) ==
    /\ audit.labels \in Labels(Terms(p))
    /\ audit.domains \in [Range(audit.labels) -> SUBSET Carrier(p)]
    /\ audit.apart = Apart(p, walk, audit.labels)
    /\ Closed(p, walk, audit.labels, [t \in Terms(p) |-> audit.domains[audit.labels[t]]])

Shrinks(p, walk, labels, turn) ==
    /\ turn.labels \in Labels(Terms(p))
    /\ Respects(p, walk, turn.labels)
    /\ Range(turn.labels) \subseteq Range(labels) /\ Range(turn.labels) # Range(labels)

Allows(p, turn, c, d) ==
    /\ ~turn.conflict
    /\ Follows(Terms(p), turn.labels, c)
    /\ turn.settled => \A t \in Terms(p) : d[t] \subseteq turn.domains[turn.labels[t]]

TurnIsRight(p, walk, labels, turn) ==
    /\ turn.conflict => turn.settled
    /\ turn.settled /\ ~turn.conflict => Rests(p, walk, turn)
    /\ ~turn.settled => Shrinks(p, walk, labels, turn)
    /\ \A c, d : Closed(p, walk, c, d) /\ Follows(Terms(p), labels, c) => Allows(p, turn, c, d)

LEMMA MergeTurn ==
    ASSUME NEW p, WellFormed(p), NEW walk, NEW l \in Labels(Terms(p)), Respects(p, walk, l),
           NEW x \in Terms(p), NEW y \in Terms(p), l[x] # l[y],
           walk \in Seq(AssumptionOf(p)),
           \A c, d : Closed(p, walk, c, d) /\ Follows(Terms(p), l, c) => c[x] = c[y]
    PROVE  TurnIsRight(p, walk, l, MergedAt(Relabelled(l, x, y)))
<1> DEFINE T == Terms(p)
           m == Relabelled(l, x, y)
<1>1. T \in SUBSET Nat BY DEF WellFormed, Terms
<1>2. /\ m \in Labels(T)
      /\ Follows(T, l, m)
      /\ \A c : Follows(T, l, c) /\ c[x] = c[y] => Follows(T, m, c)
      /\ Range(m) \subseteq Range(l) /\ Range(m) # Range(l)
      BY <1>1, RelabelledFacts
<1> HIDE DEF m
<1>3. Respects(p, walk, m)
  <2>1. \A pair \in Range(p.equalities) : pair[1] \in T /\ pair[2] \in T BY DEF WellFormed, Range
  <2>2. \A a \in Assumed(walk, "Equal") : a.left \in T /\ a.right \in T
        BY DEF Assumed, Range, AssumptionOf
  <2> QED BY <1>2, <2>1, <2>2 DEF Respects, Follows
<1>4. \A c, d : Closed(p, walk, c, d) /\ Follows(T, l, c) => Follows(T, m, c) BY <1>2
<1> QED BY <1>2, <1>3, <1>4 DEF m, TurnIsRight, MergedAt, Shrinks, Allows

LEMMA ConflictTurn ==
    ASSUME NEW p, NEW walk, NEW l, NEW turn, turn.conflict, turn.settled,
           \A c, d : ~(Closed(p, walk, c, d) /\ Follows(Terms(p), l, c))
    PROVE  TurnIsRight(p, walk, l, turn)
BY DEF TurnIsRight

LEMMA TurnFacts ==
    ASSUME NEW p, WellFormed(p), NEW walk \in Seq(AssumptionOf(p)),
           NEW l \in Labels(Terms(p)), Respects(p, walk, l)
    PROVE  TurnIsRight(p, walk, l, AuditTurn(p, walk, l))
<1> DEFINE T == Terms(p)
           V == Carrier(p)
           R == Range(l)
           D == AuditDomains(p, walk, l)
           emptied == {rep \in R : D[rep] = {}}
           raw == RawDisequalities(p, walk)
           lost == {q \in raw : l[q[1]] = l[q[2]]}
           apart == Apart(p, walk, l)
           reduced == Reduced(p, apart, D)
           congruent == CongruentPairs(p, l)
           app == [side \in 1..2 |-> p.apps[FirstPair(congruent)[side]]]
           sharing == {q \in R \X R : q[1] < q[2] /\ q \notin apart
                           /\ SameSingleton(reduced.domains[q[1]], reduced.domains[q[2]])}
           turn == AuditTurn(p, walk, l)
           Model(c, d) == Closed(p, walk, c, d) /\ Follows(T, l, c)
<1>1. T \in SUBSET Nat /\ IsFiniteSet(T) /\ IsFiniteSet(V) BY WellFormedFinite
<1>2. /\ R \in SUBSET T /\ \A x \in R : l[x] = x
      /\ \A t \in T : l[t] \in R
      BY <1>1, LabelsRange
<1>3. R \in SUBSET Nat /\ IsFiniteSet(R) BY <1>1, <1>2, FS_Subset
<1>4. /\ D \in [R -> SUBSET V]
      /\ \A t \in T : D[l[t]] \subseteq DomainOf(p, t)
      /\ \A a \in Assumed(walk, "Value") : D[l[a.left]] \subseteq {a.right}
      /\ \A c, d : Model(c, d) => Within(R, d, D)
      BY AuditDomainsFacts
<1>5. raw \in SUBSET (T \X T) BY RawFacts
<1>6. /\ apart \in SUBSET (R \X R)
      /\ \A q \in apart : q[1] <= q[2]
      /\ \A e : Uncut(apart, e) <=> \A q \in raw : ~IsCut(e, l[q[1]], l[q[2]]) /\ ~IsCut(e, l[q[2]], l[q[1]])
      BY ApartFacts
<1>7. turn = IF emptied # {} THEN ConflictAt(EmptyDomain(Min(emptied)))
             ELSE IF lost # {} THEN ConflictAt(Collapsed(FirstPair(lost)[1], FirstPair(lost)[2]))
             ELSE IF reduced.conflict THEN reduced
             ELSE IF congruent # {} THEN MergedAt(Relabelled(l, app[1].result, app[2].result))
             ELSE IF sharing # {}
             THEN MergedAt(Relabelled(l, FirstPair(sharing)[1], FirstPair(sharing)[2]))
             ELSE ConsistentAt(l, reduced.domains, apart)
      BY DEF AuditTurn
<1>8. ASSUME NEW c, NEW d, Model(c, d)
      PROVE  /\ Within(R, d, D) /\ Uncut(apart, d)
             /\ \A t \in T : c[l[t]] = c[t] /\ d[l[t]] = d[t]
             /\ \A q \in raw : c[q[1]] # c[q[2]]
             /\ \A t, u \in T : SameSingleton(d[t], d[u]) => c[t] = c[u]
             /\ \A i, j \in DOMAIN p.apps :
                   Congruent(p, c, i, j) => c[p.apps[i].result] = c[p.apps[j].result]
  <2>1. Within(R, d, D) BY <1>4, <1>8
  <2>2. \A t \in T : c[l[t]] = c[t]
    <3>1. \A t \in T : l[t] \in T /\ l[l[t]] = l[t] BY <1>2
    <3> QED BY <1>8, <3>1 DEF Follows
  <2>3. \A t \in T : d[l[t]] = d[t] BY <1>2, <1>8, <2>2 DEF Closed
  <2>4. Uncut(raw, d) BY <1>8 DEF Closed
  <2>5. \A q \in raw : ~IsCut(d, l[q[1]], l[q[2]]) /\ ~IsCut(d, l[q[2]], l[q[1]])
    <3> SUFFICES ASSUME NEW q \in raw
                 PROVE  ~IsCut(d, l[q[1]], l[q[2]]) /\ ~IsCut(d, l[q[2]], l[q[1]])
        OBVIOUS
    <3>1. q[1] \in T /\ q[2] \in T BY <1>5
    <3>2. d[l[q[1]]] = d[q[1]] /\ d[l[q[2]]] = d[q[2]] BY <2>3, <3>1
    <3> QED BY <2>4, <3>2 DEF Uncut, IsCut
  <2>6. Uncut(apart, d) BY <1>6, <2>5
  <2> QED BY <1>8, <2>1, <2>2, <2>3, <2>6 DEF Closed
<1> HIDE DEF turn, D, raw, apart, R, reduced, congruent, V
<1>9. CASE emptied # {}
  <2>1. turn.conflict /\ turn.settled BY <1>7, <1>9 DEF ConflictAt
  <2>2. ASSUME NEW c, NEW d, Model(c, d) PROVE FALSE
    <3>1. Within(R, d, D) BY <1>8, <2>2
    <3> QED BY <1>9, <3>1 DEF Within
  <2>3. TurnIsRight(p, walk, l, turn) BY <2>1, <2>2, ConflictTurn
  <2> QED BY <2>3 DEF turn
<1>10. CASE emptied = {} /\ lost # {}
  <2>1. turn.conflict /\ turn.settled BY <1>7, <1>10 DEF ConflictAt
  <2>2. ASSUME NEW c, NEW d, Model(c, d) PROVE FALSE
    <3>1. PICK q \in raw : l[q[1]] = l[q[2]] BY <1>10
    <3>2. q[1] \in T /\ q[2] \in T BY <1>5
    <3>3. c[q[1]] = c[q[2]] BY <2>2, <3>1, <3>2 DEF Follows
    <3> QED BY <1>8, <2>2, <3>3
  <2>3. TurnIsRight(p, walk, l, turn) BY <2>1, <2>2, ConflictTurn
  <2> QED BY <2>3 DEF turn
<1>11. /\ \A e : Uncut(apart, e) /\ Within(R, e, D) => ~reduced.conflict /\ Within(R, e, reduced.domains)
       /\ ~reduced.conflict => ReducedTo(R, V, apart, D, reduced) /\ ActivePairs(apart, reduced.domains) = {}
       /\ reduced.conflict => reduced.settled
  <2>1. IsFiniteSet(Carrier(p)) /\ D \in [R -> SUBSET Carrier(p)] BY <1>1, <1>4 DEF V
  <2> QED BY <1>3, <1>6, <2>1, ReducedFacts DEF reduced, V
<1>12. CASE emptied = {} /\ lost = {} /\ reduced.conflict
  <2>1. turn = reduced BY <1>7, <1>12
  <2>2. turn.conflict /\ turn.settled BY <1>11, <1>12, <2>1
  <2>3. ASSUME NEW c, NEW d, Model(c, d) PROVE FALSE BY <1>8, <1>11, <1>12, <2>3
  <2>4. TurnIsRight(p, walk, l, turn) BY <2>2, <2>3, ConflictTurn
  <2> QED BY <2>4 DEF turn
<1>13. CASE emptied = {} /\ lost = {} /\ ~reduced.conflict /\ congruent # {}
  <2> DEFINE q == FirstPair(congruent)
             x == p.apps[q[1]].result
             y == p.apps[q[2]].result
  <2>1. q \in congruent
    <3>1. DOMAIN p.apps \subseteq Nat BY DEF WellFormed
    <3>2. congruent \in SUBSET (Nat \X Nat) BY <3>1 DEF congruent, CongruentPairs
    <3> QED BY <1>13, <3>2, FirstPairIsOne
  <2> HIDE DEF q
  <2>2. /\ q[1] \in DOMAIN p.apps /\ q[2] \in DOMAIN p.apps
        /\ p.apps[q[1]].fun = p.apps[q[2]].fun
        /\ \A i \in DOMAIN p.apps[q[1]].args : l[p.apps[q[1]].args[i]] = l[p.apps[q[2]].args[i]]
        /\ l[x] # l[y]
        BY <2>1 DEF congruent, CongruentPairs
  <2>3. x \in T /\ y \in T BY <2>2 DEF WellFormed
  <2>4. turn = MergedAt(Relabelled(l, x, y)) BY <1>7, <1>13 DEF q
  <2>5. ASSUME NEW c, NEW d, Model(c, d) PROVE c[x] = c[y]
    <3>1. ASSUME NEW i \in DOMAIN p.apps[q[1]].args
          PROVE  c[p.apps[q[1]].args[i]] = c[p.apps[q[2]].args[i]]
      <4>1. p.apps[q[1]].args[i] \in T /\ p.apps[q[2]].args[i] \in T
        <5>1. /\ p.apps[q[1]].args \in Seq(T) /\ p.apps[q[2]].args \in Seq(T)
              /\ Len(p.apps[q[1]].args) = Len(p.apps[q[2]].args)
              BY <2>2 DEF WellFormed
        <5> DEFINE a == p.apps[q[1]].args
                   b == p.apps[q[2]].args
        <5>2. a \in Seq(T) /\ b \in Seq(T) /\ Len(a) = Len(b) /\ i \in DOMAIN a BY <5>1
        <5> HIDE DEF Model, T, x, y, a, b
        <5>3. a[i] \in T /\ b[i] \in T BY <5>2, SameLength
        <5> QED BY <5>3 DEF a, b
      <4> QED BY <2>2, <2>5, <4>1 DEF Follows
    <3>2. Congruent(p, c, q[1], q[2]) BY <2>2, <3>1 DEF Congruent
    <3> QED BY <1>8, <2>2, <2>5, <3>2
  <2> HIDE DEF x, y
  <2>6. TurnIsRight(p, walk, l, turn) BY <2>2, <2>3, <2>4, <2>5, MergeTurn
  <2> QED BY <2>6 DEF turn
<1>14. CASE emptied = {} /\ lost = {} /\ ~reduced.conflict /\ congruent = {} /\ sharing # {}
  <2> DEFINE q == FirstPair(sharing)
             x == q[1]
             y == q[2]
  <2>1. q \in sharing
    <3>1. sharing \in SUBSET (Nat \X Nat) BY <1>3
    <3> HIDE DEF sharing
    <3> QED BY <1>14, <3>1, FirstPairIsOne
  <2>2. /\ x \in R /\ y \in R /\ x < y
        /\ SameSingleton(reduced.domains[x], reduced.domains[y])
        BY <2>1
  <2>3. turn = MergedAt(Relabelled(l, x, y)) BY <1>7, <1>14
  <2> HIDE DEF q, x, y
  <2>4. x \in T /\ y \in T /\ l[x] # l[y] BY <1>1, <1>2, <2>2
  <2>5. ASSUME NEW c, NEW d, Model(c, d) PROVE c[x] = c[y]
    <3>1. Within(R, d, reduced.domains) BY <1>8, <1>11, <2>5
    <3>2. /\ d[x] # {} /\ d[x] \subseteq reduced.domains[x]
          /\ d[y] # {} /\ d[y] \subseteq reduced.domains[y]
          BY <2>2, <3>1 DEF Within
    <3>3. reduced.domains[x] \subseteq V
      <4>1. ReducedTo(R, V, apart, D, reduced) BY <1>11, <1>14
      <4> QED BY <2>2, <4>1 DEF ReducedTo
    <3>4. PICK v : reduced.domains[x] = {v}
      <4>1. IsFiniteSet(reduced.domains[x]) BY <1>1, <3>3, FS_Subset
      <4> QED BY <2>2, <4>1, OneValue DEF SameSingleton
    <3>5. d[x] = {v} /\ d[y] = {v} BY <2>2, <3>2, <3>4 DEF SameSingleton
    <3>6. SameSingleton(d[x], d[y]) BY <2>2, <3>4, <3>5 DEF SameSingleton
    <3> QED BY <1>8, <2>4, <2>5, <3>6
  <2>6. TurnIsRight(p, walk, l, turn) BY <2>3, <2>4, <2>5, MergeTurn
  <2> QED BY <2>6 DEF turn
<1>15. CASE emptied = {} /\ lost = {} /\ ~reduced.conflict /\ congruent = {} /\ sharing = {}
  <2> DEFINE dom == reduced.domains
             v == [t \in T |-> dom[l[t]]]
  <2>1. turn = ConsistentAt(l, dom, apart) BY <1>7, <1>15
  <2>2. ReducedTo(R, V, apart, D, reduced) /\ ActivePairs(apart, dom) = {} BY <1>11, <1>15
  <2>3. /\ dom \in [R -> SUBSET V]
        /\ \A x \in R : dom[x] \subseteq D[x] /\ dom[x] # {}
        BY <1>15, <2>2 DEF ReducedTo
  <2> HIDE DEF dom
  <2>4. \A t, u \in T : l[t] = l[u] => v[t] = v[u] OBVIOUS
  <2>5. \A t \in T : v[t] # {} /\ v[t] \subseteq DomainOf(p, t) BY <1>2, <1>4, <2>3
  <2>6. \A a \in Assumed(walk, "Value") : v[a.left] \subseteq {a.right}
    <3> SUFFICES ASSUME NEW a \in Assumed(walk, "Value") PROVE v[a.left] \subseteq {a.right} OBVIOUS
    <3>1. a.left \in T BY DEF Assumed, Range, AssumptionOf
    <3> QED BY <1>2, <1>4, <2>3, <3>1
  <2>7. \A q \in raw : l[q[1]] # l[q[2]] BY <1>15
  <2>8. Uncut(raw, v)
    <3>1. Uncut(apart, dom) BY <2>2 DEF ActivePairs, Uncut
    <3>2. \A q \in raw : ~IsCut(dom, l[q[1]], l[q[2]]) /\ ~IsCut(dom, l[q[2]], l[q[1]])
          BY <1>6, <3>1
    <3>3. \A q \in raw : v[q[1]] = dom[l[q[1]]] /\ v[q[2]] = dom[l[q[2]]] BY <1>5
    <3> QED BY <3>2, <3>3 DEF Uncut, IsCut
  <2>9. ASSUME NEW i \in DOMAIN p.apps, NEW j \in DOMAIN p.apps, Congruent(p, l, i, j)
        PROVE  l[p.apps[i].result] = l[p.apps[j].result]
    <3>1. i \in Nat /\ j \in Nat
      <4>1. p.apps \in Seq(Application) BY DEF WellFormed
      <4> HIDE DEF Model, T
      <4>2. DOMAIN p.apps = 1..Len(p.apps) BY <4>1
      <4> QED BY <4>2
    <3>2. ASSUME NEW x \in DOMAIN p.apps, NEW y \in DOMAIN p.apps, x < y, Congruent(p, l, x, y)
          PROVE  l[p.apps[x].result] = l[p.apps[y].result]
      <4>1. <<x, y>> \notin congruent BY <1>15
      <4> QED BY <3>2, <4>1 DEF congruent, CongruentPairs, Congruent
    <3>3. CASE i < j BY <2>9, <3>2, <3>3
    <3>4. CASE j < i
      <4>1. Len(p.apps[i].args) = Len(p.apps[j].args) /\ p.apps[i].args \in Seq(T) /\ p.apps[j].args \in Seq(T)
            BY <2>9 DEF WellFormed, Congruent
      <4>2. DOMAIN p.apps[i].args = DOMAIN p.apps[j].args BY <4>1
      <4>3. Congruent(p, l, j, i) BY <2>9, <4>2 DEF Congruent
      <4> QED BY <3>2, <3>4, <4>3
    <3> QED BY <3>1, <3>3, <3>4
  <2>10. ASSUME NEW t \in T, NEW u \in T, SameSingleton(v[t], v[u]) PROVE l[t] = l[u]
    <3>1. ASSUME NEW x \in R, NEW y \in R, x < y, SameSingleton(dom[x], dom[y]) PROVE FALSE
      <4>1. <<x, y>> \in apart BY <1>15, <3>1 DEF dom
      <4>2. IsCut(dom, x, y) BY <3>1 DEF SameSingleton, IsCut
      <4>3. <<x, y>> \in ActivePairs(apart, dom) BY <4>1, <4>2 DEF ActivePairs
      <4> QED BY <2>2, <4>3
    <3>2. l[t] \in R /\ l[u] \in R /\ l[t] \in Nat /\ l[u] \in Nat BY <1>2, <1>3
    <3>3. SameSingleton(dom[l[t]], dom[l[u]]) BY <2>10
    <3>4. SameSingleton(dom[l[u]], dom[l[t]]) BY <3>3 DEF SameSingleton
    <3> QED BY <3>1, <3>2, <3>3, <3>4
  <2>11. Closed(p, walk, l, v)
    <3> HIDE DEF v
    <3> QED BY <2>4, <2>5, <2>6, <2>7, <2>8, <2>9, <2>10 DEF Closed, raw
  <2>12. Rests(p, walk, turn) BY <2>1, <2>3, <2>11 DEF Rests, ConsistentAt, R, V, apart
  <2>13. ASSUME NEW c, NEW d, Model(c, d) PROVE Allows(p, turn, c, d)
    <3>1. Within(R, d, dom) BY <1>8, <1>11, <2>13 DEF dom
    <3>2. \A t \in T : d[t] \subseteq dom[l[t]]
      <4> SUFFICES ASSUME NEW t \in T PROVE d[t] \subseteq dom[l[t]] OBVIOUS
      <4>1. d[l[t]] = d[t] BY <1>8, <2>13
      <4>2. l[t] \in R BY <1>2
      <4> QED BY <3>1, <4>1, <4>2 DEF Within
    <3> QED BY <2>1, <2>13, <3>2 DEF Allows, ConsistentAt
  <2>14. turn.settled /\ ~turn.conflict BY <2>1 DEF ConsistentAt
  <2>15. TurnIsRight(p, walk, l, turn) BY <2>12, <2>13, <2>14 DEF TurnIsRight
  <2> QED BY <2>15 DEF turn
<1> QED BY <1>9, <1>10, <1>12, <1>13, <1>14, <1>15

AuditsAt(f, p, walk, n) ==
    IF n > 0 /\ f[n - 1].settled THEN f[n - 1]
    ELSE AuditTurn(p, walk, IF n = 0 THEN AuditLabels(p, walk) ELSE f[n - 1].labels)
AuditsUpTo(p, walk, n) == CHOOSE f : f = [i \in 0..n |-> AuditsAt(f, p, walk, i)]

LEMMA AuditsExist ==
    ASSUME NEW p, NEW walk, NEW n \in Nat
    PROVE  AuditsUpTo(p, walk, n) = [i \in 0..n |-> AuditsAt(AuditsUpTo(p, walk, n), p, walk, i)]
<1> DEFINE P == {k \in Nat : \E f : f = [i \in 0..k |-> AuditsAt(f, p, walk, i)]}
<1>1. 0 \in P
  <2> DEFINE f == [i \in 0..0 |-> AuditTurn(p, walk, AuditLabels(p, walk))]
  <2>1. f = [i \in 0..0 |-> AuditsAt(f, p, walk, i)] BY DEF AuditsAt
  <2> QED BY <2>1
<1>2. ASSUME NEW k \in P PROVE k + 1 \in P
  <2>1. PICK f : f = [i \in 0..k |-> AuditsAt(f, p, walk, i)] OBVIOUS
  <2> DEFINE g == [i \in 0..(k + 1) |-> IF i = k + 1 THEN AuditsAt(f, p, walk, i) ELSE f[i]]
  <2>2. \A i \in 0..(k + 1) : g[i] = AuditsAt(g, p, walk, i)
    <3> SUFFICES ASSUME NEW i \in 0..(k + 1) PROVE g[i] = AuditsAt(g, p, walk, i) OBVIOUS
    <3>1. CASE i = 0 BY <3>1, <2>1 DEF AuditsAt
    <3>2. CASE i > 0
      <4>1. i - 1 \in 0..k /\ g[i - 1] = f[i - 1] BY <3>2
      <4>2. g[i] = AuditsAt(f, p, walk, i) BY <2>1
      <4> QED BY <3>2, <4>1, <4>2 DEF AuditsAt
    <3> QED BY <3>1, <3>2
  <2>3. g = [i \in 0..(k + 1) |-> AuditsAt(g, p, walk, i)] BY <2>2
  <2> HIDE DEF g
  <2>4. \E h : h = [i \in 0..(k + 1) |-> AuditsAt(h, p, walk, i)] BY <2>3
  <2> QED BY <2>4
<1>3. P = Nat BY <1>1, <1>2, Induction
<1>4. \E f : f = [i \in 0..n |-> AuditsAt(f, p, walk, i)] BY <1>3
<1> QED BY <1>4 DEF AuditsUpTo

(* The audit of a path ends in a conflict that nothing closed avoids, or   *)
(* in the classes that everything closed refines.                          *)
AuditIsRight(p, walk, audit) ==
    /\ ~audit.conflict => Rests(p, walk, audit)
    /\ \A c, d : Closed(p, walk, c, d) =>
          /\ ~audit.conflict
          /\ Follows(Terms(p), audit.labels, c)
          /\ \A t \in Terms(p) : d[t] \subseteq audit.domains[audit.labels[t]]

LEMMA AuditFacts ==
    ASSUME NEW p, WellFormed(p), NEW walk \in Seq(AssumptionOf(p))
    PROVE  AuditIsRight(p, walk, Audit(p, walk))
<1> DEFINE T == Terms(p)
           N == p.terms
           turn == AuditsUpTo(p, walk, N)
           Count(l) == Cardinality(Range(l))
<1>1. T \in SUBSET Nat /\ IsFiniteSet(T) /\ Cardinality(T) = N /\ N \in Nat
      BY WellFormedFinite DEF WellFormed
<1>2. Audit(p, walk) = turn[N] BY DEF Audit, AuditsAt, AuditsUpTo
<1>3. turn = [i \in 0..N |-> AuditsAt(turn, p, walk, i)] BY <1>1, AuditsExist
<1> HIDE DEF turn, N, T
<1>4. turn[0] = AuditTurn(p, walk, AuditLabels(p, walk)) BY <1>1, <1>3 DEF AuditsAt
<1>5. ASSUME NEW n \in 0..(N - 1)
      PROVE  turn[n + 1] = IF turn[n].settled THEN turn[n] ELSE AuditTurn(p, walk, turn[n].labels)
  <2>1. n + 1 \in 0..N /\ n + 1 # 0 /\ (n + 1) - 1 = n BY <1>1
  <2>2. turn[n + 1] = AuditsAt(turn, p, walk, n + 1) BY <1>3, <2>1
  <2> QED BY <2>1, <2>2 DEF AuditsAt
<1>6. ASSUME NEW l \in Labels(T)
      PROVE  /\ IsFiniteSet(Range(l)) /\ Count(l) \in Nat /\ Count(l) <= N
             /\ \A m : Range(m) \subseteq Range(l) /\ Range(m) # Range(l) => Count(m) < Count(l)
  <2>1. Range(l) \in SUBSET T BY <1>1, LabelsRange
  <2>2. IsFiniteSet(Range(l)) /\ Count(l) \in Nat /\ Count(l) <= N
        BY <1>1, <2>1, FS_Subset, FS_CardinalityType
  <2>3. ASSUME NEW m, Range(m) \subseteq Range(l), Range(m) # Range(l) PROVE Count(m) < Count(l)
    <3>1. /\ IsFiniteSet(Range(m)) /\ Cardinality(Range(m)) <= Cardinality(Range(l))
          /\ Cardinality(Range(m)) # Cardinality(Range(l))
          BY <2>2, <2>3, FS_Subset
    <3>2. Cardinality(Range(m)) \in Nat BY <3>1, FS_CardinalityType
    <3> QED BY <2>2, <3>1, <3>2
  <2> QED BY <2>2, <2>3
<1> DEFINE Good(r) == /\ r.settled /\ ~r.conflict => Rests(p, walk, r)
                      /\ \A c, d : Closed(p, walk, c, d) => Allows(p, r, c, d)
                      /\ ~r.settled => r.labels \in Labels(T) /\ Respects(p, walk, r.labels)
           Fine(n) == Good(turn[n]) /\ (turn[n].settled \/ Count(turn[n].labels) + n < N)
           P == {n \in Nat : n <= N => Fine(n)}
<1> HIDE DEF Count
<1>7. ASSUME NEW l \in Labels(T), Respects(p, walk, l), NEW r, r = AuditTurn(p, walk, l),
             \A c, d : Closed(p, walk, c, d) => Follows(T, l, c)
      PROVE  Good(r) /\ (r.settled \/ Count(r.labels) < Count(l))
  <2>1. TurnIsRight(p, walk, l, r) BY <1>7, TurnFacts DEF T
  <2>2. ~r.settled => Shrinks(p, walk, l, r) BY <2>1 DEF TurnIsRight
  <2>3. Good(r) BY <1>7, <2>1, <2>2 DEF TurnIsRight, Shrinks, T
  <2>4. r.settled \/ Count(r.labels) < Count(l) BY <1>6, <2>2 DEF Shrinks
  <2> QED BY <2>3, <2>4
<1> HIDE DEF Good
<1>8. 0 \in P
  <2> DEFINE l == AuditLabels(p, walk)
  <2>1. /\ l \in Labels(T) /\ Respects(p, walk, l)
        /\ \A c : Respects(p, walk, c) => Follows(T, l, c)
        BY AuditLabelsFacts DEF T
  <2> HIDE DEF l
  <2>2. \A c, d : Closed(p, walk, c, d) => Follows(T, l, c) BY <2>1 DEF Closed
  <2>3. turn[0] = AuditTurn(p, walk, l) BY <1>4 DEF l
  <2>4. Good(turn[0]) /\ (turn[0].settled \/ Count(turn[0].labels) < Count(l))
        BY <1>7, <2>1, <2>2, <2>3
  <2>5. Good(turn[0]) => (turn[0].settled \/ Count(turn[0].labels) \in Nat) BY <1>6 DEF Good
  <2>6. Count(l) \in Nat /\ Count(l) <= N BY <1>6, <2>1
  <2> QED BY <1>1, <2>4, <2>5, <2>6
<1>9. ASSUME NEW n \in P PROVE n + 1 \in P
  <2> SUFFICES ASSUME n + 1 <= N PROVE Fine(n + 1) OBVIOUS
  <2>1. n \in 0..(N - 1) /\ n \in Nat /\ n <= N BY <1>1
  <2>2. Fine(n) BY <1>9, <2>1
  <2>3. CASE turn[n].settled
    <3>1. turn[n + 1] = turn[n] BY <1>5, <2>1, <2>3
    <3> QED BY <2>2, <2>3, <3>1
  <2>4. CASE ~turn[n].settled
    <3> DEFINE l == turn[n].labels
    <3>1. turn[n + 1] = AuditTurn(p, walk, l) BY <1>5, <2>1, <2>4
    <3>2. l \in Labels(T) /\ Respects(p, walk, l) BY <2>2, <2>4 DEF Good
    <3>3. \A c, d : Closed(p, walk, c, d) => Follows(T, l, c) BY <2>2 DEF Good, Allows, T
    <3>4. Count(l) + n < N BY <2>2, <2>4
    <3> HIDE DEF l
    <3>5. /\ Good(turn[n + 1])
          /\ turn[n + 1].settled \/ Count(turn[n + 1].labels) < Count(l)
          BY <1>7, <3>1, <3>2, <3>3
    <3>6. Good(turn[n + 1]) => (turn[n + 1].settled \/ Count(turn[n + 1].labels) \in Nat)
          BY <1>6 DEF Good
    <3>7. Count(l) \in Nat BY <1>6, <3>2
    <3> QED BY <1>1, <2>1, <3>4, <3>5, <3>6, <3>7
  <2> QED BY <2>3, <2>4
<1>10. P = Nat BY <1>8, <1>9, Induction
<1>11. Fine(N) BY <1>1, <1>10
<1>12. turn[N].settled
  <2> SUFFICES ASSUME ~turn[N].settled PROVE FALSE OBVIOUS
  <2>1. turn[N].labels \in Labels(T) BY <1>11 DEF Good
  <2>2. Count(turn[N].labels) \in Nat BY <1>6, <2>1
  <2> QED BY <1>1, <1>11, <2>2
<1>13. Good(turn[N]) BY <1>11
<1>14. ~turn[N].conflict => Rests(p, walk, turn[N]) BY <1>12, <1>13 DEF Good
<1>15. \A c, d : Closed(p, walk, c, d) =>
          /\ ~turn[N].conflict
          /\ Follows(T, turn[N].labels, c)
          /\ \A t \in T : d[t] \subseteq turn[N].domains[turn[N].labels[t]]
       BY <1>12, <1>13 DEF Good, Allows, T
<1> QED BY <1>2, <1>14, <1>15 DEF AuditIsRight, T

-----------------------------------------------------------------------------
(* The decisions, and that one of their branches is that of a model.       *)
Holds(a, value) ==
    /\ a.kind = "Equal" => value[a.left] = value[a.right]
    /\ a.kind = "Distinct" => value[a.left] # value[a.right]
    /\ a.kind = "Value" => value[a.left] = a.right

LEMMA LargestOverlap ==
    ASSUME NEW S, S # {}, NEW n \in Nat, NEW f, \A q \in S : f[q] \in 0..n
    PROVE  \E q \in S : \A r \in S : f[r] <= f[q]
<1> DEFINE gaps == {k \in Nat : \E q \in S : n - f[q] = k}
<1>1. \A q \in S : n - f[q] \in gaps /\ f[q] \in Nat OBVIOUS
<1>2. gaps \in SUBSET Nat /\ gaps # {} BY <1>1
<1>3. PICK k \in gaps : \A j \in gaps : ~(j < k) BY <1>2, LeastNumber
<1>4. PICK q \in S : n - f[q] = k OBVIOUS
<1>5. \A r \in S : f[r] <= f[q] BY <1>1, <1>3, <1>4
<1> QED BY <1>5

DecisionForms(reps, domains, decision) ==
    \/ decision = Complete
    \/ \E s, t \in reps : s < t /\ decision = Quotient(s, t)
    \/ \E t \in reps : decision = ValueSplit(t, domains[t]) /\ Cardinality(domains[t]) > 1

LEMMA DecisionFacts ==
    ASSUME NEW values, NEW R \in SUBSET Nat, NEW V, IsFiniteSet(V), NEW D \in [R -> SUBSET V],
           NEW apart
    PROVE  /\ DecisionForms(R, D, Decision(values, R, D, apart))
           /\ Decision(values, R, D, apart) = Complete => \A t \in R : ~(Cardinality(D[t]) > 1)
<1> DEFINE pairs == {p \in R \X R : p[1] < p[2] /\ p \notin apart /\ D[p[1]] \cap D[p[2]] # {}}
           Overlap(p) == Cardinality(D[p[1]] \cap D[p[2]])
           widest == {p \in pairs : \A q \in pairs : Overlap(q) <= Overlap(p)}
           open == {t \in R : Cardinality(D[t]) > 1}
           smallest == {t \in open : \A u \in open : Cardinality(D[t]) <= Cardinality(D[u])}
           decision == Decision(values, R, D, apart)
<1>1. decision = IF Cardinality(R) > values /\ pairs # {}
                 THEN Quotient(FirstPair(widest)[1], FirstPair(widest)[2])
                 ELSE IF open = {} THEN Complete
                 ELSE ValueSplit(Min(smallest), D[Min(smallest)])
      BY DEF Decision
<1> HIDE DEF decision
<1>2. \A x \in R : IsFiniteSet(D[x]) /\ Cardinality(D[x]) \in Nat BY FS_Subset, FS_CardinalityType
<1>3. CASE Cardinality(R) > values /\ pairs # {}
  <2>1. \A p \in pairs : Overlap(p) \in 0..Cardinality(V)
    <3> SUFFICES ASSUME NEW p \in pairs PROVE Overlap(p) \in 0..Cardinality(V) OBVIOUS
    <3>1. D[p[1]] \cap D[p[2]] \in SUBSET V OBVIOUS
    <3>2. Overlap(p) \in Nat /\ Overlap(p) <= Cardinality(V) /\ Cardinality(V) \in Nat
          BY <3>1, FS_Subset, FS_CardinalityType
    <3> HIDE DEF Overlap
    <3> QED BY <3>2
  <2>2. Cardinality(V) \in Nat BY FS_CardinalityType
  <2> DEFINE f == [p \in pairs |-> Overlap(p)]
  <2>3. \A p \in pairs : f[p] = Overlap(p) OBVIOUS
  <2> HIDE DEF f, Overlap
  <2>4. \A p \in pairs : f[p] \in 0..Cardinality(V) BY <2>1, <2>3
  <2>5. \E p \in pairs : \A q \in pairs : f[q] <= f[p]
    <3> HIDE DEF pairs
    <3> QED BY <1>3, <2>2, <2>4, LargestOverlap
  <2>6. widest # {} BY <2>3, <2>5
  <2>7. FirstPair(widest) \in widest
    <3>1. widest \in SUBSET (Nat \X Nat) OBVIOUS
    <3> HIDE DEF widest
    <3> QED BY <2>6, <3>1, FirstPairIsOne
  <2> DEFINE p == FirstPair(widest)
  <2>8. p[1] \in R /\ p[2] \in R /\ p[1] < p[2] BY <2>7
  <2>9. decision = Quotient(p[1], p[2]) BY <1>1, <1>3
  <2> HIDE DEF p
  <2>10. decision # Complete BY <2>9 DEF Quotient, Complete
  <2> QED BY <2>8, <2>9, <2>10 DEF DecisionForms, decision
<1>4. CASE ~(Cardinality(R) > values /\ pairs # {}) /\ open = {}
  <2>1. decision = Complete BY <1>1, <1>4
  <2> QED BY <1>4, <2>1 DEF DecisionForms, decision
<1>5. CASE ~(Cardinality(R) > values /\ pairs # {}) /\ open # {}
  <2> DEFINE sizes == {k \in Nat : \E t \in open : Cardinality(D[t]) = k}
             t == Min(smallest)
  <2>1. sizes \in SUBSET Nat /\ sizes # {} BY <1>2, <1>5
  <2>2. PICK k \in sizes : \A j \in sizes : ~(j < k) BY <2>1, LeastNumber
  <2>3. PICK u \in open : Cardinality(D[u]) = k OBVIOUS
  <2>4. u \in smallest
    <3>1. \A w \in open : Cardinality(D[w]) \in sizes BY <1>2
    <3>2. \A w \in open : Cardinality(D[u]) <= Cardinality(D[w]) BY <1>2, <2>2, <2>3, <3>1
    <3> QED BY <3>2
  <2>5. t \in smallest
    <3>1. smallest \in SUBSET Nat OBVIOUS
    <3> HIDE DEF smallest
    <3> QED BY <2>4, <3>1, MinIsLeast
  <2>6. decision = ValueSplit(t, D[t]) BY <1>1, <1>5
  <2>7. t \in R /\ Cardinality(D[t]) > 1 BY <2>5
  <2> HIDE DEF t
  <2>8. decision # Complete
    <3>1. Len(ValueSplit(t, D[t])) = Cardinality(D[t]) BY <1>2, <2>7 DEF ValueSplit
    <3>2. Cardinality(D[t]) # 0 BY <1>2, <2>7
    <3>3. Len(Complete) = 0 BY DEF Complete
    <3> QED BY <2>6, <3>1, <3>2, <3>3
  <2> QED BY <2>6, <2>7, <2>8 DEF DecisionForms, decision
<1> QED BY <1>3, <1>4, <1>5

LEMMA ValueSplitFacts ==
    ASSUME NEW t, NEW S \in SUBSET Nat, IsFiniteSet(S)
    PROVE  LET d == ValueSplit(t, S)
           IN  /\ Cardinality(S) \in Nat
               /\ d = [i \in 1..Cardinality(S) |-> d[i]]
               /\ \A i \in 1..Cardinality(S) : \E v \in S : d[i] = ValueIs(t, v)
               /\ \A v \in S : \E i \in 1..Cardinality(S) : d[i] = ValueIs(t, v)
<1> DEFINE d == ValueSplit(t, S)
           n == Cardinality(S)
           The(i) == CHOOSE value \in S : Place(S, i, value)
<1>1. d = [i \in 1..n |-> ValueIs(t, The(i))] BY DEF ValueSplit, Place
<1>2. /\ n \in Nat
      /\ \A i \in 1..n : The(i) \in S
      /\ \A v \in S : \E i \in 1..n : v = The(i)
      BY ValuesHavePlaces
<1> HIDE DEF d, The
<1>3. \A i \in 1..n : d[i] = ValueIs(t, The(i)) BY <1>1
<1>4. d = [i \in 1..n |-> d[i]] BY <1>1
<1> QED BY <1>2, <1>3, <1>4 DEF d

BranchesAreRight(p, audit, decision) ==
    /\ decision \in Seq(AssumptionOf(p))
    /\ \A c : /\ Follows(Terms(p), audit.labels, c)
              /\ \A t \in Terms(p) : c[t] \in audit.domains[audit.labels[t]]
              /\ decision # Complete
              => \E i \in DOMAIN decision : Holds(decision[i], c)

LEMMA BranchFacts ==
    ASSUME NEW p, WellFormed(p), NEW walk, NEW audit, Rests(p, walk, audit)
    PROVE  BranchesAreRight(p, audit, AuditDecision(p, audit))
<1> DEFINE T == Terms(p)
           R == Range(audit.labels)
           D == audit.domains
           V == Carrier(p)
           decision == AuditDecision(p, audit)
<1>1. T \in SUBSET Nat /\ V \in SUBSET Nat /\ IsFiniteSet(V) BY WellFormedFinite
<1>2. audit.labels \in Labels(T) /\ D \in [R -> SUBSET V] BY DEF Rests
<1>3. R \in SUBSET T /\ \A x \in R : audit.labels[x] = x BY <1>1, <1>2, LabelsRange
<1>4. DecisionForms(R, D, decision)
  <2>1. R \in SUBSET Nat BY <1>1, <1>3
  <2> HIDE DEF R, D, V
  <2> QED BY <1>1, <1>2, <2>1, DecisionFacts DEF AuditDecision, R, D
<1> HIDE DEF decision, R, D, V, T
<1>5. CASE decision = Complete
  <2>1. decision \in Seq(AssumptionOf(p)) BY <1>5 DEF Complete
  <2> QED BY <1>5, <2>1 DEF BranchesAreRight, decision
<1>6. ASSUME NEW s \in R, NEW t \in R, decision = Quotient(s, t)
      PROVE  BranchesAreRight(p, audit, decision)
  <2>1. s \in T /\ t \in T /\ s \in Nat /\ t \in Nat BY <1>1, <1>3
  <2>2. decision = <<Equal(s, t), Distinct(s, t)>> BY <1>6 DEF Quotient
  <2>3. Equal(s, t) \in AssumptionOf(p) /\ Distinct(s, t) \in AssumptionOf(p)
        BY <2>1 DEF Equal, Distinct, AssumptionOf, Assumption, T
  <2>4. decision \in Seq(AssumptionOf(p)) BY <2>2, <2>3
  <2>5. DOMAIN decision = 1..2 /\ decision[1] = Equal(s, t) /\ decision[2] = Distinct(s, t) BY <2>2
  <2>6. ASSUME NEW c PROVE \E i \in DOMAIN decision : Holds(decision[i], c)
    <3>1. CASE c[s] = c[t]
      <4>1. Holds(decision[1], c) BY <2>5, <3>1 DEF Equal, Holds
      <4> QED BY <2>5, <4>1
    <3>2. CASE c[s] # c[t]
      <4>1. Holds(decision[2], c) BY <2>5, <3>2 DEF Distinct, Holds
      <4> QED BY <2>5, <4>1
    <3> QED BY <3>1, <3>2
  <2> QED BY <2>4, <2>6 DEF BranchesAreRight
<1>7. ASSUME NEW t \in R, decision = ValueSplit(t, D[t])
      PROVE  BranchesAreRight(p, audit, decision)
  <2> DEFINE S == D[t]
             n == Cardinality(S)
  <2>1. t \in T /\ t \in Nat /\ audit.labels[t] = t BY <1>1, <1>3
  <2>2. S \in SUBSET Nat /\ IsFiniteSet(S) BY <1>1, <1>2, FS_Subset
  <2> HIDE DEF S
  <2>3. decision = ValueSplit(t, S) BY <1>7 DEF S
  <2>4. /\ n \in Nat
        /\ decision = [i \in 1..n |-> decision[i]]
        /\ \A i \in 1..n : \E v \in S : decision[i] = ValueIs(t, v)
        /\ \A v \in S : \E i \in 1..n : decision[i] = ValueIs(t, v)
        BY <2>2, <2>3, ValueSplitFacts
  <2>5. \A v \in S : ValueIs(t, v) \in AssumptionOf(p)
        BY <2>1, <2>2 DEF ValueIs, AssumptionOf, Assumption, T
  <2>6. \A i \in 1..n : decision[i] \in AssumptionOf(p) BY <2>4, <2>5
  <2>7. decision \in Seq(AssumptionOf(p)) /\ DOMAIN decision = 1..n
    <3> HIDE DEF n
    <3>1. decision \in [1..n -> AssumptionOf(p)] BY <2>4, <2>6
    <3> QED BY <2>4, <3>1
  <2>8. ASSUME NEW c, \A u \in T : c[u] \in D[audit.labels[u]]
        PROVE  \E i \in DOMAIN decision : Holds(decision[i], c)
    <3>1. c[t] \in S BY <2>1, <2>8 DEF S
    <3>2. PICK i \in 1..n : decision[i] = ValueIs(t, c[t]) BY <2>4, <3>1
    <3>3. Holds(decision[i], c) BY <3>2 DEF ValueIs, Holds
    <3> QED BY <2>7, <3>2, <3>3
  <2> QED BY <2>7, <2>8 DEF BranchesAreRight, D, T
<1> QED BY <1>4, <1>5, <1>6, <1>7 DEF DecisionForms, decision

(* A model that satisfies a path is closed under it.                       *)
LEMMA ModelIsClosed ==
    ASSUME NEW p, WellFormed(p), NEW walk \in Seq(AssumptionOf(p)),
           NEW value, IsModel(p, value), \A a \in Range(walk) : Holds(a, value)
    PROVE  Closed(p, walk, value, [t \in Terms(p) |-> {value[t]}])
<1> DEFINE T == Terms(p)
           d == [t \in T |-> {value[t]}]
<1>1. T \in SUBSET Nat BY WellFormedFinite
<1>2. \A t \in T : d[t] = {value[t]} OBVIOUS
<1> HIDE DEF d, T
<1>3. Respects(p, walk, value) BY DEF Respects, IsModel, Assumed, Holds
<1>4. \A t, u \in T : value[t] = value[u] => d[t] = d[u] BY <1>2
<1>5. \A t \in T : d[t] # {} /\ d[t] \subseteq DomainOf(p, t) BY <1>2 DEF IsModel, T
<1>6. \A a \in Assumed(walk, "Value") : d[a.left] \subseteq {a.right}
  <2>1. \A a \in Assumed(walk, "Value") : a.left \in T /\ value[a.left] = a.right
        BY DEF Assumed, Range, AssumptionOf, Holds, T
  <2> QED BY <1>2, <2>1
<1>7. \A q \in RawDisequalities(p, walk) : value[q[1]] # value[q[2]]
  <2>1. \A s, t : value[s] # value[t] => value[OrderedPair(s, t)[1]] # value[OrderedPair(s, t)[2]]
        BY DEF OrderedPair
  <2>2. \A a \in Assumed(walk, "Distinct") : value[a.left] # value[a.right] BY DEF Assumed, Holds
  <2> QED BY <2>1, <2>2 DEF RawDisequalities, IsModel
<1>8. Uncut(RawDisequalities(p, walk), d)
  <2>1. RawDisequalities(p, walk) \in SUBSET (T \X T) BY RawFacts DEF T
  <2> QED BY <1>2, <1>7, <2>1 DEF Uncut, IsCut
<1>9. \A i, j \in DOMAIN p.apps :
         Congruent(p, value, i, j) => value[p.apps[i].result] = value[p.apps[j].result]
      BY DEF IsModel, Congruent
<1>10. \A t, u \in T : SameSingleton(d[t], d[u]) => value[t] = value[u] BY <1>2 DEF SameSingleton
<1>11. Closed(p, walk, value, d)
       BY <1>3, <1>4, <1>5, <1>6, <1>7, <1>8, <1>9, <1>10 DEF Closed, T
<1> QED BY <1>11 DEF d, T

-----------------------------------------------------------------------------
(* The nodes of a refutation, depth by depth.                              *)
VisitsAt(f, node, n) ==
    IF n = 0 THEN {node} ELSE f[n - 1] \cup UNION {Below(above) : above \in f[n - 1]}
VisitsUpTo(node, n) == CHOOSE f : f = [i \in 0..n |-> VisitsAt(f, node, i)]

LEMMA VisitsExist ==
    ASSUME NEW node, NEW n \in Nat
    PROVE  VisitsUpTo(node, n) = [i \in 0..n |-> VisitsAt(VisitsUpTo(node, n), node, i)]
<1> DEFINE P == {k \in Nat : \E f : f = [i \in 0..k |-> VisitsAt(f, node, i)]}
<1>1. 0 \in P
  <2> DEFINE f == [i \in 0..0 |-> {node}]
  <2>1. f = [i \in 0..0 |-> VisitsAt(f, node, i)] BY DEF VisitsAt
  <2> QED BY <2>1
<1>2. ASSUME NEW k \in P PROVE k + 1 \in P
  <2>1. PICK f : f = [i \in 0..k |-> VisitsAt(f, node, i)] OBVIOUS
  <2> DEFINE g == [i \in 0..(k + 1) |-> IF i = k + 1 THEN VisitsAt(f, node, i) ELSE f[i]]
  <2>2. \A i \in 0..(k + 1) : g[i] = VisitsAt(g, node, i)
    <3> SUFFICES ASSUME NEW i \in 0..(k + 1) PROVE g[i] = VisitsAt(g, node, i) OBVIOUS
    <3>1. CASE i = 0 BY <3>1, <2>1 DEF VisitsAt
    <3>2. CASE i > 0
      <4>1. i - 1 \in 0..k /\ g[i - 1] = f[i - 1] BY <3>2
      <4>2. g[i] = VisitsAt(f, node, i) BY <2>1
      <4> QED BY <3>2, <4>1, <4>2 DEF VisitsAt
    <3> QED BY <3>1, <3>2
  <2>3. g = [i \in 0..(k + 1) |-> VisitsAt(g, node, i)] BY <2>2
  <2> HIDE DEF g
  <2>4. \E h : h = [i \in 0..(k + 1) |-> VisitsAt(h, node, i)] BY <2>3
  <2> QED BY <2>4
<1>3. P = Nat BY <1>1, <1>2, Induction
<1>4. \E f : f = [i \in 0..n |-> VisitsAt(f, node, i)] BY <1>3
<1> QED BY <1>4 DEF VisitsUpTo

LEMMA VisitedFacts ==
    ASSUME NEW path_, NEW proof_, NEW n \in Nat
    PROVE  LET node == [path |-> path_, proof |-> proof_]
               f == VisitsUpTo(node, n)
           IN  /\ Visited(path_, proof_, n) = f[n]
               /\ f[0] = {node}
               /\ \A k \in 0..(n - 1) : f[k + 1] = f[k] \cup UNION {Below(above) : above \in f[k]}
               /\ \A k \in 0..n : f[k] \subseteq f[n]
<1> DEFINE node == [path |-> path_, proof |-> proof_]
           f == VisitsUpTo(node, n)
<1>1. Visited(path_, proof_, n) = f[n] BY DEF Visited, VisitsAt, VisitsUpTo
<1>2. f = [i \in 0..n |-> VisitsAt(f, node, i)] BY VisitsExist
<1> HIDE DEF f, node
<1>3. f[0] = {node} BY <1>2 DEF VisitsAt
<1>4. ASSUME NEW k \in 0..(n - 1)
      PROVE  f[k + 1] = f[k] \cup UNION {Below(above) : above \in f[k]}
  <2>1. k + 1 \in 0..n /\ k + 1 # 0 /\ (k + 1) - 1 = k OBVIOUS
  <2>2. f[k + 1] = VisitsAt(f, node, k + 1) BY <1>2, <2>1
  <2> QED BY <2>1, <2>2 DEF VisitsAt
<1> DEFINE P == {j \in Nat : j <= n => f[n - j] \subseteq f[n]}
<1>5. 0 \in P OBVIOUS
<1>6. ASSUME NEW j \in P PROVE j + 1 \in P
  <2> SUFFICES ASSUME j + 1 <= n PROVE f[n - (j + 1)] \subseteq f[n] OBVIOUS
  <2>1. n - (j + 1) \in 0..(n - 1) /\ (n - (j + 1)) + 1 = n - j OBVIOUS
  <2>2. f[n - j] = f[n - (j + 1)] \cup (UNION {Below(above) : above \in f[n - (j + 1)]})
        BY <1>4, <2>1
  <2> QED BY <2>2
<1>7. P = Nat BY <1>5, <1>6, Induction
<1>8. ASSUME NEW k \in 0..n PROVE f[k] \subseteq f[n]
  <2>1. n - k \in Nat /\ n - k <= n /\ n - (n - k) = k OBVIOUS
  <2> QED BY <1>7, <2>1
<1> QED BY <1>1, <1>3, <1>4, <1>8 DEF f, node

LEMMA RangeAppend ==
    ASSUME NEW S, NEW s \in Seq(S), NEW x \in S
    PROVE  Range(Append(s, x)) = Range(s) \cup {x}
<1>1. Len(Append(s, x)) = Len(s) + 1 /\ Len(s) \in Nat OBVIOUS
<1>2. DOMAIN s = 1..Len(s) /\ DOMAIN Append(s, x) = 1..(Len(s) + 1) OBVIOUS
<1>3. \A i \in 1..Len(s) : Append(s, x)[i] = s[i] OBVIOUS
<1>4. Append(s, x)[Len(s) + 1] = x OBVIOUS
<1>5. \A i \in 1..(Len(s) + 1) : i \in 1..Len(s) \/ i = Len(s) + 1 BY <1>1
<1>6. Len(s) + 1 \in 1..(Len(s) + 1) /\ \A i \in 1..Len(s) : i \in 1..(Len(s) + 1) BY <1>1
<1> QED BY <1>2, <1>3, <1>4, <1>5, <1>6 DEF Range

(* Whatever tree the checker accepts, there is no model: a model follows   *)
(* one branch of every split, and no leaf holds for it.                    *)
THEOREM CheckerIsSound ==
    ASSUME NEW p, WellFormed(p), NEW maxNodes, NEW maxDepth \in Nat, NEW tree,
           Accepted(p, maxNodes, maxDepth, tree)
    PROVE  ~HasModel(p)
<1> SUFFICES ASSUME NEW value \in [Terms(p) -> Carrier(p)], IsModel(p, value) PROVE FALSE
    BY DEF HasModel
<1> DEFINE root == [path |-> <<>>, proof |-> tree]
           n == maxDepth + 1
           f == VisitsUpTo(root, n)
<1>1. /\ \A node \in f[n] : Len(node.path) <= maxDepth /\ NodeHolds(p, node)
      /\ f[0] = {root}
      /\ \A k \in 0..(n - 1) : f[k + 1] = f[k] \cup UNION {Below(above) : above \in f[k]}
      /\ \A k \in 0..n : f[k] \subseteq f[n]
  <2>1. n \in Nat OBVIOUS
  <2> HIDE DEF n
  <2>2. /\ Visited(<<>>, tree, n) = f[n]
        /\ f[0] = {root}
        /\ \A k \in 0..(n - 1) : f[k + 1] = f[k] \cup UNION {Below(above) : above \in f[k]}
        /\ \A k \in 0..n : f[k] \subseteq f[n]
        BY <2>1, VisitedFacts
  <2>3. \A node \in Visited(<<>>, tree, n) : Len(node.path) <= maxDepth /\ NodeHolds(p, node)
        BY DEF Accepted, n
  <2> QED BY <2>2, <2>3
<1> HIDE DEF f
<1> DEFINE Follower(node, k) == /\ node.path \in Seq(AssumptionOf(p)) /\ Len(node.path) = k
                                /\ \A a \in Range(node.path) : Holds(a, value)
           P == {k \in Nat : k <= n => \E node \in f[k] : Follower(node, k)}
<1>2. 0 \in P
  <2>1. root \in f[0] BY <1>1
  <2>2. Follower(root, 0) BY DEF Range
  <2> HIDE DEF Follower, root
  <2> QED BY <2>1, <2>2
<1>3. ASSUME NEW k \in P PROVE k + 1 \in P
  <2> SUFFICES ASSUME k + 1 <= n PROVE \E node \in f[k + 1] : Follower(node, k + 1) OBVIOUS
  <2>1. k \in 0..(n - 1) /\ k \in 0..n /\ k \in Nat OBVIOUS
  <2>2. PICK node \in f[k] : Follower(node, k) BY <1>3, <2>1
  <2> DEFINE walk == node.path
             audit == Audit(p, walk)
             decision == AuditDecision(p, audit)
             branches == node.proof.branches
             d == [t \in Terms(p) |-> {value[t]}]
  <2>3. NodeHolds(p, node) BY <1>1, <2>1, <2>2
  <2>4. walk \in Seq(AssumptionOf(p)) BY <2>2
  <2>5. Closed(p, walk, value, d) BY <2>2, <2>4, ModelIsClosed
  <2>6. AuditIsRight(p, walk, audit) BY <2>4, AuditFacts
  <2> HIDE DEF audit, d
  <2>7. /\ ~audit.conflict /\ Rests(p, walk, audit)
        /\ Follows(Terms(p), audit.labels, value)
        /\ \A t \in Terms(p) : d[t] \subseteq audit.domains[audit.labels[t]]
        BY <2>5, <2>6 DEF AuditIsRight
  <2>8. BranchesAreRight(p, audit, decision) BY <2>7, BranchFacts
  <2>9. /\ decision # Complete
        /\ [i \in DOMAIN branches |-> branches[i].assume] = decision
        BY <2>3, <2>7 DEF NodeHolds, Covers, audit
  <2> HIDE DEF decision
  <2>10. \A t \in Terms(p) : value[t] \in audit.domains[audit.labels[t]] BY <2>7 DEF d
  <2>11. PICK i \in DOMAIN decision : Holds(decision[i], value)
         BY <2>7, <2>8, <2>9, <2>10 DEF BranchesAreRight
  <2>12. i \in DOMAIN branches /\ branches[i].assume = decision[i] BY <2>9
  <2> DEFINE below == [path |-> Append(walk, branches[i].assume), proof |-> branches[i].proof]
  <2>13. below \in Below(node)
    <3>1. branches[i] \in Range(branches) BY <2>12 DEF Range
    <3> QED BY <3>1 DEF Below
  <2>14. below \in f[k + 1]
    <3>1. f[k + 1] = f[k] \cup UNION {Below(above) : above \in f[k]} BY <1>1, <2>1
    <3>2. node \in f[k] BY <2>2
    <3> HIDE DEF below, n
    <3> QED BY <2>13, <3>1, <3>2
  <2>15. Follower(below, k + 1)
    <3>1. decision[i] \in AssumptionOf(p) BY <2>8 DEF BranchesAreRight
    <3>2. below.path = Append(walk, decision[i]) BY <2>12
    <3> HIDE DEF below
    <3>3. below.path \in Seq(AssumptionOf(p)) /\ Len(below.path) = k + 1
          BY <2>2, <2>4, <3>1, <3>2
    <3>4. Range(below.path) = Range(walk) \cup {decision[i]} BY <2>4, <3>1, <3>2, RangeAppend
    <3> QED BY <2>2, <2>11, <3>3, <3>4
  <2> HIDE DEF below, Follower
  <2> QED BY <2>14, <2>15
<1>4. P = Nat BY <1>2, <1>3, Induction
<1>5. n \in Nat /\ n <= n OBVIOUS
<1>6. PICK node \in f[n] : Follower(node, n) BY <1>4, <1>5
<1> QED BY <1>1, <1>6

-----------------------------------------------------------------------------
(* The state of the search, and that every entry of its trail undoes what  *)
(* was done with it.                                                       *)
TrailEntry(p) ==
    [kind : {"Union", "Domain"}, child : Terms(p), root : Terms(p), size : Nat,
     domain : SUBSET Carrier(p)]

StateOf(p) ==
    [parent : [Terms(p) -> Terms(p)], size : [Terms(p) -> Nat],
     domain : [Terms(p) -> SUBSET Carrier(p)],
     disequalities : Seq(Terms(p) \X Terms(p)), trail : Seq(TrailEntry(p))]

LEMMA StateFields ==
    ASSUME NEW p, NEW s \in StateOf(p)
    PROVE  /\ s = [parent |-> s.parent, size |-> s.size, domain |-> s.domain,
                   disequalities |-> s.disequalities, trail |-> s.trail]
           /\ s.parent \in [Terms(p) -> Terms(p)] /\ s.size \in [Terms(p) -> Nat]
           /\ s.domain \in [Terms(p) -> SUBSET Carrier(p)]
           /\ s.disequalities \in Seq(Terms(p) \X Terms(p)) /\ s.trail \in Seq(TrailEntry(p))
BY DEF StateOf

LEMMA SameState ==
    ASSUME NEW p, NEW s \in StateOf(p), NEW t \in StateOf(p),
           s.parent = t.parent, s.size = t.size, s.domain = t.domain,
           s.disequalities = t.disequalities, s.trail = t.trail
    PROVE  s = t
<1>1. s = [parent |-> s.parent, size |-> s.size, domain |-> s.domain,
           disequalities |-> s.disequalities, trail |-> s.trail]
      BY StateFields
<1>2. t = [parent |-> t.parent, size |-> t.size, domain |-> t.domain,
           disequalities |-> t.disequalities, trail |-> t.trail]
      BY StateFields
<1> QED BY <1>1, <1>2

LEMMA LastEntry ==
    ASSUME NEW S, NEW s \in Seq(S), NEW x \in S
    PROVE  /\ Append(s, x) \in Seq(S) /\ Len(Append(s, x)) = Len(s) + 1
           /\ Last(Append(s, x)) = x /\ Front(Append(s, x)) = s
<1>1. Append(s, x) \in Seq(S) /\ Len(Append(s, x)) = Len(s) + 1 /\ Len(s) \in Nat OBVIOUS
<1>2. Append(s, x)[Len(s) + 1] = x OBVIOUS
<1>3. SubSeq(Append(s, x), 1, Len(s)) = s OBVIOUS
<1>4. (Len(s) + 1) - 1 = Len(s) BY <1>1
<1> QED BY <1>1, <1>2, <1>3, <1>4 DEF Last, Front

LEMMA FrontEntry ==
    ASSUME NEW S, NEW s \in Seq(S), s # <<>>
    PROVE  /\ Last(s) \in S /\ Front(s) \in Seq(S)
           /\ Len(s) \in Nat \ {0} /\ Len(Front(s)) = Len(s) - 1
           /\ \A i \in 1..(Len(s) - 1) : Front(s)[i] = s[i]
<1>1. Len(s) \in Nat \ {0} OBVIOUS
<1>2. Front(s) = SubSeq(s, 1, Len(s) - 1) BY DEF Front
<1>3. Last(s) = s[Len(s)] BY DEF Last
<1>4. Last(s) \in S BY <1>1, <1>3
<1> DEFINE n == Len(s) - 1
<1>5. n \in Nat /\ n <= Len(s) BY <1>1
<1>6. \A i \in 1..n : s[i] \in S BY <1>1, <1>5
<1> HIDE DEF n
<1>7. /\ SubSeq(s, 1, n) \in Seq(S) /\ Len(SubSeq(s, 1, n)) = n
      /\ \A i \in 1..n : SubSeq(s, 1, n)[i] = s[i]
  <2>1. /\ SubSeq(s, 1, n) \in Seq(S)
        /\ Len(SubSeq(s, 1, n)) = IF 1 <= n THEN n - 1 + 1 ELSE 0
        /\ \A i \in 1..(n - 1 + 1) : SubSeq(s, 1, n)[i] = s[1 + i - 1]
        BY <1>5, <1>6, SubSeqProperties
  <2>2. \A i \in 1..n : 1 + i - 1 = i /\ i \in 1..(n - 1 + 1) BY <1>5
  <2> QED BY <1>5, <2>1, <2>2
<1> QED BY <1>1, <1>2, <1>4, <1>7 DEF n

(* A change with its entry, and the change that the entry undoes.          *)
Pushed(s, s2, entry, p) ==
    /\ s2 \in StateOf(p) /\ entry \in TrailEntry(p)
    /\ s2.trail = Append(s.trail, entry)
    /\ s2.disequalities = s.disequalities
    /\ [s2.parent EXCEPT ![entry.child] = entry.child] = s.parent
    /\ [s2.size EXCEPT ![entry.root] = entry.size] = s.size
    /\ [s2.domain EXCEPT ![entry.root] = entry.domain] = s.domain

LEMMA UndoneFields ==
    ASSUME NEW p, NEW s \in StateOf(p)
    PROVE  /\ Undone(s).parent = [s.parent EXCEPT ![Last(s.trail).child] = Last(s.trail).child]
           /\ Undone(s).size = [s.size EXCEPT ![Last(s.trail).root] = Last(s.trail).size]
           /\ Undone(s).domain = [s.domain EXCEPT ![Last(s.trail).root] = Last(s.trail).domain]
           /\ Undone(s).disequalities = s.disequalities
           /\ Undone(s).trail = Front(s.trail)
           /\ s.trail # <<>> => Undone(s) \in StateOf(p)
<1> DEFINE e == Last(s.trail)
<1>1. s = [parent |-> s.parent, size |-> s.size, domain |-> s.domain,
           disequalities |-> s.disequalities, trail |-> s.trail]
      BY StateFields
<1>2. Undone(s) = [s EXCEPT !.trail = Front(s.trail),
                            !.parent[e.child] = e.child,
                            !.size[e.root] = e.size,
                            !.domain[e.root] = e.domain]
      BY DEF Undone
<1> HIDE DEF e
<1>3. Undone(s) = [parent |-> [s.parent EXCEPT ![e.child] = e.child],
                   size |-> [s.size EXCEPT ![e.root] = e.size],
                   domain |-> [s.domain EXCEPT ![e.root] = e.domain],
                   disequalities |-> s.disequalities, trail |-> Front(s.trail)]
      BY <1>1, <1>2
<1>4. ASSUME s.trail # <<>> PROVE Undone(s) \in StateOf(p)
  <2>1. /\ s.parent \in [Terms(p) -> Terms(p)] /\ s.size \in [Terms(p) -> Nat]
        /\ s.domain \in [Terms(p) -> SUBSET Carrier(p)]
        /\ s.disequalities \in Seq(Terms(p) \X Terms(p)) /\ s.trail \in Seq(TrailEntry(p))
        BY StateFields
  <2>2. e \in TrailEntry(p) /\ Front(s.trail) \in Seq(TrailEntry(p)) BY <1>4, <2>1, FrontEntry DEF e
  <2>3. e.child \in Terms(p) /\ e.size \in Nat /\ e.domain \in SUBSET Carrier(p) BY <2>2 DEF TrailEntry
  <2>4. [s.parent EXCEPT ![e.child] = e.child] \in [Terms(p) -> Terms(p)] BY <2>1, <2>3
  <2>5. [s.size EXCEPT ![e.root] = e.size] \in [Terms(p) -> Nat] BY <2>1, <2>3
  <2>6. [s.domain EXCEPT ![e.root] = e.domain] \in [Terms(p) -> SUBSET Carrier(p)] BY <2>1, <2>3
  <2> QED BY <1>3, <2>1, <2>2, <2>4, <2>5, <2>6 DEF StateOf
<1> QED BY <1>3, <1>4 DEF e

LEMMA PushedUndone ==
    ASSUME NEW p, NEW s \in StateOf(p), NEW s2, NEW entry, Pushed(s, s2, entry, p)
    PROVE  Undone(s2) = s
<1>1. s.trail \in Seq(TrailEntry(p)) BY StateFields
<1>2. s2 \in StateOf(p) /\ entry \in TrailEntry(p) /\ s2.trail = Append(s.trail, entry) BY DEF Pushed
<1>3. Last(s2.trail) = entry /\ Front(s2.trail) = s.trail /\ Len(s2.trail) = Len(s.trail) + 1
      BY <1>1, <1>2, LastEntry
<1>4. s2.trail # <<>> BY <1>1, <1>3
<1>5. /\ Undone(s2).parent = [s2.parent EXCEPT ![entry.child] = entry.child]
      /\ Undone(s2).size = [s2.size EXCEPT ![entry.root] = entry.size]
      /\ Undone(s2).domain = [s2.domain EXCEPT ![entry.root] = entry.domain]
      /\ Undone(s2).disequalities = s2.disequalities
      /\ Undone(s2).trail = s.trail
      /\ Undone(s2) \in StateOf(p)
      BY <1>2, <1>3, <1>4, UndoneFields
<1> QED BY <1>5, SameState DEF Pushed

(* The entries of a trail undone one after the other.                      *)
UndoesAt(f, s, n) == IF n = 0 THEN s ELSE Undone(f[n - 1])
UndoesUpTo(s, n) == CHOOSE f : f = [i \in 0..n |-> UndoesAt(f, s, i)]
Undoes(s, n) == UndoesUpTo(s, n)[n]

LEMMA UndoesExist ==
    ASSUME NEW s, NEW n \in Nat
    PROVE  UndoesUpTo(s, n) = [i \in 0..n |-> UndoesAt(UndoesUpTo(s, n), s, i)]
<1> DEFINE P == {k \in Nat : \E f : f = [i \in 0..k |-> UndoesAt(f, s, i)]}
<1>1. 0 \in P
  <2> DEFINE f == [i \in 0..0 |-> s]
  <2>1. f = [i \in 0..0 |-> UndoesAt(f, s, i)] BY DEF UndoesAt
  <2> QED BY <2>1
<1>2. ASSUME NEW k \in P PROVE k + 1 \in P
  <2>1. PICK f : f = [i \in 0..k |-> UndoesAt(f, s, i)] OBVIOUS
  <2> DEFINE g == [i \in 0..(k + 1) |-> IF i = k + 1 THEN UndoesAt(f, s, i) ELSE f[i]]
  <2>2. \A i \in 0..(k + 1) : g[i] = UndoesAt(g, s, i)
    <3> SUFFICES ASSUME NEW i \in 0..(k + 1) PROVE g[i] = UndoesAt(g, s, i) OBVIOUS
    <3>1. CASE i = 0 BY <3>1, <2>1 DEF UndoesAt
    <3>2. CASE i > 0
      <4>1. i - 1 \in 0..k /\ g[i - 1] = f[i - 1] BY <3>2
      <4>2. g[i] = UndoesAt(f, s, i) BY <2>1
      <4> QED BY <3>2, <4>1, <4>2 DEF UndoesAt
    <3> QED BY <3>1, <3>2
  <2>3. g = [i \in 0..(k + 1) |-> UndoesAt(g, s, i)] BY <2>2
  <2> HIDE DEF g
  <2>4. \E h : h = [i \in 0..(k + 1) |-> UndoesAt(h, s, i)] BY <2>3
  <2> QED BY <2>4
<1>3. P = Nat BY <1>1, <1>2, Induction
<1>4. \E f : f = [i \in 0..n |-> UndoesAt(f, s, i)] BY <1>3
<1> QED BY <1>4 DEF UndoesUpTo

LEMMA UndoesFacts ==
    ASSUME NEW s, NEW n \in Nat
    PROVE  Undoes(s, 0) = s /\ Undoes(s, n + 1) = Undone(Undoes(s, n))
<1> DEFINE f == UndoesUpTo(s, n)
           g == UndoesUpTo(s, n + 1)
<1>1. f = [i \in 0..n |-> UndoesAt(f, s, i)] BY UndoesExist
<1>2. g = [i \in 0..(n + 1) |-> UndoesAt(g, s, i)]
  <2>1. n + 1 \in Nat OBVIOUS
  <2> HIDE DEF g
  <2> QED BY <2>1, UndoesExist DEF g
<1>3. Undoes(s, 0) = s
  <2> DEFINE start == UndoesUpTo(s, 0)
  <2>1. \A m \in Nat : UndoesUpTo(s, m) = [i \in 0..m |-> UndoesAt(UndoesUpTo(s, m), s, i)]
        BY UndoesExist
  <2>2. start = [i \in 0..0 |-> UndoesAt(start, s, i)] BY <2>1
  <2> HIDE DEF start
  <2>3. start[0] = s BY <2>2 DEF UndoesAt
  <2> QED BY <2>3 DEF Undoes, start
<1>4. Undoes(s, n) = f[n] /\ Undoes(s, n + 1) = g[n + 1] BY DEF Undoes
<1> HIDE DEF f, g
<1> DEFINE P == {k \in Nat : k <= n => f[k] = g[k]}
<1>5. 0 \in P BY <1>1, <1>2 DEF UndoesAt
<1>6. ASSUME NEW k \in P PROVE k + 1 \in P
  <2> SUFFICES ASSUME k + 1 <= n PROVE f[k + 1] = g[k + 1] OBVIOUS
  <2>1. k + 1 \in 0..n /\ k + 1 \in 0..(n + 1) /\ k + 1 # 0 /\ (k + 1) - 1 = k OBVIOUS
  <2>2. f[k + 1] = Undone(f[k]) /\ g[k + 1] = Undone(g[k]) BY <1>1, <1>2, <2>1 DEF UndoesAt
  <2> QED BY <2>2
<1>7. P = Nat BY <1>5, <1>6, Induction
<1>8. f[n] = g[n] BY <1>7
<1>9. g[n + 1] = Undone(g[n])
  <2>1. n + 1 \in 0..(n + 1) /\ n + 1 # 0 /\ (n + 1) - 1 = n OBVIOUS
  <2> QED BY <1>2, <2>1 DEF UndoesAt
<1> QED BY <1>3, <1>4, <1>8, <1>9

LEMMA UndoesPlus ==
    ASSUME NEW s, NEW m \in Nat, NEW n \in Nat
    PROVE  Undoes(Undoes(s, m), n) = Undoes(s, m + n)
<1> DEFINE P == {k \in Nat : Undoes(Undoes(s, m), k) = Undoes(s, m + k)}
<1>1. 0 \in P BY UndoesFacts
<1>2. ASSUME NEW k \in P PROVE k + 1 \in P
  <2>1. Undoes(Undoes(s, m), k + 1) = Undone(Undoes(Undoes(s, m), k)) BY UndoesFacts
  <2>2. m + k \in Nat /\ (m + k) + 1 = m + (k + 1) OBVIOUS
  <2>3. Undoes(s, (m + k) + 1) = Undone(Undoes(s, m + k)) BY <2>2, UndoesFacts
  <2> QED BY <2>1, <2>2, <2>3
<1>3. P = Nat BY <1>1, <1>2, Induction
<1> QED BY <1>3

LEMMA UndoesState ==
    ASSUME NEW p, NEW s \in StateOf(p), NEW n \in 0..Len(s.trail)
    PROVE  /\ Undoes(s, n) \in StateOf(p)
           /\ Len(Undoes(s, n).trail) = Len(s.trail) - n
           /\ Undoes(s, n).disequalities = s.disequalities
<1> DEFINE u(k) == Undoes(s, k)
           Right(k) == /\ u(k) \in StateOf(p) /\ Len(u(k).trail) = Len(s.trail) - k
                       /\ u(k).disequalities = s.disequalities
           P == {k \in Nat : k <= Len(s.trail) => Right(k)}
<1>1. Len(s.trail) \in Nat BY DEF StateOf
<1>2. 0 \in P
  <2>1. u(0) = s BY UndoesFacts
  <2> HIDE DEF u
  <2> QED BY <1>1, <2>1
<1>3. ASSUME NEW k \in P PROVE k + 1 \in P
  <2> SUFFICES ASSUME k + 1 <= Len(s.trail) PROVE Right(k + 1) OBVIOUS
  <2>1. k \in Nat /\ Right(k) BY <1>1
  <2>2. u(k + 1) = Undone(u(k)) BY <2>1, UndoesFacts
  <2> DEFINE v == u(k)
             w == u(k + 1)
  <2>3. v \in StateOf(p) /\ Len(v.trail) = Len(s.trail) - k /\ v.disequalities = s.disequalities
        BY <2>1
  <2>4. w = Undone(v) BY <2>2
  <2> HIDE DEF v, w, u
  <2>9. v.trail \in Seq(TrailEntry(p)) BY <2>3, StateFields
  <2>10. Len(v.trail) # 0 BY <1>1, <2>1, <2>3
  <2>5. v.trail \in Seq(TrailEntry(p)) /\ v.trail # <<>> BY <2>9, <2>10
  <2>6. w \in StateOf(p) /\ w.disequalities = v.disequalities /\ w.trail = Front(v.trail)
        BY <2>3, <2>4, <2>5, UndoneFields
  <2>7. Len(w.trail) = Len(v.trail) - 1 BY <2>5, <2>6, FrontEntry
  <2>8. Len(w.trail) = Len(s.trail) - (k + 1) BY <1>1, <2>1, <2>3, <2>7
  <2> QED BY <2>3, <2>6, <2>8 DEF w
<1>4. P = Nat BY <1>2, <1>3, Induction
<1>5. n \in P BY <1>4
<1> HIDE DEF Right
<1>6. Right(n) BY <1>5
<1> QED BY <1>6 DEF Right

(* The first elements of a sequence.                                       *)
LEMMA Prefix ==
    ASSUME NEW S, NEW d \in Seq(S), NEW m \in 0..Len(d)
    PROVE  /\ SubSeq(d, 1, m) \in Seq(S) /\ Len(SubSeq(d, 1, m)) = m
           /\ \A i \in 1..m : SubSeq(d, 1, m)[i] = d[i]
           /\ \A s : s \in Seq(S) /\ Len(s) = m /\ (\A i \in 1..m : s[i] = d[i]) => s = SubSeq(d, 1, m)
<1>1. Len(d) \in Nat /\ m \in Nat /\ m <= Len(d) OBVIOUS
<1>2. \A i \in 1..m : d[i] \in S BY <1>1
<1>3. /\ SubSeq(d, 1, m) \in Seq(S)
      /\ Len(SubSeq(d, 1, m)) = IF 1 <= m THEN m - 1 + 1 ELSE 0
      /\ \A i \in 1..(m - 1 + 1) : SubSeq(d, 1, m)[i] = d[1 + i - 1]
      BY <1>1, <1>2, SubSeqProperties
<1>4. \A i \in 1..m : 1 + i - 1 = i /\ i \in 1..(m - 1 + 1) BY <1>1
<1>5. Len(SubSeq(d, 1, m)) = m /\ \A i \in 1..m : SubSeq(d, 1, m)[i] = d[i] BY <1>1, <1>3, <1>4
<1>6. ASSUME NEW s, s \in Seq(S), Len(s) = m, \A i \in 1..m : s[i] = d[i] PROVE s = SubSeq(d, 1, m)
  <2> DEFINE u == SubSeq(d, 1, m)
  <2>1. u \in Seq(S) /\ Len(u) = m /\ \A i \in 1..m : u[i] = d[i] BY <1>3, <1>5
  <2> HIDE DEF u
  <2>2. Len(s) = Len(u) /\ \A i \in 1..Len(s) : s[i] = u[i] BY <1>6, <2>1
  <2> QED BY <1>6, <2>1, <2>2, SeqEqual DEF u
<1> QED BY <1>3, <1>5, <1>6

LEMMA PrefixOfAppend ==
    ASSUME NEW S, NEW d \in Seq(S), NEW x \in S, NEW m \in 0..Len(d)
    PROVE  SubSeq(Append(d, x), 1, m) = SubSeq(d, 1, m)
<1> DEFINE e == Append(d, x)
<1>1. e \in Seq(S) /\ Len(e) = Len(d) + 1 /\ Len(d) \in Nat OBVIOUS
<1>2. \A i \in 1..Len(d) : e[i] = d[i] OBVIOUS
<1> HIDE DEF e
<1>3. m \in 0..Len(e) /\ \A i \in 1..m : i \in 1..Len(d) BY <1>1
<1>4. SubSeq(e, 1, m) \in Seq(S) /\ Len(SubSeq(e, 1, m)) = m
      /\ \A i \in 1..m : SubSeq(e, 1, m)[i] = e[i]
      BY <1>1, <1>3, Prefix
<1>5. \A s : s \in Seq(S) /\ Len(s) = m /\ (\A i \in 1..m : s[i] = d[i]) => s = SubSeq(d, 1, m)
      BY Prefix
<1>6. SubSeq(e, 1, m) = SubSeq(d, 1, m) BY <1>2, <1>3, <1>4, <1>5
<1> QED BY <1>6 DEF e

LEMMA PrefixOfPrefix ==
    ASSUME NEW S, NEW d \in Seq(S), NEW m \in 0..Len(d), NEW k \in 0..m
    PROVE  SubSeq(SubSeq(d, 1, m), 1, k) = SubSeq(d, 1, k)
<1> DEFINE e == SubSeq(d, 1, m)
<1>1. Len(d) \in Nat /\ k \in 0..Len(d) OBVIOUS
<1>2. e \in Seq(S) /\ Len(e) = m /\ \A i \in 1..m : e[i] = d[i] BY Prefix
<1> HIDE DEF e
<1>3. SubSeq(e, 1, k) \in Seq(S) /\ Len(SubSeq(e, 1, k)) = k
      /\ \A i \in 1..k : SubSeq(e, 1, k)[i] = e[i]
      BY <1>2, Prefix
<1>4. \A i \in 1..k : i \in 1..m OBVIOUS
<1>5. \A s : s \in Seq(S) /\ Len(s) = k /\ (\A i \in 1..k : s[i] = d[i]) => s = SubSeq(d, 1, k)
      BY <1>1, Prefix
<1>6. SubSeq(e, 1, k) = SubSeq(d, 1, k) BY <1>2, <1>3, <1>4, <1>5
<1> QED BY <1>6 DEF e

LEMMA WholePrefix ==
    ASSUME NEW S, NEW d \in Seq(S)
    PROVE  SubSeq(d, 1, Len(d)) = d
<1>1. Len(d) \in 0..Len(d) OBVIOUS
<1>2. \A s : s \in Seq(S) /\ Len(s) = Len(d) /\ (\A i \in 1..Len(d) : s[i] = d[i])
             => s = SubSeq(d, 1, Len(d))
      BY <1>1, Prefix
<1> QED BY <1>2

(* The disequalities of a state are no part of what its trail undoes.      *)
With(s, d) == [s EXCEPT !.disequalities = d]

LEMMA WithFields ==
    ASSUME NEW p, NEW s \in StateOf(p), NEW d \in Seq(Terms(p) \X Terms(p))
    PROVE  /\ With(s, d) \in StateOf(p)
           /\ With(s, d).parent = s.parent /\ With(s, d).size = s.size
           /\ With(s, d).domain = s.domain /\ With(s, d).trail = s.trail
           /\ With(s, d).disequalities = d
BY DEF StateOf, With

LEMMA UndoneWith ==
    ASSUME NEW p, NEW u \in StateOf(p), NEW d \in Seq(Terms(p) \X Terms(p)), u.trail # <<>>
    PROVE  Undone(With(u, d)) = With(Undone(u), d)
<1> DEFINE v == Undone(u)
           x == With(u, d)
           w == Undone(x)
           y == With(v, d)
<1>1. x \in StateOf(p) /\ x.parent = u.parent /\ x.size = u.size
      /\ x.domain = u.domain /\ x.trail = u.trail /\ x.disequalities = d
      BY WithFields
<1>2. v \in StateOf(p) BY UndoneFields
<1> HIDE DEF v
<1>3. y \in StateOf(p) /\ y.parent = v.parent /\ y.size = v.size
      /\ y.domain = v.domain /\ y.trail = v.trail /\ y.disequalities = d
      BY <1>2, WithFields
<1>4. /\ v.parent = [u.parent EXCEPT ![Last(u.trail).child] = Last(u.trail).child]
      /\ v.size = [u.size EXCEPT ![Last(u.trail).root] = Last(u.trail).size]
      /\ v.domain = [u.domain EXCEPT ![Last(u.trail).root] = Last(u.trail).domain]
      /\ v.trail = Front(u.trail)
      BY UndoneFields DEF v
<1> HIDE DEF x, y
<1>7. x \in StateOf(p) BY <1>1
<1>8. /\ w.parent = [x.parent EXCEPT ![Last(x.trail).child] = Last(x.trail).child]
      /\ w.size = [x.size EXCEPT ![Last(x.trail).root] = Last(x.trail).size]
      /\ w.domain = [x.domain EXCEPT ![Last(x.trail).root] = Last(x.trail).domain]
      /\ w.trail = Front(x.trail) /\ w.disequalities = x.disequalities
      /\ x.trail # <<>> => w \in StateOf(p)
      BY <1>7, UndoneFields
<1>5. /\ w.parent = [u.parent EXCEPT ![Last(u.trail).child] = Last(u.trail).child]
      /\ w.size = [u.size EXCEPT ![Last(u.trail).root] = Last(u.trail).size]
      /\ w.domain = [u.domain EXCEPT ![Last(u.trail).root] = Last(u.trail).domain]
      /\ w.trail = Front(u.trail) /\ w.disequalities = d
      /\ w \in StateOf(p)
      BY <1>1, <1>8
<1> HIDE DEF w
<1>6. w = y BY <1>3, <1>4, <1>5, SameState
<1> QED BY <1>6 DEF w, x, y, v

LEMMA UndoesWith ==
    ASSUME NEW p, NEW s \in StateOf(p), NEW d \in Seq(Terms(p) \X Terms(p)),
           NEW n \in 0..Len(s.trail)
    PROVE  Undoes(With(s, d), n) = With(Undoes(s, n), d)
<1> DEFINE P == {k \in Nat : k <= Len(s.trail) => Undoes(With(s, d), k) = With(Undoes(s, k), d)}
<1>1. Len(s.trail) \in Nat BY DEF StateOf
<1>2. 0 \in P BY UndoesFacts
<1>3. ASSUME NEW k \in P PROVE k + 1 \in P
  <2> SUFFICES ASSUME k + 1 <= Len(s.trail)
               PROVE  Undoes(With(s, d), k + 1) = With(Undoes(s, k + 1), d)
      OBVIOUS
  <2> DEFINE u == Undoes(s, k)
             v == Undone(u)
             w == Undone(With(u, d))
  <2>1. k \in 0..Len(s.trail) /\ k + 1 \in 0..Len(s.trail) /\ k \in Nat BY <1>1
  <2>2. Undoes(With(s, d), k + 1) = w /\ Undoes(s, k + 1) = v BY <2>1, UndoesFacts
  <2>3. u \in StateOf(p) /\ v \in StateOf(p) /\ Len(u.trail) = Len(s.trail) - k
        BY <2>1, <2>2, UndoesState
  <2> HIDE DEF u
  <2>8. Len(u.trail) # 0 BY <1>1, <2>1, <2>3
  <2>9. u.trail # <<>> BY <2>8
  <2>10. w = With(v, d) BY <2>3, <2>9, UndoneWith
  <2> QED BY <2>2, <2>10
<1>4. P = Nat BY <1>2, <1>3, Induction
<1>5. n \in P BY <1>4
<1> QED BY <1>1, <1>5

(* A snapshot that a rollback of the state can reach.                      *)
InReach(s, snapshot) ==
    /\ snapshot.trail \in 0..Len(s.trail)
    /\ snapshot.disequalities \in 0..Len(s.disequalities)

LEMMA RollbackFacts ==
    ASSUME NEW p, NEW s \in StateOf(p), NEW snapshot, InReach(s, snapshot)
    PROVE  LET r == Rollback(s, snapshot)
               u == Undoes(s, Len(s.trail) - snapshot.trail)
           IN  /\ r = With(u, SubSeq(s.disequalities, 1, snapshot.disequalities))
               /\ r \in StateOf(p)
               /\ Len(r.trail) = snapshot.trail
               /\ r.disequalities = SubSeq(s.disequalities, 1, snapshot.disequalities)
               /\ Len(r.disequalities) = snapshot.disequalities
<1> DEFINE n == Len(s.trail) - snapshot.trail
           u == Undoes(s, n)
           d == SubSeq(s.disequalities, 1, snapshot.disequalities)
<1>1. Len(s.trail) \in Nat /\ s.disequalities \in Seq(Terms(p) \X Terms(p)) BY DEF StateOf
<1>2. n \in 0..Len(s.trail) /\ n \in Nat /\ Len(s.trail) - n = snapshot.trail BY <1>1 DEF InReach
<1>3. u \in StateOf(p) /\ Len(u.trail) = snapshot.trail /\ u.disequalities = s.disequalities
      BY <1>2, UndoesState
<1>4. d \in Seq(Terms(p) \X Terms(p)) /\ Len(d) = snapshot.disequalities
      BY <1>1, Prefix DEF InReach
<1>5. Rollback(s, snapshot) = [u EXCEPT !.disequalities = SubSeq(@, 1, snapshot.disequalities)]
      BY DEF Rollback, Undoes, UndoesUpTo, UndoesAt
<1>6. Rollback(s, snapshot) = With(u, SubSeq(u.disequalities, 1, snapshot.disequalities))
      BY <1>5 DEF With
<1>7. Rollback(s, snapshot) = With(u, d) BY <1>3, <1>6
<1> DEFINE r == Rollback(s, snapshot)
<1> HIDE DEF u, d, n
<1>10. u \in StateOf(p) BY <1>3
<1>11. d \in Seq(Terms(p) \X Terms(p)) BY <1>4
<1>8. With(u, d) \in StateOf(p) /\ With(u, d).trail = u.trail /\ With(u, d).disequalities = d
      BY <1>10, <1>11, WithFields
<1> HIDE DEF r
<1>9. r = With(u, d) /\ r \in StateOf(p) /\ r.trail = u.trail /\ r.disequalities = d
      BY <1>7, <1>8 DEF r
<1> QED BY <1>3, <1>4, <1>9 DEF r, u, d, n

(* A rollback sees nothing of what came after its snapshot.                *)
LEMMA RollbackPushed ==
    ASSUME NEW p, NEW s \in StateOf(p), NEW s2, NEW entry, Pushed(s, s2, entry, p),
           NEW snapshot, InReach(s, snapshot)
    PROVE  InReach(s2, snapshot) /\ Rollback(s2, snapshot) = Rollback(s, snapshot)
<1> DEFINE n == Len(s.trail) - snapshot.trail
<1>0. s.trail \in Seq(TrailEntry(p)) BY StateFields
<1>1. s.trail \in Seq(TrailEntry(p)) /\ Len(s.trail) \in Nat BY <1>0
<1>2. s2 \in StateOf(p) /\ entry \in TrailEntry(p) /\ s2.trail = Append(s.trail, entry)
      /\ s2.disequalities = s.disequalities
      BY DEF Pushed
<1>3. Len(s2.trail) = Len(s.trail) + 1 BY <1>1, <1>2, LastEntry
<1>4. InReach(s2, snapshot) BY <1>1, <1>2, <1>3 DEF InReach
<1>5. n \in Nat /\ Len(s2.trail) - snapshot.trail = 1 + n
  <2>1. snapshot.trail \in 0..Len(s.trail) BY DEF InReach
  <2> QED BY <1>1, <1>3, <2>1
<1>6. Undone(s2) = s BY PushedUndone
<1>7. Undoes(s2, 1) = s
  <2>1. \A m \in Nat : Undoes(s2, 0) = s2 /\ Undoes(s2, m + 1) = Undone(Undoes(s2, m))
        BY UndoesFacts
  <2>2. Undoes(s2, 0 + 1) = Undone(Undoes(s2, 0)) BY <2>1
  <2>3. 0 + 1 = 1 OBVIOUS
  <2> QED BY <1>6, <2>1, <2>2, <2>3
<1>8. Undoes(s2, 1 + n) = Undoes(s, n)
  <2>1. Undoes(Undoes(s2, 1), n) = Undoes(s2, 1 + n) BY <1>5, UndoesPlus
  <2> QED BY <1>7, <2>1
<1>9. Rollback(s, snapshot)
        = With(Undoes(s, n), SubSeq(s.disequalities, 1, snapshot.disequalities))
      BY RollbackFacts
<1>10. Rollback(s2, snapshot)
         = With(Undoes(s2, Len(s2.trail) - snapshot.trail),
                SubSeq(s2.disequalities, 1, snapshot.disequalities))
       BY <1>2, <1>4, RollbackFacts
<1> QED BY <1>2, <1>4, <1>5, <1>8, <1>9, <1>10

LEMMA RollbackSeparated ==
    ASSUME NEW p, NEW s \in StateOf(p), NEW x \in Terms(p) \X Terms(p),
           NEW snapshot, InReach(s, snapshot)
    PROVE  LET s2 == With(s, Append(s.disequalities, x))
           IN  InReach(s2, snapshot) /\ Rollback(s2, snapshot) = Rollback(s, snapshot)
<1> DEFINE d == Append(s.disequalities, x)
           s2 == With(s, d)
           n == Len(s.trail) - snapshot.trail
           k == snapshot.disequalities
           u == Undoes(s, n)
<1>1. s.disequalities \in Seq(Terms(p) \X Terms(p)) /\ Len(s.disequalities) \in Nat
      /\ Len(s.trail) \in Nat
      BY StateFields
<1>2. d \in Seq(Terms(p) \X Terms(p)) /\ Len(d) = Len(s.disequalities) + 1 BY <1>1
<1>3. n \in 0..Len(s.trail) /\ k \in 0..Len(s.disequalities) BY <1>1 DEF InReach
<1>4. SubSeq(d, 1, k) = SubSeq(s.disequalities, 1, k) BY <1>1, <1>3, PrefixOfAppend
<1> HIDE DEF d
<1>5. s2 \in StateOf(p) /\ s2.trail = s.trail /\ s2.disequalities = d BY <1>2, WithFields
<1>6. InReach(s2, snapshot) BY <1>1, <1>2, <1>5 DEF InReach
<1>7. Undoes(s2, n) = With(u, d) BY <1>2, <1>3, UndoesWith
<1> HIDE DEF s2
<1>8. s2 \in StateOf(p) BY <1>5
<1>9. Rollback(s2, snapshot)
         = With(Undoes(s2, Len(s2.trail) - snapshot.trail), SubSeq(s2.disequalities, 1, k))
      BY <1>6, <1>8, RollbackFacts
<1>10. Rollback(s, snapshot) = With(u, SubSeq(s.disequalities, 1, k)) BY RollbackFacts
<1>11. With(With(u, d), SubSeq(d, 1, k)) = With(u, SubSeq(d, 1, k)) BY DEF With
<1>12. Rollback(s2, snapshot) = Rollback(s, snapshot)
       BY <1>4, <1>5, <1>7, <1>9, <1>10, <1>11
<1> QED BY <1>6, <1>12 DEF s2, d

LEMMA RollbackNow ==
    ASSUME NEW p, NEW s \in StateOf(p)
    PROVE  InReach(s, Snapshot(s)) /\ Rollback(s, Snapshot(s)) = s
<1>1. Len(s.trail) \in Nat /\ Len(s.disequalities) \in Nat
      /\ s.disequalities \in Seq(Terms(p) \X Terms(p))
      BY StateFields
<1>2. Snapshot(s).trail = Len(s.trail) /\ Snapshot(s).disequalities = Len(s.disequalities)
      BY DEF Snapshot
<1>3. InReach(s, Snapshot(s)) BY <1>1, <1>2 DEF InReach
<1>4. Rollback(s, Snapshot(s))
        = With(Undoes(s, Len(s.trail) - Snapshot(s).trail),
               SubSeq(s.disequalities, 1, Snapshot(s).disequalities))
      BY <1>3, RollbackFacts
<1>5. Len(s.trail) - Snapshot(s).trail = 0 BY <1>1, <1>2
<1>6. Undoes(s, 0) = s
  <2>1. 0 \in Nat OBVIOUS
  <2> QED BY <2>1, UndoesFacts
<1>9. s.disequalities \in Seq(Terms(p) \X Terms(p)) BY <1>1
<1>7. SubSeq(s.disequalities, 1, Len(s.disequalities)) = s.disequalities BY <1>9, WholePrefix
<1>8. With(s, s.disequalities) = s
  <2> DEFINE w == With(s, s.disequalities)
  <2>1. w \in StateOf(p) /\ w.parent = s.parent /\ w.size = s.size /\ w.domain = s.domain
        /\ w.trail = s.trail /\ w.disequalities = s.disequalities
        BY <1>9, WithFields
  <2> HIDE DEF w
  <2>2. w = s BY <2>1, SameState
  <2> QED BY <2>2 DEF w
<1> QED BY <1>2, <1>3, <1>4, <1>5, <1>6, <1>7, <1>8

LEMMA RollbackTwice ==
    ASSUME NEW p, NEW s \in StateOf(p), NEW late, InReach(s, late), NEW early, InReach(s, early),
           early.trail <= late.trail, early.disequalities <= late.disequalities
    PROVE  /\ InReach(Rollback(s, late), early)
           /\ Rollback(Rollback(s, late), early) = Rollback(s, early)
<1> DEFINE m == Len(s.trail) - late.trail
           n == late.trail - early.trail
           d == SubSeq(s.disequalities, 1, late.disequalities)
           k == early.disequalities
           u == Undoes(s, m)
           r == Rollback(s, late)
<1>1. s.disequalities \in Seq(Terms(p) \X Terms(p)) /\ Len(s.disequalities) \in Nat
      /\ Len(s.trail) \in Nat
  <2>1. s.disequalities \in Seq(Terms(p) \X Terms(p)) BY StateFields
  <2>2. s.trail \in Seq(TrailEntry(p)) BY StateFields
  <2> QED BY <2>1, <2>2
<1>2. /\ m \in 0..Len(s.trail) /\ m \in Nat /\ n \in Nat /\ n \in 0..(Len(s.trail) - m)
      /\ m + n = Len(s.trail) - early.trail
      /\ late.disequalities \in 0..Len(s.disequalities) /\ k \in 0..late.disequalities
      BY <1>1 DEF InReach
<1>3. d \in Seq(Terms(p) \X Terms(p)) /\ SubSeq(d, 1, k) = SubSeq(s.disequalities, 1, k)
      BY <1>1, <1>2, Prefix, PrefixOfPrefix
<1>4. r = With(u, d) /\ r \in StateOf(p) /\ Len(r.trail) = late.trail
      /\ r.disequalities = d /\ Len(r.disequalities) = late.disequalities
      BY RollbackFacts
<1>5. u \in StateOf(p) /\ Len(u.trail) = Len(s.trail) - m BY <1>2, UndoesState
<1>6. Undoes(u, n) = Undoes(s, m + n) BY <1>2, UndoesPlus
<1> HIDE DEF u, d, r
<1>7. u \in StateOf(p) BY <1>5
<1>8. n \in 0..Len(u.trail) /\ d \in Seq(Terms(p) \X Terms(p)) BY <1>2, <1>3, <1>5
<1>9. Undoes(With(u, d), n) = With(Undoes(u, n), d) BY <1>7, <1>8, UndoesWith
<1>10. InReach(r, early) BY <1>1, <1>2, <1>4 DEF InReach
<1>11. r \in StateOf(p) BY <1>4
<1>12. Rollback(r, early) = With(Undoes(r, Len(r.trail) - early.trail), SubSeq(r.disequalities, 1, k))
       BY <1>10, <1>11, RollbackFacts
<1>13. Len(r.trail) - early.trail = n BY <1>4
<1>14. Rollback(s, early) = With(Undoes(s, m + n), SubSeq(s.disequalities, 1, k))
       BY <1>2, RollbackFacts
<1>15. With(With(Undoes(u, n), d), SubSeq(d, 1, k)) = With(Undoes(u, n), SubSeq(d, 1, k))
       BY DEF With
<1>16. Rollback(r, early) = Rollback(s, early)
       BY <1>3, <1>4, <1>6, <1>9, <1>12, <1>13, <1>14, <1>15
<1> QED BY <1>10, <1>16 DEF r

-----------------------------------------------------------------------------
(* What the steps of the search do to a state.                             *)
ClassIn(s, T, root) == {t \in T : FindIn(s, t) = root}

Grounded(p, s) ==
    /\ s \in StateOf(p)
    /\ IsTree(s.parent, Terms(p))
    /\ \A root \in Terms(p) :
          s.parent[root] = root => s.size[root] = Cardinality(ClassIn(s, Terms(p), root))

(* A lookup depends on the parents only.                                   *)
LEMMA SameFind ==
    ASSUME NEW T, NEW s, IsTree(s.parent, T), NEW s2, s2.parent = s.parent
    PROVE  \A t \in T : FindIn(s2, t) = FindIn(s, t)
<1> DEFINE S == {t \in T : FindIn(s2, t) = FindIn(s, t)}
<1>1. IsTree(s2.parent, T) OBVIOUS
<1>2. \A t \in T : FindIn(s, t) = IF s.parent[t] = t THEN t ELSE FindIn(s, s.parent[t])
      BY FindRecursion
<1>3. \A t \in T : FindIn(s2, t) = IF s2.parent[t] = t THEN t ELSE FindIn(s2, s2.parent[t])
      BY <1>1, FindRecursion
<1>4. \A t \in T : s.parent[t] = t => t \in S BY <1>2, <1>3
<1>5. \A t \in T : s.parent[t] \in S => t \in S BY <1>2, <1>3
<1>6. \A t \in T : t \in S BY <1>4, <1>5, TreeInduction
<1> QED BY <1>6

(* Of two classes with roots x and y one is made.                          *)
Joined(p, s, s2, x, y) ==
    /\ \A t \in Terms(p) : s2.parent[t] = s.parent[t] \/ {t, s2.parent[t]} = {x, y}
    /\ \E root \in {x, y} :
          \A t \in Terms(p) :
             FindIn(s2, t) = IF FindIn(s, t) \in {x, y} THEN root ELSE FindIn(s, t)
    /\ \A t \in Terms(p) :
          s2.domain[FindIn(s2, t)] = IF FindIn(s, t) \in {x, y} THEN s.domain[x] \cap s.domain[y]
                                     ELSE s.domain[FindIn(s, t)]

UnionEntry(s, root, child) ==
    [kind |-> "Union", child |-> child, root |-> root, size |-> s.size[root],
     domain |-> s.domain[root]]

LinkedTo(s, root, child) ==
    [s EXCEPT !.parent[child] = root,
              !.size[root] = @ + s.size[child],
              !.domain[root] = @ \cap s.domain[child],
              !.trail = Append(@, UnionEntry(s, root, child))]

LEMMA UnionForm ==
    ASSUME NEW s, NEW x, NEW y
    PROVE  \/ UnionIn(s, x, y) = LinkedTo(s, FindIn(s, x), FindIn(s, y))
           \/ UnionIn(s, x, y) = LinkedTo(s, FindIn(s, y), FindIn(s, x))
<1> DEFINE a == FindIn(s, x)
           b == FindIn(s, y)
<1>1. CASE Keeps(s, a, b)
  <2>1. UnionIn(s, x, y) = LinkedTo(s, a, b) BY <1>1 DEF UnionIn, LinkedTo, UnionEntry
  <2> QED BY <2>1
<1>2. CASE ~Keeps(s, a, b)
  <2>1. UnionIn(s, x, y) = LinkedTo(s, b, a) BY <1>2 DEF UnionIn, LinkedTo, UnionEntry
  <2> QED BY <2>1
<1> QED BY <1>1, <1>2

LEMMA LinkedFields ==
    ASSUME NEW p, NEW s \in StateOf(p), NEW root \in Terms(p), NEW child \in Terms(p)
    PROVE  LET s2 == LinkedTo(s, root, child)
           IN  /\ s2.parent = [s.parent EXCEPT ![child] = root]
               /\ s2.size = [s.size EXCEPT ![root] = s.size[root] + s.size[child]]
               /\ s2.domain = [s.domain EXCEPT ![root] = s.domain[root] \cap s.domain[child]]
               /\ s2.disequalities = s.disequalities
               /\ s2.trail = Append(s.trail, UnionEntry(s, root, child))
               /\ UnionEntry(s, root, child) \in TrailEntry(p)
               /\ s2 \in StateOf(p)
<1> DEFINE s2 == LinkedTo(s, root, child)
           e == UnionEntry(s, root, child)
<1>1. s = [parent |-> s.parent, size |-> s.size, domain |-> s.domain,
           disequalities |-> s.disequalities, trail |-> s.trail]
      BY StateFields
<1>2. /\ s.parent \in [Terms(p) -> Terms(p)] /\ s.size \in [Terms(p) -> Nat]
      /\ s.domain \in [Terms(p) -> SUBSET Carrier(p)]
      /\ s.disequalities \in Seq(Terms(p) \X Terms(p)) /\ s.trail \in Seq(TrailEntry(p))
      BY StateFields
<1>3. e \in TrailEntry(p) BY <1>2 DEF UnionEntry, TrailEntry
<1>10. s2 = [s EXCEPT !.parent[child] = root,
                      !.size[root] = @ + s.size[child],
                      !.domain[root] = @ \cap s.domain[child],
                      !.trail = Append(@, e)]
       BY DEF LinkedTo
<1> HIDE DEF e, s2
<1>4. s2 = [parent |-> [s.parent EXCEPT ![child] = root],
            size |-> [s.size EXCEPT ![root] = @ + s.size[child]],
            domain |-> [s.domain EXCEPT ![root] = @ \cap s.domain[child]],
            disequalities |-> s.disequalities, trail |-> Append(s.trail, e)]
      BY <1>1, <1>10
<1>5. [s.parent EXCEPT ![child] = root] \in [Terms(p) -> Terms(p)] BY <1>2
<1>6. /\ [s.size EXCEPT ![root] = @ + s.size[child]]
           = [s.size EXCEPT ![root] = s.size[root] + s.size[child]]
      /\ [s.size EXCEPT ![root] = @ + s.size[child]] \in [Terms(p) -> Nat]
      BY <1>2
<1>7. /\ [s.domain EXCEPT ![root] = @ \cap s.domain[child]]
           = [s.domain EXCEPT ![root] = s.domain[root] \cap s.domain[child]]
      /\ [s.domain EXCEPT ![root] = @ \cap s.domain[child]] \in [Terms(p) -> SUBSET Carrier(p)]
      BY <1>2
<1>8. Append(s.trail, e) \in Seq(TrailEntry(p)) BY <1>2, <1>3
<1>9. s2 \in StateOf(p) BY <1>2, <1>4, <1>5, <1>6, <1>7, <1>8 DEF StateOf
<1> QED BY <1>3, <1>4, <1>6, <1>7, <1>9 DEF e, s2

LEMMA LinkedFacts ==
    ASSUME NEW p, WellFormed(p), NEW s, Grounded(p, s),
           NEW root \in Terms(p), NEW child \in Terms(p), root # child,
           s.parent[root] = root, s.parent[child] = child
    PROVE  LET s2 == LinkedTo(s, root, child)
           IN  /\ Grounded(p, s2)
               /\ Pushed(s, s2, UnionEntry(s, root, child), p)
               /\ Joined(p, s, s2, root, child)
<1> DEFINE T == Terms(p)
           s2 == LinkedTo(s, root, child)
           e == UnionEntry(s, root, child)
<1>1. s \in StateOf(p) /\ IsTree(s.parent, T)
      /\ \A r \in T : s.parent[r] = r => s.size[r] = Cardinality(ClassIn(s, T, r))
      BY DEF Grounded
<1>2. s \in StateOf(p) BY <1>1
<1>3. /\ s.parent \in [T -> T] /\ s.size \in [T -> Nat] /\ s.domain \in [T -> SUBSET Carrier(p)]
      BY <1>2, StateFields
<1>4. /\ s2.parent = [s.parent EXCEPT ![child] = root]
      /\ s2.size = [s.size EXCEPT ![root] = s.size[root] + s.size[child]]
      /\ s2.domain = [s.domain EXCEPT ![root] = s.domain[root] \cap s.domain[child]]
      /\ s2.disequalities = s.disequalities
      /\ s2.trail = Append(s.trail, e)
      /\ e \in TrailEntry(p)
      /\ s2 \in StateOf(p)
      BY <1>2, LinkedFields
<1>5. e.child = child /\ e.root = root /\ e.size = s.size[root] /\ e.domain = s.domain[root]
      BY DEF UnionEntry
<1> HIDE DEF s2, e
<1>6. Pushed(s, s2, e, p)
  <2>1. [s2.parent EXCEPT ![e.child] = e.child] = s.parent BY <1>3, <1>4, <1>5
  <2>2. [s2.size EXCEPT ![e.root] = e.size] = s.size BY <1>3, <1>4, <1>5
  <2>3. [s2.domain EXCEPT ![e.root] = e.domain] = s.domain BY <1>3, <1>4, <1>5
  <2> QED BY <1>4, <2>1, <2>2, <2>3 DEF Pushed
<1>7. /\ s2.parent \in [T -> T] /\ s2.parent[child] = root
      /\ \A t \in T \ {child} : s2.parent[t] = s.parent[t]
      BY <1>3, <1>4
<1>8. /\ IsTree(s2.parent, T)
      /\ \A t \in T : FindIn(s2, t) = IF FindIn(s, t) = child THEN root ELSE FindIn(s, t)
      BY <1>1, <1>7, Linked
<1>9. FindIn(s, root) = root /\ FindIn(s, child) = child BY <1>1, FindFacts
<1>10. /\ s2.domain[root] = s.domain[root] \cap s.domain[child]
       /\ \A t \in T \ {root} : s2.domain[t] = s.domain[t]
       /\ s2.size[root] = s.size[root] + s.size[child]
       /\ \A t \in T \ {root} : s2.size[t] = s.size[t]
       BY <1>3, <1>4
<1>11. \A t \in T : FindIn(s, t) \in T BY <1>1, FindFacts
<1>12. Joined(p, s, s2, root, child)
  <2>1. \A t \in T : s2.parent[t] = s.parent[t] \/ {t, s2.parent[t]} = {root, child} BY <1>7
  <2>2. \A t \in T : FindIn(s2, t) = IF FindIn(s, t) \in {root, child} THEN root ELSE FindIn(s, t)
        BY <1>8
  <2>3. \A t \in T : s2.domain[FindIn(s2, t)]
                       = IF FindIn(s, t) \in {root, child} THEN s.domain[root] \cap s.domain[child]
                         ELSE s.domain[FindIn(s, t)]
        BY <1>10, <1>11, <2>2
  <2> QED BY <2>1, <2>2, <2>3 DEF Joined, T
<1>13. ASSUME NEW r \in T, s2.parent[r] = r PROVE s2.size[r] = Cardinality(ClassIn(s2, T, r))
  <2>1. r # child /\ s.parent[r] = r BY <1>7, <1>13
  <2>2. IsFiniteSet(T) BY WellFormedFinite DEF T
  <2>3. CASE r # root
    <3>1. ClassIn(s2, T, r) = ClassIn(s, T, r) BY <1>8, <2>1, <2>3 DEF ClassIn
    <3> QED BY <1>1, <1>10, <2>1, <2>3, <3>1
  <2>4. CASE r = root
    <3> DEFINE A == ClassIn(s, T, root)
               B == ClassIn(s, T, child)
    <3>1. ClassIn(s2, T, root) = A \cup B BY <1>8 DEF ClassIn
    <3>2. A \in SUBSET T /\ B \in SUBSET T /\ A \cap B = {} BY DEF ClassIn
    <3>3. s.size[root] = Cardinality(A) /\ s.size[child] = Cardinality(B) BY <1>1
    <3> HIDE DEF A, B
    <3>4. IsFiniteSet(A) /\ IsFiniteSet(B) BY <2>2, <3>2, FS_Subset
    <3>5. Cardinality(A \cup B) = Cardinality(A) + Cardinality(B) - Cardinality(A \cap B)
          BY <3>4, FS_Union
    <3>6. Cardinality(A \cap B) = 0 BY <3>2, FS_EmptySet
    <3>7. Cardinality(A) \in Nat /\ Cardinality(B) \in Nat BY <3>4, FS_CardinalityType
    <3> QED BY <1>10, <2>4, <3>1, <3>3, <3>5, <3>6, <3>7
  <2> QED BY <2>3, <2>4
<1>14. Grounded(p, s2) BY <1>4, <1>8, <1>13 DEF Grounded, T
<1> QED BY <1>6, <1>12, <1>14 DEF s2, e

(* A change that one entry of the trail undoes.                            *)
PushedOne(p, s, s2) == \E entry : Pushed(s, s2, entry, p)

LEMMA UnionFacts ==
    ASSUME NEW p, WellFormed(p), NEW s, Grounded(p, s), NEW x \in Terms(p), NEW y \in Terms(p),
           FindIn(s, x) # FindIn(s, y)
    PROVE  LET s2 == UnionIn(s, x, y)
           IN  Grounded(p, s2) /\ PushedOne(p, s, s2) /\ Joined(p, s, s2, FindIn(s, x), FindIn(s, y))
<1> DEFINE a == FindIn(s, x)
           b == FindIn(s, y)
           s2 == UnionIn(s, x, y)
<1>1. IsTree(s.parent, Terms(p)) BY DEF Grounded
<1>2. a \in Terms(p) /\ s.parent[a] = a /\ b \in Terms(p) /\ s.parent[b] = b BY <1>1, FindFacts
<1>3. s2 = LinkedTo(s, a, b) \/ s2 = LinkedTo(s, b, a) BY UnionForm
<1>4. a # b OBVIOUS
<1> HIDE DEF a, b, s2
<1>5. CASE s2 = LinkedTo(s, a, b)
  <2>1. Grounded(p, s2) /\ Pushed(s, s2, UnionEntry(s, a, b), p) /\ Joined(p, s, s2, a, b)
        BY <1>2, <1>4, <1>5, LinkedFacts
  <2> QED BY <2>1 DEF PushedOne, s2, a, b
<1>6. CASE s2 = LinkedTo(s, b, a)
  <2>1. Grounded(p, s2) /\ Pushed(s, s2, UnionEntry(s, b, a), p) /\ Joined(p, s, s2, b, a)
        BY <1>2, <1>4, <1>6, LinkedFacts
  <2>2. {a, b} = {b, a} /\ s.domain[a] \cap s.domain[b] = s.domain[b] \cap s.domain[a] OBVIOUS
  <2>3. Joined(p, s, s2, a, b) BY <2>1, <2>2 DEF Joined
  <2> QED BY <2>1, <2>3 DEF PushedOne, s2, a, b
<1> QED BY <1>3, <1>5, <1>6

(* The values of the class of a term are restricted.                       *)
Narrowed(p, s, s2, t, values) ==
    /\ s2.parent = s.parent
    /\ \A u \in Terms(p) :
          /\ FindIn(s2, u) = FindIn(s, u)
          /\ s2.domain[FindIn(s2, u)] = IF FindIn(s, u) = FindIn(s, t)
                                        THEN s.domain[FindIn(s, t)] \cap values
                                        ELSE s.domain[FindIn(s, u)]

LEMMA RestrictedFacts ==
    ASSUME NEW p, NEW s, Grounded(p, s), NEW t \in Terms(p), NEW values
    PROVE  LET s2 == Restricted(s, t, values)
           IN  Grounded(p, s2) /\ PushedOne(p, s, s2) /\ Narrowed(p, s, s2, t, values)
<1> DEFINE T == Terms(p)
           root == FindIn(s, t)
           s2 == Restricted(s, t, values)
           e == [kind |-> "Domain", child |-> root, root |-> root,
                 size |-> s.size[root], domain |-> s.domain[root]]
<1>1. s \in StateOf(p) /\ IsTree(s.parent, T)
      /\ \A r \in T : s.parent[r] = r => s.size[r] = Cardinality(ClassIn(s, T, r))
      BY DEF Grounded
<1>2. s \in StateOf(p) BY <1>1
<1>3. s = [parent |-> s.parent, size |-> s.size, domain |-> s.domain,
           disequalities |-> s.disequalities, trail |-> s.trail]
      BY <1>2, StateFields
<1>4. /\ s.parent \in [T -> T] /\ s.size \in [T -> Nat]
      /\ s.domain \in [T -> SUBSET Carrier(p)]
      /\ s.disequalities \in Seq(T \X T) /\ s.trail \in Seq(TrailEntry(p))
      BY <1>2, StateFields
<1>5. root \in T /\ s.parent[root] = root BY <1>1, FindFacts
<1>6. s2 = [s EXCEPT !.domain[root] = @ \cap values, !.trail = Append(@, e)] BY DEF Restricted
<1> HIDE DEF s2, root
<1>7. e \in TrailEntry(p) /\ e.child = root /\ e.root = root /\ e.size = s.size[root]
      /\ e.domain = s.domain[root]
      BY <1>4, <1>5 DEF TrailEntry
<1> HIDE DEF e
<1>8. s2 = [parent |-> s.parent, size |-> s.size,
            domain |-> [s.domain EXCEPT ![root] = @ \cap values],
            disequalities |-> s.disequalities, trail |-> Append(s.trail, e)]
      BY <1>3, <1>6
<1>9. /\ [s.domain EXCEPT ![root] = @ \cap values] \in [T -> SUBSET Carrier(p)]
      /\ Append(s.trail, e) \in Seq(TrailEntry(p))
      BY <1>4, <1>5, <1>7
<1>10. s2 \in StateOf(p) BY <1>4, <1>8, <1>9 DEF StateOf
<1>11. /\ s2.parent = s.parent /\ s2.size = s.size
       /\ s2.domain = [s.domain EXCEPT ![root] = @ \cap values]
       /\ s2.disequalities = s.disequalities /\ s2.trail = Append(s.trail, e)
       BY <1>8
<1>12. PushedOne(p, s, s2)
  <2>1. [s2.parent EXCEPT ![e.child] = e.child] = s.parent BY <1>4, <1>5, <1>7, <1>11
  <2>2. [s2.size EXCEPT ![e.root] = e.size] = s.size BY <1>4, <1>5, <1>7, <1>11
  <2>3. [s2.domain EXCEPT ![e.root] = e.domain] = s.domain BY <1>4, <1>5, <1>7, <1>11
  <2>4. Pushed(s, s2, e, p) BY <1>7, <1>10, <1>11, <2>1, <2>2, <2>3 DEF Pushed
  <2> QED BY <2>4 DEF PushedOne
<1>13. \A u \in T : FindIn(s2, u) = FindIn(s, u) BY <1>1, <1>11, SameFind
<1>14. Narrowed(p, s, s2, t, values)
  <2>1. \A u \in T : FindIn(s, u) \in T BY <1>1, FindFacts
  <2>2. s2.domain[root] = s.domain[root] \cap values
        /\ \A u \in T \ {root} : s2.domain[u] = s.domain[u]
        BY <1>4, <1>5, <1>11
  <2> QED BY <1>11, <1>13, <2>1, <2>2 DEF Narrowed, root, T
<1>15. Grounded(p, s2)
  <2>1. \A r \in T : ClassIn(s2, T, r) = ClassIn(s, T, r) BY <1>13 DEF ClassIn
  <2> QED BY <1>1, <1>10, <1>11, <2>1 DEF Grounded, T
<1> QED BY <1>12, <1>14, <1>15 DEF s2

(* Only the disequalities change.                                          *)
LEMMA WithFacts ==
    ASSUME NEW p, NEW s, Grounded(p, s), NEW d \in Seq(Terms(p) \X Terms(p))
    PROVE  /\ Grounded(p, With(s, d))
           /\ With(s, d).parent = s.parent /\ With(s, d).domain = s.domain
           /\ \A t \in Terms(p) : FindIn(With(s, d), t) = FindIn(s, t)
<1> DEFINE T == Terms(p)
           s2 == With(s, d)
<1>1. s \in StateOf(p) /\ IsTree(s.parent, T)
      /\ \A r \in T : s.parent[r] = r => s.size[r] = Cardinality(ClassIn(s, T, r))
      BY DEF Grounded
<1>2. s \in StateOf(p) BY <1>1
<1>0. d \in Seq(Terms(p) \X Terms(p)) OBVIOUS
<1>7. With(s, d) \in StateOf(p) /\ With(s, d).parent = s.parent /\ With(s, d).size = s.size
      /\ With(s, d).domain = s.domain
      BY <1>0, <1>2 DEF With, StateOf
<1>3. s2 \in StateOf(p) /\ s2.parent = s.parent /\ s2.size = s.size /\ s2.domain = s.domain
      BY <1>7
<1> HIDE DEF s2
<1>4. \A t \in T : FindIn(s2, t) = FindIn(s, t) BY <1>1, <1>3, SameFind
<1>5. \A r \in T : ClassIn(s2, T, r) = ClassIn(s, T, r) BY <1>4 DEF ClassIn
<1>6. Grounded(p, s2) BY <1>1, <1>3, <1>5 DEF Grounded, T
<1> QED BY <1>3, <1>4, <1>6 DEF s2

(* A path with one more assumption.                                        *)
LongerBy(p, walk, a, longer) ==
    /\ \A kind : Assumed(longer, kind) = Assumed(walk, kind) \cup (IF a.kind = kind THEN {a} ELSE {})
    /\ RawDisequalities(p, longer)
         = RawDisequalities(p, walk)
           \cup (IF a.kind = "Distinct" THEN {OrderedPair(a.left, a.right)} ELSE {})

LEMMA LongerPath ==
    ASSUME NEW p, NEW S, NEW walk \in Seq(S), NEW a \in S
    PROVE  LongerBy(p, walk, a, Append(walk, a))
<1>1. Range(Append(walk, a)) = Range(walk) \cup {a} BY RangeAppend
<1>2. \A kind : Assumed(Append(walk, a), kind)
                  = Assumed(walk, kind) \cup (IF a.kind = kind THEN {a} ELSE {})
      BY <1>1 DEF Assumed
<1>3. Assumed(Append(walk, a), "Distinct")
        = Assumed(walk, "Distinct") \cup (IF a.kind = "Distinct" THEN {a} ELSE {})
      BY <1>2
<1>4. RawDisequalities(p, Append(walk, a))
        = RawDisequalities(p, walk)
          \cup (IF a.kind = "Distinct" THEN {OrderedPair(a.left, a.right)} ELSE {})
  <2> DEFINE P(x) == OrderedPair(x.left, x.right)
  <2>1. {P(x) : x \in Assumed(Append(walk, a), "Distinct")}
          = {P(x) : x \in Assumed(walk, "Distinct")} \cup (IF a.kind = "Distinct" THEN {P(a)} ELSE {})
    <3> HIDE DEF P
    <3>1. CASE a.kind = "Distinct" BY <1>3, <3>1
    <3>2. CASE a.kind # "Distinct" BY <1>3, <3>2
    <3> QED BY <3>1, <3>2
  <2> QED BY <2>1 DEF RawDisequalities
<1> QED BY <1>2, <1>4 DEF LongerBy

(* What is closed under a longer path is closed under the path, and        *)
(* satisfies the new assumption.                                           *)
LEMMA ClosedShorter ==
    ASSUME NEW p, NEW S, NEW walk \in Seq(S), NEW a \in S,
           NEW c, NEW d, Closed(p, Append(walk, a), c, d)
    PROVE  /\ Closed(p, walk, c, d)
           /\ a.kind = "Equal" => c[a.left] = c[a.right]
           /\ a.kind = "Value" => d[a.left] \subseteq {a.right}
<1> DEFINE longer == Append(walk, a)
<1>0. LongerBy(p, walk, a, longer) BY LongerPath
<1>1. /\ \A kind : Assumed(longer, kind)
                     = Assumed(walk, kind) \cup (IF a.kind = kind THEN {a} ELSE {})
      /\ RawDisequalities(p, walk) \subseteq RawDisequalities(p, longer)
      BY <1>0 DEF LongerBy
<1> HIDE DEF longer
<1>2. /\ Assumed(longer, "Equal")
           = Assumed(walk, "Equal") \cup (IF a.kind = "Equal" THEN {a} ELSE {})
      /\ Assumed(longer, "Value")
           = Assumed(walk, "Value") \cup (IF a.kind = "Value" THEN {a} ELSE {})
      BY <1>1
<1>3. Closed(p, longer, c, d) BY DEF longer
<1>4. /\ Respects(p, longer, c)
      /\ \A t, u \in Terms(p) : c[t] = c[u] => d[t] = d[u]
      /\ \A t \in Terms(p) : d[t] # {} /\ d[t] \subseteq DomainOf(p, t)
      /\ \A b \in Assumed(longer, "Value") : d[b.left] \subseteq {b.right}
      /\ \A q \in RawDisequalities(p, longer) : c[q[1]] # c[q[2]]
      /\ Uncut(RawDisequalities(p, longer), d)
      /\ \A i, j \in DOMAIN p.apps :
            Congruent(p, c, i, j) => c[p.apps[i].result] = c[p.apps[j].result]
      /\ \A t, u \in Terms(p) : SameSingleton(d[t], d[u]) => c[t] = c[u]
      BY <1>3 DEF Closed
<1>5. /\ \A pair \in Range(p.equalities) : c[pair[1]] = c[pair[2]]
      /\ \A b \in Assumed(longer, "Equal") : c[b.left] = c[b.right]
      BY <1>4 DEF Respects
<1>6. Respects(p, walk, c) BY <1>2, <1>5 DEF Respects
<1>7. Uncut(RawDisequalities(p, walk), d) BY <1>1, <1>4 DEF Uncut
<1>8. \A b \in Assumed(walk, "Value") : d[b.left] \subseteq {b.right} BY <1>2, <1>4
<1>9. \A q \in RawDisequalities(p, walk) : c[q[1]] # c[q[2]] BY <1>1, <1>4
<1>10. Closed(p, walk, c, d) BY <1>4, <1>6, <1>7, <1>8, <1>9 DEF Closed
<1>11. a.kind = "Equal" => c[a.left] = c[a.right] BY <1>2, <1>5
<1>12. a.kind = "Value" => d[a.left] \subseteq {a.right} BY <1>2, <1>4
<1> QED BY <1>10, <1>11, <1>12

-----------------------------------------------------------------------------
(* A state is right for a path, and for the first k equalities of the      *)
(* problem, when it obeys them and holds nothing but what they force on    *)
(* everything that is closed under the path.                               *)
Obeys(p, s, walk, k) ==
    /\ \A i \in 1..k : FindIn(s, p.equalities[i][1]) = FindIn(s, p.equalities[i][2])
    /\ \A a \in Assumed(walk, "Equal") : FindIn(s, a.left) = FindIn(s, a.right)
    /\ \A t \in Terms(p) : s.domain[FindIn(s, t)] \subseteq DomainOf(p, t)
    /\ \A a \in Assumed(walk, "Value") : s.domain[FindIn(s, a.left)] \subseteq {a.right}
    /\ Range(s.disequalities) = RawDisequalities(p, walk)

Forced(p, s, walk) ==
    \A c, d : Closed(p, walk, c, d) =>
        \A t \in Terms(p) : c[s.parent[t]] = c[t] /\ d[t] \subseteq s.domain[FindIn(s, t)]

StateIsRight(p, s, walk, k) == Grounded(p, s) /\ Obeys(p, s, walk, k) /\ Forced(p, s, walk)

(* Classes may grow and their values become fewer.                         *)
Coarser(p, s, s2) ==
    /\ \A t, u \in Terms(p) : FindIn(s, t) = FindIn(s, u) => FindIn(s2, t) = FindIn(s2, u)
    /\ \A t \in Terms(p) : s2.domain[FindIn(s2, t)] \subseteq s.domain[FindIn(s, t)]
    /\ s2.disequalities = s.disequalities

LEMMA CoarserObeys ==
    ASSUME NEW p, WellFormed(p), NEW s, NEW s2, NEW walk \in Seq(AssumptionOf(p)),
           NEW k \in 0..Len(p.equalities), Obeys(p, s, walk, k), Coarser(p, s, s2)
    PROVE  Obeys(p, s2, walk, k)
<1> DEFINE T == Terms(p)
<1>1. \A i \in 1..k : p.equalities[i][1] \in T /\ p.equalities[i][2] \in T
  <2>1. p.equalities \in Seq(T \X T) BY DEF WellFormed
  <2> HIDE DEF T
  <2> QED BY <2>1
<1>2. \A a \in Assumed(walk, "Equal") : a.left \in T /\ a.right \in T
      BY DEF Assumed, Range, AssumptionOf
<1>3. \A a \in Assumed(walk, "Value") : a.left \in T BY DEF Assumed, Range, AssumptionOf
<1>4. /\ \A t, u \in T : FindIn(s, t) = FindIn(s, u) => FindIn(s2, t) = FindIn(s2, u)
      /\ \A t \in T : s2.domain[FindIn(s2, t)] \subseteq s.domain[FindIn(s, t)]
      /\ s2.disequalities = s.disequalities
      BY DEF Coarser
<1> HIDE DEF T
<1>5. \A i \in 1..k : FindIn(s2, p.equalities[i][1]) = FindIn(s2, p.equalities[i][2])
      BY <1>1, <1>4 DEF Obeys
<1>6. \A a \in Assumed(walk, "Equal") : FindIn(s2, a.left) = FindIn(s2, a.right)
      BY <1>2, <1>4 DEF Obeys
<1>7. \A t \in T : s2.domain[FindIn(s2, t)] \subseteq DomainOf(p, t)
      BY <1>4 DEF Obeys, T
<1>8. \A a \in Assumed(walk, "Value") : s2.domain[FindIn(s2, a.left)] \subseteq {a.right}
      BY <1>3, <1>4 DEF Obeys
<1>9. Range(s2.disequalities) = RawDisequalities(p, walk) BY <1>4 DEF Obeys
<1> QED BY <1>5, <1>6, <1>7, <1>8, <1>9 DEF Obeys, T

LEMMA JoinedIsCoarser ==
    ASSUME NEW p, NEW s, NEW s2, NEW x, NEW y, Joined(p, s, s2, x, y),
           s2.disequalities = s.disequalities
    PROVE  Coarser(p, s, s2)
<1>1. PICK root \in {x, y} :
          \A t \in Terms(p) :
             FindIn(s2, t) = IF FindIn(s, t) \in {x, y} THEN root ELSE FindIn(s, t)
      BY DEF Joined
<1>2. \A t, u \in Terms(p) : FindIn(s, t) = FindIn(s, u) => FindIn(s2, t) = FindIn(s2, u)
      BY <1>1
<1>3. \A t \in Terms(p) : s2.domain[FindIn(s2, t)]
                            = IF FindIn(s, t) \in {x, y} THEN s.domain[x] \cap s.domain[y]
                              ELSE s.domain[FindIn(s, t)]
      BY DEF Joined
<1>4. \A t \in Terms(p) : s2.domain[FindIn(s2, t)] \subseteq s.domain[FindIn(s, t)]
      BY <1>3
<1> QED BY <1>2, <1>4 DEF Coarser

LEMMA NarrowedIsCoarser ==
    ASSUME NEW p, NEW s, NEW s2, NEW t, NEW values, Narrowed(p, s, s2, t, values),
           s2.disequalities = s.disequalities
    PROVE  Coarser(p, s, s2)
BY DEF Narrowed, Coarser

(* What is closed sees no difference between a term and its root.          *)
LEMMA ForcedClasses ==
    ASSUME NEW p, NEW s, Grounded(p, s), NEW walk, Forced(p, s, walk),
           NEW c, NEW d, Closed(p, walk, c, d)
    PROVE  /\ \A t \in Terms(p) : c[FindIn(s, t)] = c[t] /\ d[t] \subseteq s.domain[FindIn(s, t)]
           /\ \A t, u \in Terms(p) : FindIn(s, t) = FindIn(s, u) => c[t] = c[u] /\ d[t] = d[u]
<1>1. \A t \in Terms(p) : c[s.parent[t]] = c[t] /\ d[t] \subseteq s.domain[FindIn(s, t)]
      BY DEF Forced
<1>2. IsTree(s.parent, Terms(p)) BY DEF Grounded
<1>3. \A t \in Terms(p) : c[FindIn(s, t)] = c[t] BY <1>1, <1>2, FindShares
<1>4. \A t, u \in Terms(p) : c[t] = c[u] => d[t] = d[u] BY DEF Closed
<1>5. \A t, u \in Terms(p) : FindIn(s, t) = FindIn(s, u) => c[t] = c[u] BY <1>3
<1> QED BY <1>1, <1>3, <1>4, <1>5

LEMMA ForcedUnion ==
    ASSUME NEW p, NEW s, Grounded(p, s), NEW walk, Forced(p, s, walk),
           NEW x \in Terms(p), NEW y \in Terms(p),
           NEW s2, Joined(p, s, s2, FindIn(s, x), FindIn(s, y)),
           \A c, d : Closed(p, walk, c, d) => c[x] = c[y]
    PROVE  Forced(p, s2, walk)
<1> DEFINE T == Terms(p)
           a == FindIn(s, x)
           b == FindIn(s, y)
<1>1. SUFFICES ASSUME NEW c, NEW d, Closed(p, walk, c, d), NEW t \in T
               PROVE  c[s2.parent[t]] = c[t] /\ d[t] \subseteq s2.domain[FindIn(s2, t)]
      BY DEF Forced
<1>2. /\ \A u \in T : c[FindIn(s, u)] = c[u] /\ d[u] \subseteq s.domain[FindIn(s, u)]
      /\ \A u, v \in T : FindIn(s, u) = FindIn(s, v) => c[u] = c[v] /\ d[u] = d[v]
      BY <1>1, ForcedClasses
<1>3. c[x] = c[y] /\ d[x] = d[y]
  <2>1. c[x] = c[y] BY <1>1
  <2> QED BY <1>1, <2>1 DEF Closed
<1>4. c[a] = c[b] BY <1>2, <1>3
<1>5. c[s.parent[t]] = c[t] BY <1>1 DEF Forced
<1>6. s2.parent[t] = s.parent[t] \/ {t, s2.parent[t]} = {a, b} BY DEF Joined
<1>7. s2.domain[FindIn(s2, t)] = IF FindIn(s, t) \in {a, b} THEN s.domain[a] \cap s.domain[b]
                                 ELSE s.domain[FindIn(s, t)]
      BY DEF Joined
<1>8. d[x] \subseteq s.domain[a] /\ d[y] \subseteq s.domain[b] BY <1>2
<1>9. c[s2.parent[t]] = c[t]
  <2> HIDE DEF a, b, T
  <2>1. CASE s2.parent[t] = s.parent[t] BY <1>5, <2>1
  <2>2. CASE {t, s2.parent[t]} = {a, b}
    <3>1. (t = a /\ s2.parent[t] = b) \/ (t = b /\ s2.parent[t] = a) \/ s2.parent[t] = t BY <2>2
    <3> QED BY <1>4, <3>1
  <2> QED BY <1>6, <2>1, <2>2
<1>10. d[t] \subseteq s2.domain[FindIn(s2, t)]
  <2>1. CASE FindIn(s, t) = a
    <3>1. d[t] = d[x] BY <1>2, <2>1
    <3> QED BY <1>3, <1>7, <1>8, <2>1, <3>1
  <2>2. CASE FindIn(s, t) = b
    <3>1. d[t] = d[y] BY <1>2, <2>2
    <3> QED BY <1>3, <1>7, <1>8, <2>2, <3>1
  <2>3. CASE FindIn(s, t) \notin {a, b} BY <1>2, <1>7, <2>3
  <2> QED BY <2>1, <2>2, <2>3
<1> QED BY <1>9, <1>10

LEMMA ForcedNarrowed ==
    ASSUME NEW p, NEW s, Grounded(p, s), NEW walk, Forced(p, s, walk),
           NEW x \in Terms(p), NEW values, NEW s2, Narrowed(p, s, s2, x, values),
           \A c, d : Closed(p, walk, c, d) => d[x] \subseteq values
    PROVE  Forced(p, s2, walk)
<1> DEFINE T == Terms(p)
<1>1. SUFFICES ASSUME NEW c, NEW d, Closed(p, walk, c, d), NEW t \in T
               PROVE  c[s2.parent[t]] = c[t] /\ d[t] \subseteq s2.domain[FindIn(s2, t)]
      BY DEF Forced
<1>2. /\ \A u \in T : c[FindIn(s, u)] = c[u] /\ d[u] \subseteq s.domain[FindIn(s, u)]
      /\ \A u, v \in T : FindIn(s, u) = FindIn(s, v) => c[u] = c[v] /\ d[u] = d[v]
      BY <1>1, ForcedClasses
<1>3. d[x] \subseteq values BY <1>1
<1>4. c[s.parent[t]] = c[t] BY <1>1 DEF Forced
<1>5. s2.parent = s.parent
      /\ s2.domain[FindIn(s2, t)] = IF FindIn(s, t) = FindIn(s, x)
                                    THEN s.domain[FindIn(s, x)] \cap values
                                    ELSE s.domain[FindIn(s, t)]
      BY DEF Narrowed
<1>6. d[t] \subseteq s2.domain[FindIn(s2, t)]
  <2>1. CASE FindIn(s, t) = FindIn(s, x)
    <3>1. d[t] = d[x] BY <1>2, <2>1
    <3> QED BY <1>2, <1>3, <1>5, <2>1, <3>1
  <2>2. CASE FindIn(s, t) # FindIn(s, x) BY <1>2, <1>5, <2>2
  <2> QED BY <2>1, <2>2
<1> QED BY <1>4, <1>5, <1>6

LEMMA UnionIsRight ==
    ASSUME NEW p, WellFormed(p), NEW walk \in Seq(AssumptionOf(p)),
           NEW k \in 0..Len(p.equalities), NEW s, StateIsRight(p, s, walk, k),
           NEW x \in Terms(p), NEW y \in Terms(p), FindIn(s, x) # FindIn(s, y),
           \A c, d : Closed(p, walk, c, d) => c[x] = c[y]
    PROVE  LET s2 == UnionIn(s, x, y)
           IN  /\ StateIsRight(p, s2, walk, k) /\ PushedOne(p, s, s2)
               /\ FindIn(s2, x) = FindIn(s2, y)
<1> DEFINE s2 == UnionIn(s, x, y)
<1>1. Grounded(p, s) /\ Obeys(p, s, walk, k) /\ Forced(p, s, walk) BY DEF StateIsRight
<1>2. Grounded(p, s2) /\ PushedOne(p, s, s2) /\ Joined(p, s, s2, FindIn(s, x), FindIn(s, y))
      BY <1>1, UnionFacts
<1> HIDE DEF s2
<1>3. s2.disequalities = s.disequalities BY <1>2 DEF PushedOne, Pushed
<1>4. Coarser(p, s, s2) BY <1>2, <1>3, JoinedIsCoarser
<1>5. Obeys(p, s2, walk, k) BY <1>1, <1>4, CoarserObeys
<1>6. Forced(p, s2, walk) BY <1>1, <1>2, ForcedUnion
<1>7. FindIn(s2, x) = FindIn(s2, y)
  <2>1. PICK root \in {FindIn(s, x), FindIn(s, y)} :
            \A t \in Terms(p) :
               FindIn(s2, t) = IF FindIn(s, t) \in {FindIn(s, x), FindIn(s, y)} THEN root
                               ELSE FindIn(s, t)
        BY <1>2 DEF Joined
  <2> QED BY <2>1
<1> QED BY <1>2, <1>5, <1>6, <1>7 DEF StateIsRight, s2

LEMMA RestrictedIsRight ==
    ASSUME NEW p, WellFormed(p), NEW walk \in Seq(AssumptionOf(p)),
           NEW k \in 0..Len(p.equalities), NEW s, StateIsRight(p, s, walk, k),
           NEW x \in Terms(p), NEW values,
           \A c, d : Closed(p, walk, c, d) => d[x] \subseteq values
    PROVE  LET s2 == Restricted(s, x, values)
           IN  /\ StateIsRight(p, s2, walk, k) /\ PushedOne(p, s, s2)
               /\ s2.domain[FindIn(s2, x)] \subseteq values
<1> DEFINE s2 == Restricted(s, x, values)
<1>1. Grounded(p, s) /\ Obeys(p, s, walk, k) /\ Forced(p, s, walk) BY DEF StateIsRight
<1>2. Grounded(p, s2) /\ PushedOne(p, s, s2) /\ Narrowed(p, s, s2, x, values)
      BY <1>1, RestrictedFacts
<1> HIDE DEF s2
<1>3. s2.disequalities = s.disequalities BY <1>2 DEF PushedOne, Pushed
<1>4. Coarser(p, s, s2) BY <1>2, <1>3, NarrowedIsCoarser
<1>5. Obeys(p, s2, walk, k) BY <1>1, <1>4, CoarserObeys
<1>6. Forced(p, s2, walk) BY <1>1, <1>2, ForcedNarrowed
<1>7. s2.domain[FindIn(s2, x)] \subseteq values BY <1>2 DEF Narrowed
<1> QED BY <1>2, <1>5, <1>6, <1>7 DEF StateIsRight, s2

(* The assumption of a branch.                                             *)
LEMMA ForcedLonger ==
    ASSUME NEW p, NEW s, NEW S, NEW walk \in Seq(S), NEW a \in S, Forced(p, s, walk)
    PROVE  Forced(p, s, Append(walk, a))
<1>1. ASSUME NEW c, NEW d, Closed(p, Append(walk, a), c, d) PROVE Closed(p, walk, c, d)
      BY <1>1, ClosedShorter
<1> QED BY <1>1 DEF Forced

LEMMA ObeysAssumption ==
    ASSUME NEW p, NEW walk \in Seq(AssumptionOf(p)), NEW a \in AssumptionOf(p), NEW k,
           NEW s, Obeys(p, s, walk, k),
           a.kind = "Equal" => FindIn(s, a.left) = FindIn(s, a.right),
           a.kind = "Value" => s.domain[FindIn(s, a.left)] \subseteq {a.right},
           a.kind # "Distinct"
    PROVE  Obeys(p, s, Append(walk, a), k)
<1> DEFINE longer == Append(walk, a)
<1>1. LongerBy(p, walk, a, longer) BY LongerPath
<1> HIDE DEF longer
<1>2. /\ Assumed(longer, "Equal")
           = Assumed(walk, "Equal") \cup (IF a.kind = "Equal" THEN {a} ELSE {})
      /\ Assumed(longer, "Value")
           = Assumed(walk, "Value") \cup (IF a.kind = "Value" THEN {a} ELSE {})
      /\ RawDisequalities(p, longer) = RawDisequalities(p, walk)
      BY <1>1 DEF LongerBy
<1>3. \A b \in Assumed(longer, "Equal") : FindIn(s, b.left) = FindIn(s, b.right)
      BY <1>2 DEF Obeys
<1>4. \A b \in Assumed(longer, "Value") : s.domain[FindIn(s, b.left)] \subseteq {b.right}
      BY <1>2 DEF Obeys
<1>5. Obeys(p, s, longer, k) BY <1>2, <1>3, <1>4 DEF Obeys
<1> QED BY <1>5 DEF longer

LEMMA ObeysSeparation ==
    ASSUME NEW p, WellFormed(p), NEW walk \in Seq(AssumptionOf(p)), NEW a \in AssumptionOf(p),
           NEW k \in 0..Len(p.equalities),
           NEW s, Grounded(p, s), Obeys(p, s, walk, k), a.kind = "Distinct"
    PROVE  LET pair == OrderedPair(a.left, a.right)
           IN  /\ pair \in Terms(p) \X Terms(p)
               /\ Obeys(p, With(s, Append(s.disequalities, pair)), Append(walk, a), k)
<1> DEFINE T == Terms(p)
           longer == Append(walk, a)
           pair == OrderedPair(a.left, a.right)
           d == Append(s.disequalities, pair)
           s2 == With(s, d)
<1>1. LongerBy(p, walk, a, longer) BY LongerPath
<1> HIDE DEF longer
<1>2. /\ Assumed(longer, "Equal") = Assumed(walk, "Equal")
      /\ Assumed(longer, "Value") = Assumed(walk, "Value")
      /\ RawDisequalities(p, longer) = RawDisequalities(p, walk) \cup {pair}
      BY <1>1 DEF LongerBy
<1>3. pair \in T \X T BY DEF AssumptionOf, OrderedPair
<1>4. s \in StateOf(p) BY DEF Grounded
<1>5. s.disequalities \in Seq(T \X T) BY <1>4, StateFields
<1> HIDE DEF pair
<1>6. d \in Seq(T \X T) /\ Range(d) = Range(s.disequalities) \cup {pair}
      BY <1>3, <1>5, RangeAppend
<1> HIDE DEF d, T
<1>7. d \in Seq(Terms(p) \X Terms(p)) BY <1>6 DEF T
<1>19. /\ Grounded(p, s2) /\ s2.parent = s.parent /\ s2.domain = s.domain
       /\ \A t \in Terms(p) : FindIn(s2, t) = FindIn(s, t)
       BY <1>7, WithFacts
<1>8. s2.domain = s.domain /\ \A t \in T : FindIn(s2, t) = FindIn(s, t) BY <1>19 DEF T
<1>9. s2.disequalities = d BY <1>4 DEF With, StateOf
<1> HIDE DEF s2
<1>10. \A i \in 1..k : p.equalities[i][1] \in T /\ p.equalities[i][2] \in T
  <2>1. p.equalities \in Seq(T \X T) BY DEF WellFormed, T
  <2> QED BY <2>1
<1>11. \A b \in Assumed(walk, "Equal") : b.left \in T /\ b.right \in T
       BY DEF Assumed, Range, AssumptionOf, T
<1>12. \A b \in Assumed(walk, "Value") : b.left \in T BY DEF Assumed, Range, AssumptionOf, T
<1>13. \A i \in 1..k : FindIn(s2, p.equalities[i][1]) = FindIn(s2, p.equalities[i][2])
       BY <1>8, <1>10 DEF Obeys
<1>14. \A b \in Assumed(longer, "Equal") : FindIn(s2, b.left) = FindIn(s2, b.right)
       BY <1>2, <1>8, <1>11 DEF Obeys
<1>15. \A t \in T : s2.domain[FindIn(s2, t)] \subseteq DomainOf(p, t) BY <1>8 DEF Obeys, T
<1>16. \A b \in Assumed(longer, "Value") : s2.domain[FindIn(s2, b.left)] \subseteq {b.right}
       BY <1>2, <1>8, <1>12 DEF Obeys
<1>17. Range(s2.disequalities) = RawDisequalities(p, longer) BY <1>2, <1>6, <1>9 DEF Obeys
<1>18. Obeys(p, s2, longer, k) BY <1>13, <1>14, <1>15, <1>16, <1>17 DEF Obeys, T
<1> QED BY <1>3, <1>18 DEF s2, d, pair, longer, T

Applied(s, a) ==
    CASE a.kind = "Equal" -> UnionIn(s, a.left, a.right)
      [] a.kind = "Distinct" -> Separated(s, a.left, a.right)
      [] a.kind = "Value" -> Restricted(s, a.left, {a.right})

(* A change that a rollback to an earlier snapshot does not see.           *)
Later(p, s, s2) ==
    \/ PushedOne(p, s, s2)
    \/ \E pair \in Terms(p) \X Terms(p) : s2 = With(s, Append(s.disequalities, pair))

LEMMA BranchIsRight ==
    ASSUME NEW p, WellFormed(p), NEW walk \in Seq(AssumptionOf(p)), NEW a \in AssumptionOf(p),
           NEW k \in 0..Len(p.equalities), NEW s, StateIsRight(p, s, walk, k),
           a.kind = "Equal" => FindIn(s, a.left) # FindIn(s, a.right)
    PROVE  StateIsRight(p, Applied(s, a), Append(walk, a), k) /\ Later(p, s, Applied(s, a))
<1> DEFINE longer == Append(walk, a)
           s2 == Applied(s, a)
<1>1. Grounded(p, s) /\ Obeys(p, s, walk, k) /\ Forced(p, s, walk) BY DEF StateIsRight
<1>2. longer \in Seq(AssumptionOf(p)) OBVIOUS
<1>3. Forced(p, s, longer) BY <1>1, ForcedLonger
<1>4. a.left \in Terms(p) /\ (a.kind # "Value" => a.right \in Terms(p))
      /\ a.kind \in {"Equal", "Distinct", "Value"}
      BY DEF AssumptionOf, Assumption
<1>5. ASSUME NEW c, NEW d, Closed(p, longer, c, d)
      PROVE  /\ Closed(p, walk, c, d)
             /\ a.kind = "Equal" => c[a.left] = c[a.right]
             /\ a.kind = "Value" => d[a.left] \subseteq {a.right}
      BY <1>5, ClosedShorter
<1> HIDE DEF longer
<1>6. CASE a.kind = "Equal"
  <2> DEFINE x == a.left
             y == a.right
  <2>1. s2 = UnionIn(s, x, y) BY <1>6 DEF Applied
  <2>2. x \in Terms(p) /\ y \in Terms(p) /\ FindIn(s, x) # FindIn(s, y) BY <1>4, <1>6
  <2>3. \A c, d : Closed(p, longer, c, d) => c[x] = c[y] BY <1>5, <1>6
  <2> HIDE DEF x, y, s2
  <2>4. Grounded(p, s2) /\ PushedOne(p, s, s2) /\ Joined(p, s, s2, FindIn(s, x), FindIn(s, y))
        BY <1>1, <2>1, <2>2, UnionFacts
  <2>5. s2.disequalities = s.disequalities BY <2>4 DEF PushedOne, Pushed
  <2>6. Coarser(p, s, s2) BY <2>4, <2>5, JoinedIsCoarser
  <2>7. Obeys(p, s2, walk, k) BY <1>1, <2>6, CoarserObeys
  <2>8. FindIn(s2, x) = FindIn(s2, y)
    <3>1. PICK root \in {FindIn(s, x), FindIn(s, y)} :
              \A t \in Terms(p) :
                 FindIn(s2, t) = IF FindIn(s, t) \in {FindIn(s, x), FindIn(s, y)} THEN root
                                 ELSE FindIn(s, t)
          BY <2>4 DEF Joined
    <3> QED BY <2>2, <3>1
  <2>9. Obeys(p, s2, longer, k) BY <1>6, <2>7, <2>8, ObeysAssumption DEF x, y, longer
  <2>10. Forced(p, s2, longer) BY <1>1, <1>3, <2>2, <2>3, <2>4, ForcedUnion
  <2> QED BY <2>4, <2>9, <2>10 DEF StateIsRight, Later, s2, longer
<1>7. CASE a.kind = "Value"
  <2> DEFINE x == a.left
             values == {a.right}
  <2>1. s2 = Restricted(s, x, values) BY <1>7 DEF Applied
  <2>2. x \in Terms(p) BY <1>4
  <2>3. \A c, d : Closed(p, longer, c, d) => d[x] \subseteq values BY <1>5, <1>7
  <2> HIDE DEF x, values, s2
  <2>4. Grounded(p, s2) /\ PushedOne(p, s, s2) /\ Narrowed(p, s, s2, x, values)
        BY <1>1, <2>1, <2>2, RestrictedFacts
  <2>5. s2.disequalities = s.disequalities BY <2>4 DEF PushedOne, Pushed
  <2>6. Coarser(p, s, s2) BY <2>4, <2>5, NarrowedIsCoarser
  <2>7. Obeys(p, s2, walk, k) BY <1>1, <2>6, CoarserObeys
  <2>8. s2.domain[FindIn(s2, x)] \subseteq values BY <2>2, <2>4 DEF Narrowed
  <2>9. Obeys(p, s2, longer, k) BY <1>7, <2>7, <2>8, ObeysAssumption DEF x, values, longer
  <2>10. Forced(p, s2, longer) BY <1>1, <1>3, <2>2, <2>3, <2>4, ForcedNarrowed
  <2> QED BY <2>4, <2>9, <2>10 DEF StateIsRight, Later, s2, longer
<1>8. CASE a.kind = "Distinct"
  <2> DEFINE pair == OrderedPair(a.left, a.right)
             d == Append(s.disequalities, pair)
  <2>1. s2 = With(s, d) BY <1>8 DEF Applied, Separated, With
  <2>2. pair \in Terms(p) \X Terms(p) /\ Obeys(p, With(s, d), longer, k)
        BY <1>1, <1>8, ObeysSeparation DEF longer
  <2>3. s \in StateOf(p) BY <1>1 DEF Grounded
  <2>4. s.disequalities \in Seq(Terms(p) \X Terms(p)) BY <2>3, StateFields
  <2> HIDE DEF pair
  <2>5. d \in Seq(Terms(p) \X Terms(p)) BY <2>2, <2>4
  <2>6. Later(p, s, s2) BY <2>1, <2>2 DEF Later
  <2> HIDE DEF d, s2
  <2>7. /\ Grounded(p, s2) /\ s2.parent = s.parent /\ s2.domain = s.domain
        /\ \A t \in Terms(p) : FindIn(s2, t) = FindIn(s, t)
        BY <1>1, <2>1, <2>5, WithFacts
  <2>8. Forced(p, s2, longer) BY <1>3, <2>7 DEF Forced
  <2>9. Obeys(p, s2, longer, k) BY <2>1, <2>2
  <2> QED BY <2>6, <2>7, <2>8, <2>9 DEF StateIsRight, s2, longer
<1> QED BY <1>4, <1>6, <1>7, <1>8

LEMMA NewStateIsRight ==
    ASSUME NEW p, WellFormed(p)
    PROVE  StateIsRight(p, NewState(p), <<>>, 0)
<1> DEFINE T == Terms(p)
           s == NewState(p)
           pairs == {OrderedPair(pair[1], pair[2]) : pair \in Range(p.disequalities)}
<1>1. IsFiniteSet(T) /\ T \in SUBSET Nat BY WellFormedFinite
<1>2. pairs \in SUBSET (T \X T)
  <2>1. \A pair \in Range(p.disequalities) : pair[1] \in T /\ pair[2] \in T
        BY DEF WellFormed, Range
  <2> QED BY <2>1 DEF OrderedPair
<1>3. IsFiniteSet(pairs)
  <2>1. IsFiniteSet(T \X T) BY <1>1, FS_Product
  <2> QED BY <1>2, <2>1, FS_Subset
<1>4. s.disequalities = [i \in 1..Cardinality(pairs) |->
                           CHOOSE x \in pairs : Cardinality({y \in pairs : Before(y, x)}) = i - 1]
      BY DEF NewState, BaseDisequalities
<1>5. s.disequalities \in Seq(pairs) /\ Range(s.disequalities) = pairs
  <2>1. pairs \in SUBSET (Nat \X Nat) BY <1>1, <1>2
  <2> HIDE DEF pairs, s
  <2> QED BY <1>3, <1>4, <2>1, SortedPairs
<1>6. Assumed(<<>>, "Distinct") = {} /\ Assumed(<<>>, "Equal") = {} /\ Assumed(<<>>, "Value") = {}
      BY DEF Assumed, Range
<1>7. Range(s.disequalities) = RawDisequalities(p, <<>>) BY <1>5, <1>6 DEF RawDisequalities
<1>8. /\ s.parent = [t \in T |-> t] /\ s.size = [t \in T |-> 1]
      /\ s.domain = [t \in T |-> DomainOf(p, t)] /\ s.trail = <<>>
      /\ s = [parent |-> s.parent, size |-> s.size, domain |-> s.domain,
              disequalities |-> s.disequalities, trail |-> s.trail]
      BY DEF NewState
<1> HIDE DEF s, pairs
<1>9. s \in StateOf(p)
  <2>1. s.disequalities \in Seq(T \X T) BY <1>2, <1>5
  <2>2. s.parent \in [T -> T] /\ s.size \in [T -> Nat] /\ s.trail \in Seq(TrailEntry(p)) BY <1>8
  <2>3. s.domain \in [T -> SUBSET Carrier(p)] BY <1>8 DEF WellFormed
  <2> QED BY <1>8, <2>1, <2>2, <2>3 DEF StateOf
<1>10. IsTree(s.parent, T)
  <2> DEFINE h == [t \in T |-> 0]
  <2>1. h \in [T -> 0..0] /\ \A t \in T : s.parent[t] # t => h[s.parent[t]] < h[t] BY <1>8
  <2>2. s.parent \in [T -> T] BY <1>8
  <2> HIDE DEF h
  <2> QED BY <2>1, <2>2 DEF IsTree
<1>11. \A t \in T : FindIn(s, t) = t
  <2>1. \A t \in T : s.parent[t] = t BY <1>8
  <2> QED BY <1>10, <2>1, FindRecursion
<1>12. ASSUME NEW r \in T PROVE s.size[r] = Cardinality(ClassIn(s, T, r))
  <2>1. ClassIn(s, T, r) = {r} BY <1>11 DEF ClassIn
  <2>2. Cardinality({r}) = 1 BY FS_Singleton
  <2> QED BY <1>8, <2>1, <2>2
<1>13. Grounded(p, s) BY <1>9, <1>10, <1>12 DEF Grounded
<1>14. Obeys(p, s, <<>>, 0) BY <1>6, <1>7, <1>8, <1>11 DEF Obeys
<1>15. Forced(p, s, <<>>)
  <2>1. ASSUME NEW c, NEW d, Closed(p, <<>>, c, d), NEW t \in T
        PROVE  c[s.parent[t]] = c[t] /\ d[t] \subseteq s.domain[FindIn(s, t)]
        BY <1>8, <1>11, <2>1 DEF Closed
  <2> QED BY <2>1 DEF Forced
<1> QED BY <1>13, <1>14, <1>15 DEF StateIsRight, s

(* One more equality of the problem.                                       *)
LEMMA NextEquality ==
    ASSUME NEW p, WellFormed(p), NEW k \in 0..(Len(p.equalities) - 1), NEW s,
           StateIsRight(p, s, <<>>, k)
    PROVE  LET pair == p.equalities[k + 1]
               s2 == UnionIn(s, pair[1], pair[2])
           IN  /\ FindIn(s, pair[1]) = FindIn(s, pair[2]) => StateIsRight(p, s, <<>>, k + 1)
               /\ FindIn(s, pair[1]) # FindIn(s, pair[2])
                    => StateIsRight(p, s2, <<>>, k + 1) /\ PushedOne(p, s, s2)
<1> DEFINE pair == p.equalities[k + 1]
           x == pair[1]
           y == pair[2]
           s2 == UnionIn(s, x, y)
<1>1. p.equalities \in Seq(Terms(p) \X Terms(p)) BY DEF WellFormed
<1>2. k + 1 \in 1..Len(p.equalities) /\ k \in 0..Len(p.equalities) BY <1>1
<1>3. pair \in Terms(p) \X Terms(p) /\ pair \in Range(p.equalities) BY <1>1, <1>2 DEF Range
<1>4. x \in Terms(p) /\ y \in Terms(p) BY <1>3
<1>5. \A c, d : Closed(p, <<>>, c, d) => c[x] = c[y] BY <1>3 DEF Closed, Respects
<1>6. ASSUME NEW u, StateIsRight(p, u, <<>>, k), FindIn(u, x) = FindIn(u, y)
      PROVE  StateIsRight(p, u, <<>>, k + 1)
  <2>1. \A i \in 1..(k + 1) : i \in 1..k \/ i = k + 1 BY <1>2
  <2>2. \A i \in 1..(k + 1) : FindIn(u, p.equalities[i][1]) = FindIn(u, p.equalities[i][2])
        BY <1>6, <2>1 DEF StateIsRight, Obeys
  <2>3. Obeys(p, u, <<>>, k + 1) BY <1>6, <2>2 DEF StateIsRight, Obeys
  <2> QED BY <1>6, <2>3 DEF StateIsRight
<1>7. ASSUME FindIn(s, x) # FindIn(s, y)
      PROVE  StateIsRight(p, s2, <<>>, k) /\ PushedOne(p, s, s2) /\ FindIn(s2, x) = FindIn(s2, y)
  <2> DEFINE walk == <<>>
  <2>1. walk \in Seq(AssumptionOf(p)) OBVIOUS
  <2>2. k \in 0..Len(p.equalities) BY <1>2
  <2>3. x \in Terms(p) BY <1>4
  <2>4. y \in Terms(p) BY <1>4
  <2>5. StateIsRight(p, s, walk, k) OBVIOUS
  <2>6. \A c, d : Closed(p, walk, c, d) => c[x] = c[y] BY <1>5
  <2>8. FindIn(s, x) # FindIn(s, y) BY <1>7
  <2> HIDE DEF x, y, pair, walk
  <2>7. /\ StateIsRight(p, UnionIn(s, x, y), walk, k) /\ PushedOne(p, s, UnionIn(s, x, y))
        /\ FindIn(UnionIn(s, x, y), x) = FindIn(UnionIn(s, x, y), y)
        BY <2>1, <2>2, <2>3, <2>4, <2>5, <2>6, <2>8, UnionIsRight
  <2> QED BY <2>7 DEF walk
<1> HIDE DEF s2
<1>8. FindIn(s, x) # FindIn(s, y) => StateIsRight(p, s2, <<>>, k + 1) /\ PushedOne(p, s, s2)
      BY <1>6, <1>7
<1>9. FindIn(s, x) = FindIn(s, y) => StateIsRight(p, s, <<>>, k + 1) BY <1>6
<1> QED BY <1>8, <1>9 DEF s2

-----------------------------------------------------------------------------
(* Propagation: what it merges, restricts or finds in conflict is forced.  *)

(* Two applications of one function to arguments of the same classes.      *)
SameSignature(s, i, j) ==
    /\ problem.apps[i].fun = problem.apps[j].fun
    /\ \A k \in DOMAIN problem.apps[i].args :
          FindIn(s, problem.apps[i].args[k]) = FindIn(s, problem.apps[j].args[k])

LEMMA SignatureFacts ==
    ASSUME WellFormed(problem), NEW s, NEW i \in DOMAIN problem.apps, NEW j \in DOMAIN problem.apps
    PROVE  Signature(s, problem.apps[i]) = Signature(s, problem.apps[j]) <=> SameSignature(s, i, j)
<1> DEFINE a == problem.apps[i]
           b == problem.apps[j]
           f == [k \in DOMAIN a.args |-> FindIn(s, a.args[k])]
           g == [k \in DOMAIN b.args |-> FindIn(s, b.args[k])]
<1>1. /\ a.args \in Seq(Terms(problem)) /\ Len(a.args) = problem.arities[a.fun]
      /\ b.args \in Seq(Terms(problem)) /\ Len(b.args) = problem.arities[b.fun]
      BY DEF WellFormed
<1>2. Signature(s, a) = [fun |-> a.fun, args |-> f] /\ Signature(s, b) = [fun |-> b.fun, args |-> g]
      BY DEF Signature
<1>3. ASSUME a.fun = b.fun PROVE DOMAIN a.args = DOMAIN b.args
  <2>1. Len(a.args) = Len(b.args) BY <1>1, <1>3
  <2>2. DOMAIN a.args = 1..Len(a.args) /\ DOMAIN b.args = 1..Len(b.args) BY <1>1
  <2> QED BY <2>1, <2>2
<1>4. ASSUME Signature(s, a) = Signature(s, b) PROVE SameSignature(s, i, j)
  <2> HIDE DEF f, g
  <2>1. a.fun = b.fun /\ f = g BY <1>2, <1>4
  <2>2. \A k \in DOMAIN a.args : f[k] = FindIn(s, a.args[k]) BY DEF f
  <2>3. \A k \in DOMAIN b.args : g[k] = FindIn(s, b.args[k]) BY DEF g
  <2>4. \A k \in DOMAIN a.args : FindIn(s, a.args[k]) = FindIn(s, b.args[k])
        BY <1>3, <2>1, <2>2, <2>3
  <2> QED BY <2>1, <2>4 DEF SameSignature
<1>5. ASSUME SameSignature(s, i, j) PROVE Signature(s, a) = Signature(s, b)
  <2>1. a.fun = b.fun /\ \A k \in DOMAIN a.args : FindIn(s, a.args[k]) = FindIn(s, b.args[k])
        BY <1>5 DEF SameSignature
  <2>2. DOMAIN a.args = DOMAIN b.args BY <1>3, <2>1
  <2>3. f = g BY <2>1, <2>2
  <2> HIDE DEF f, g
  <2> QED BY <1>2, <2>1, <2>3
<1> QED BY <1>4, <1>5

Collides(s, i, j) ==
    SameSignature(s, i, j) /\ FindIn(s, problem.apps[i].result) # FindIn(s, problem.apps[j].result)

LEMMA CollisionsFacts ==
    ASSUME WellFormed(problem), NEW s
    PROVE  /\ \A pair \in Collisions(s) :
                 \E i, j \in DOMAIN problem.apps :
                    /\ Collides(s, i, j)
                    /\ pair[1] = problem.apps[i].result /\ pair[2] = problem.apps[j].result
           /\ Collisions(s) = {} => \A i, j \in DOMAIN problem.apps : ~Collides(s, i, j)
<1> DEFINE A == DOMAIN problem.apps
           signature == [i \in A |-> Signature(s, problem.apps[i])]
           Same(i) == {j \in DOMAIN signature : signature[j] = signature[i]}
           First(i) == Min(Same(i))
           late == {i \in DOMAIN signature :
                       FindIn(s, problem.apps[First(i)].result) # FindIn(s, problem.apps[i].result)}
<1>1. Collisions(s) = IF late = {} THEN {}
                      ELSE {<<problem.apps[First(Min(late))].result, problem.apps[Min(late)].result>>}
      BY DEF Collisions
<1>2. A \in SUBSET Nat
  <2>1. problem.apps \in Seq(Application) BY DEF WellFormed
  <2> QED BY <2>1
<1>3. DOMAIN signature = A /\ \A i \in A : signature[i] = Signature(s, problem.apps[i]) OBVIOUS
<1> HIDE DEF signature, A
<1>4. \A i, j \in A : signature[i] = signature[j] <=> SameSignature(s, i, j)
  <2> SUFFICES ASSUME NEW i \in A, NEW j \in A
               PROVE  signature[i] = signature[j] <=> SameSignature(s, i, j)
      OBVIOUS
  <2>1. Signature(s, problem.apps[i]) = Signature(s, problem.apps[j]) <=> SameSignature(s, i, j)
        BY SignatureFacts DEF A
  <2> QED BY <1>3, <2>1
<1>5. ASSUME NEW i \in A PROVE First(i) \in A /\ signature[First(i)] = signature[i]
  <2>1. Same(i) \in SUBSET Nat /\ i \in Same(i) BY <1>2, <1>3, <1>5
  <2> HIDE DEF Same
  <2>2. First(i) \in Same(i) BY <2>1, MinIsLeast
  <2> QED BY <1>3, <2>2 DEF Same
<1>6. \A i, j \in A : signature[i] = signature[j] => First(i) = First(j) OBVIOUS
<1> HIDE DEF First
<1>7. ASSUME late # {}
      PROVE  \E i, j \in A : Collides(s, i, j)
                 /\ i = First(Min(late)) /\ j = Min(late)
  <2> DEFINE j == Min(late)
  <2>1. late \in SUBSET Nat BY <1>2, <1>3
  <2>2. j \in late
    <3> HIDE DEF late
    <3> QED BY <1>7, <2>1, MinIsLeast
  <2>3. j \in A /\ FindIn(s, problem.apps[First(j)].result) # FindIn(s, problem.apps[j].result)
        BY <1>3, <2>2
  <2> HIDE DEF j
  <2>4. First(j) \in A /\ SameSignature(s, First(j), j) BY <1>4, <1>5, <2>3
  <2>5. Collides(s, First(j), j) BY <2>3, <2>4 DEF Collides
  <2>6. \E i, m \in A : Collides(s, i, m) /\ i = First(j) /\ m = j BY <2>3, <2>4, <2>5
  <2> QED BY <2>6 DEF j
<1>8. ASSUME NEW pair \in Collisions(s)
      PROVE  \E i, j \in A :
                /\ Collides(s, i, j)
                /\ pair[1] = problem.apps[i].result /\ pair[2] = problem.apps[j].result
  <2> HIDE DEF late
  <2>1. late # {} BY <1>1
  <2>2. PICK i, j \in A : Collides(s, i, j) /\ i = First(Min(late)) /\ j = Min(late)
        BY <1>7, <2>1
  <2>3. pair = <<problem.apps[i].result, problem.apps[j].result>> BY <1>1, <2>1, <2>2
  <2> QED BY <2>2, <2>3
<1>9. ASSUME Collisions(s) = {}, NEW i \in A, NEW j \in A PROVE ~Collides(s, i, j)
  <2>1. late = {} BY <1>1, <1>9
  <2>2. FindIn(s, problem.apps[First(i)].result) = FindIn(s, problem.apps[i].result)
        /\ FindIn(s, problem.apps[First(j)].result) = FindIn(s, problem.apps[j].result)
        BY <1>3, <2>1
  <2>3. SameSignature(s, i, j) => First(i) = First(j) BY <1>4, <1>6
  <2> QED BY <2>2, <2>3 DEF Collides
<1> QED BY <1>8, <1>9 DEF A

LEMMA CollisionForced ==
    ASSUME WellFormed(problem), NEW s, NEW walk \in Seq(AssumptionOf(problem)), NEW k,
           StateIsRight(problem, s, walk, k), NEW pair \in Collisions(s)
    PROVE  /\ pair[1] \in Terms(problem) /\ pair[2] \in Terms(problem)
           /\ FindIn(s, pair[1]) # FindIn(s, pair[2])
           /\ \A c, d : Closed(problem, walk, c, d) => c[pair[1]] = c[pair[2]]
<1>1. PICK i, j \in DOMAIN problem.apps :
          /\ Collides(s, i, j)
          /\ pair[1] = problem.apps[i].result /\ pair[2] = problem.apps[j].result
      BY CollisionsFacts
<1> DEFINE a == problem.apps[i]
           b == problem.apps[j]
<1>2. /\ a.args \in Seq(Terms(problem)) /\ Len(a.args) = problem.arities[a.fun]
      /\ b.args \in Seq(Terms(problem)) /\ Len(b.args) = problem.arities[b.fun]
      /\ a.result \in Terms(problem) /\ b.result \in Terms(problem)
      BY DEF WellFormed
<1>3. a.fun = b.fun /\ FindIn(s, a.result) # FindIn(s, b.result)
      /\ \A m \in DOMAIN a.args : FindIn(s, a.args[m]) = FindIn(s, b.args[m])
      BY <1>1 DEF Collides, SameSignature
<1>4. ASSUME NEW c, NEW d, Closed(problem, walk, c, d) PROVE c[a.result] = c[b.result]
  <2>1. Grounded(problem, s) /\ Forced(problem, s, walk) BY DEF StateIsRight
  <2>2. \A t, u \in Terms(problem) : FindIn(s, t) = FindIn(s, u) => c[t] = c[u]
        BY <1>4, <2>1, ForcedClasses
  <2>3. ASSUME NEW m \in DOMAIN a.args PROVE c[a.args[m]] = c[b.args[m]]
    <3>1. m \in 1..Len(a.args) /\ m \in 1..Len(b.args) BY <1>2, <1>3
    <3>2. a.args[m] \in Terms(problem) /\ b.args[m] \in Terms(problem) BY <1>2, <3>1
    <3> QED BY <1>3, <2>2, <3>2
  <2>4. Congruent(problem, c, i, j) BY <1>3, <2>3 DEF Congruent
  <2> QED BY <1>4, <2>4 DEF Closed
<1> QED BY <1>1, <1>2, <1>3, <1>4

LEMMA ForcedPairsFacts ==
    ASSUME WellFormed(problem), NEW s, NEW walk \in Seq(AssumptionOf(problem)), NEW k,
           StateIsRight(problem, s, walk, k), ForcedPairs(s) # {}
    PROVE  LET pair == FirstPair(ForcedPairs(s))
           IN  /\ pair[1] \in Terms(problem) /\ pair[2] \in Terms(problem)
               /\ FindIn(s, pair[1]) = pair[1] /\ FindIn(s, pair[2]) = pair[2] /\ pair[1] # pair[2]
               /\ \A c, d : Closed(problem, walk, c, d) => c[pair[1]] = c[pair[2]]
<1> DEFINE T == Terms(problem)
           pair == FirstPair(ForcedPairs(s))
           x == pair[1]
           y == pair[2]
<1>1. T \in SUBSET Nat /\ IsFiniteSet(Carrier(problem)) BY WellFormedFinite
<1>2. Grounded(problem, s) /\ Forced(problem, s, walk) BY DEF StateIsRight
<1>3. s \in StateOf(problem) /\ IsTree(s.parent, T) BY <1>2 DEF Grounded
<1>4. s.parent \in [T -> T] /\ s.domain \in [T -> SUBSET Carrier(problem)]
  <2>1. s \in StateOf(problem) BY <1>3
  <2> QED BY <2>1, StateFields
<1>5. RootsIn(s) \in SUBSET T BY <1>4 DEF RootsIn
<1>6. pair \in ForcedPairs(s)
  <2>1. ForcedPairs(s) \in SUBSET (Nat \X Nat) BY <1>1, <1>5 DEF ForcedPairs
  <2> QED BY <2>1, FirstPairIsOne
<1> HIDE DEF pair
<1>7. /\ x \in RootsIn(s) /\ y \in RootsIn(s) /\ x < y /\ SameSingleton(s.domain[x], s.domain[y])
      BY <1>6 DEF ForcedPairs
<1>8. x \in T /\ y \in T /\ s.parent[x] = x /\ s.parent[y] = y /\ x # y
      BY <1>1, <1>5, <1>7 DEF RootsIn
<1>9. FindIn(s, x) = x /\ FindIn(s, y) = y
  <2>1. IsTree(s.parent, T) BY <1>3
  <2>2. \A t \in T : s.parent[t] = t <=> FindIn(s, t) = t BY <2>1, FindFacts
  <2> QED BY <1>8, <2>2
<1>10. ASSUME NEW c, NEW d, Closed(problem, walk, c, d) PROVE c[x] = c[y]
  <2>1. \A t \in T : d[t] \subseteq s.domain[FindIn(s, t)] BY <1>2, <1>10 DEF Forced
  <2>2. d[x] \subseteq s.domain[x] /\ d[y] \subseteq s.domain[y] BY <1>8, <1>9, <2>1
  <2>3. d[x] # {} /\ d[y] # {} BY <1>8, <1>10 DEF Closed
  <2>4. IsFiniteSet(s.domain[x])
    <3>1. s.domain[x] \in SUBSET Carrier(problem) BY <1>4, <1>8
    <3> QED BY <1>1, <3>1, FS_Subset
  <2>5. PICK v : s.domain[x] = {v} BY <1>7, <2>4, OneValue DEF SameSingleton
  <2>6. s.domain[y] = {v} BY <1>7, <2>5 DEF SameSingleton
  <2>7. d[x] = s.domain[x] /\ d[y] = s.domain[y] BY <2>2, <2>3, <2>5, <2>6
  <2>8. SameSingleton(d[x], d[y]) BY <1>7, <2>7
  <2> QED BY <1>8, <1>10, <2>8 DEF Closed
<1> QED BY <1>8, <1>9, <1>10 DEF pair

(* The value that a disequality forbids.                                   *)
LEMMA CutForced ==
    ASSUME NEW p, WellFormed(p), NEW s, NEW walk \in Seq(AssumptionOf(p)), NEW k,
           StateIsRight(p, s, walk, k), NEW i \in DOMAIN s.disequalities, NEW cut \in Cuts(s, i)
    PROVE  /\ cut[2] \in Terms(p) /\ FindIn(s, cut[2]) = cut[2]
           /\ \A c, d : Closed(p, walk, c, d)
                 => d[cut[2]] \subseteq s.domain[cut[2]] \ s.domain[cut[1]]
<1> DEFINE T == Terms(p)
           q == s.disequalities[i]
           a == cut[1]
           b == cut[2]
<1>1. T \in SUBSET Nat /\ IsFiniteSet(Carrier(p)) BY WellFormedFinite
<1>2. Grounded(p, s) /\ Forced(p, s, walk) /\ Obeys(p, s, walk, k) BY DEF StateIsRight
<1>3. s \in StateOf(p) BY <1>2 DEF Grounded
<1>4. s.domain \in [T -> SUBSET Carrier(p)] /\ s.disequalities \in Seq(T \X T)
      BY <1>3, StateFields
<1>5. IsTree(s.parent, T) BY <1>2 DEF Grounded
<1>6. q \in T \X T /\ q \in RawDisequalities(p, walk)
  <2>1. q \in Range(s.disequalities) BY DEF Range
  <2> QED BY <1>2, <1>4, <2>1 DEF Obeys
<1> HIDE DEF q
<1>7. \E x, y \in T :
         /\ <<x, y>> = q \/ <<y, x>> = q
         /\ a = FindIn(s, x) /\ b = FindIn(s, y)
         /\ IsSingleton(s.domain[a]) /\ s.domain[a] \subseteq s.domain[b]
  <2>1. q = <<q[1], q[2]>> /\ q[1] \in T /\ q[2] \in T BY <1>6
  <2>2. /\ cut \in {<<FindIn(s, q[1]), FindIn(s, q[2])>>, <<FindIn(s, q[2]), FindIn(s, q[1])>>}
        /\ IsSingleton(s.domain[a]) /\ s.domain[a] \subseteq s.domain[b]
        BY DEF Cuts, q
  <2>3. CASE cut = <<FindIn(s, q[1]), FindIn(s, q[2])>> BY <2>1, <2>2, <2>3
  <2>4. CASE cut = <<FindIn(s, q[2]), FindIn(s, q[1])>> BY <2>1, <2>2, <2>4
  <2> QED BY <2>2, <2>3, <2>4
<1>8. PICK x \in T, y \in T :
         /\ <<x, y>> = q \/ <<y, x>> = q
         /\ a = FindIn(s, x) /\ b = FindIn(s, y)
         /\ IsSingleton(s.domain[a]) /\ s.domain[a] \subseteq s.domain[b]
      BY <1>7
<1>9. a \in T /\ b \in T /\ FindIn(s, b) = b BY <1>5, <1>8, FindFacts
<1>10. ASSUME NEW c, NEW d, Closed(p, walk, c, d)
       PROVE  d[b] \subseteq s.domain[b] \ s.domain[a]
  <2>0. Grounded(p, s) /\ Forced(p, s, walk) BY <1>2
  <2>1. /\ \A t \in T : d[t] \subseteq s.domain[FindIn(s, t)]
        /\ \A t, u \in T : FindIn(s, t) = FindIn(s, u) => d[t] = d[u]
        BY <1>10, <2>0, ForcedClasses
  <2>2. d[b] = d[y] /\ d[x] \subseteq s.domain[a] /\ d[y] \subseteq s.domain[b]
        BY <1>8, <1>9, <2>1
  <2>3. d[x] # {} BY <1>8, <1>10 DEF Closed
  <2>4. IsFiniteSet(s.domain[a])
    <3>1. s.domain[a] \in SUBSET Carrier(p) BY <1>4, <1>9
    <3> QED BY <1>1, <3>1, FS_Subset
  <2>5. PICK v : s.domain[a] = {v} BY <1>8, <2>4, OneValue
  <2>6. d[x] = {v} BY <2>2, <2>3, <2>5
  <2>7. IsSingleton(d[x]) BY <2>6, FS_Singleton DEF IsSingleton
  <2>8. Uncut(RawDisequalities(p, walk), d) BY <1>10 DEF Closed
  <2>9. ~IsCut(d, q[1], q[2]) /\ ~IsCut(d, q[2], q[1]) BY <1>6, <2>8 DEF Uncut
  <2>10. ~IsCut(d, x, y) BY <1>8, <2>9
  <2>11. v \notin d[y] BY <2>6, <2>7, <2>10 DEF IsCut
  <2> QED BY <2>2, <2>5, <2>11
<1> QED BY <1>9, <1>10

(* A conflict of the search is one of everything that obeys the path.      *)
LEMMA ContradictionForced ==
    ASSUME NEW p, WellFormed(p), NEW s, NEW walk \in Seq(AssumptionOf(p)), NEW k,
           StateIsRight(p, s, walk, k), Contradiction(s)
    PROVE  \A c, d : ~Closed(p, walk, c, d)
<1> SUFFICES ASSUME NEW c, NEW d, Closed(p, walk, c, d) PROVE FALSE OBVIOUS
<1> DEFINE T == Terms(p)
<1>1. Grounded(p, s) /\ Forced(p, s, walk) /\ Obeys(p, s, walk, k) BY DEF StateIsRight
<1>2. s \in StateOf(p) /\ IsTree(s.parent, T) BY <1>1 DEF Grounded
<1>3. s.parent \in [T -> T] /\ s.disequalities \in Seq(T \X T)
  <2>1. s \in StateOf(p) BY <1>2
  <2> QED BY <2>1, StateFields
<1>4. /\ \A t \in T : d[t] \subseteq s.domain[FindIn(s, t)]
      /\ \A t, u \in T : FindIn(s, t) = FindIn(s, u) => c[t] = c[u]
  <2>1. Grounded(p, s) /\ Forced(p, s, walk) BY <1>1
  <2> QED BY <2>1, ForcedClasses
<1>5. CASE \E root \in RootsIn(s) : s.domain[root] = {}
  <2>1. PICK root \in RootsIn(s) : s.domain[root] = {} BY <1>5
  <2>2. root \in T /\ s.parent[root] = root BY <1>3 DEF RootsIn
  <2>3. FindIn(s, root) = root
    <3>1. IsTree(s.parent, T) BY <1>2
    <3>2. \A t \in T : s.parent[t] = t <=> FindIn(s, t) = t BY <3>1, FindFacts
    <3> QED BY <2>2, <3>2
  <2>4. d[root] = {} BY <1>4, <2>1, <2>2, <2>3
  <2> QED BY <2>2, <2>4 DEF Closed
<1>6. CASE \E pair \in Range(s.disequalities) : FindIn(s, pair[1]) = FindIn(s, pair[2])
  <2>1. PICK pair \in Range(s.disequalities) : FindIn(s, pair[1]) = FindIn(s, pair[2]) BY <1>6
  <2>2. pair \in T \X T BY <1>3, <2>1 DEF Range
  <2>3. c[pair[1]] = c[pair[2]] BY <1>4, <2>1, <2>2
  <2>4. pair \in RawDisequalities(p, walk) BY <1>1, <2>1 DEF Obeys
  <2> QED BY <2>3, <2>4 DEF Closed
<1> QED BY <1>5, <1>6 DEF Contradiction

LEMMA ForcedPairConflict ==
    ASSUME NEW p, WellFormed(p), NEW s, NEW walk \in Seq(AssumptionOf(p)), NEW k,
           StateIsRight(p, s, walk, k), NEW x \in Terms(p), NEW y \in Terms(p),
           FindIn(s, x) = x, FindIn(s, y) = y, HasDisequalityBetween(s, x, y),
           \A c, d : Closed(p, walk, c, d) => c[x] = c[y]
    PROVE  \A c, d : ~Closed(p, walk, c, d)
<1> SUFFICES ASSUME NEW c, NEW d, Closed(p, walk, c, d) PROVE FALSE OBVIOUS
<1> DEFINE T == Terms(p)
<1>1. Grounded(p, s) /\ Forced(p, s, walk) BY DEF StateIsRight
<1>2. Obeys(p, s, walk, k) BY DEF StateIsRight
<1>3. s \in StateOf(p) BY <1>1 DEF Grounded
<1>4. s.disequalities \in Seq(T \X T) BY <1>3, StateFields
<1>5. \A t, u \in T : FindIn(s, t) = FindIn(s, u) => c[t] = c[u] BY <1>1, ForcedClasses
<1>6. PICK pair \in Range(s.disequalities) :
          \/ FindIn(s, pair[1]) = x /\ FindIn(s, pair[2]) = y
          \/ FindIn(s, pair[1]) = y /\ FindIn(s, pair[2]) = x
      BY DEF HasDisequalityBetween, ApartRoots
<1>7. pair \in T \X T BY <1>4, <1>6 DEF Range
<1>8. c[x] = c[y] OBVIOUS
<1>9. c[pair[1]] = c[pair[2]] BY <1>5, <1>6, <1>7, <1>8
<1>10. pair \in RawDisequalities(p, walk) BY <1>2, <1>6 DEF Obeys
<1> QED BY <1>9, <1>10 DEF Closed

LEMMA ConflictIsAudited ==
    ASSUME NEW p, WellFormed(p), NEW walk \in Seq(AssumptionOf(p)),
           \A c, d : ~Closed(p, walk, c, d)
    PROVE  Audit(p, walk).conflict
<1>1. AuditIsRight(p, walk, Audit(p, walk)) BY AuditFacts
<1>2. ~Audit(p, walk).conflict => Rests(p, walk, Audit(p, walk)) BY <1>1 DEF AuditIsRight
<1> QED BY <1>2 DEF Rests

-----------------------------------------------------------------------------
(* Where propagation rests.                                                *)
ClassesOf(p, s) == [t \in Terms(p) |-> FindIn(s, t)]
ValuesOf(p, s) == [t \in Terms(p) |-> s.domain[FindIn(s, t)]]

AtRest(p, s, walk) ==
    /\ StateIsRight(p, s, walk, Len(p.equalities))
    /\ Closed(p, walk, ClassesOf(p, s), ValuesOf(p, s))

AtFixpoint(s) ==
    /\ ~Contradiction(s) /\ Collisions(s) = {} /\ ForcedPairs(s) = {}
    /\ Cutting(s) = {}

LEMMA FixpointIsClosed ==
    ASSUME WellFormed(problem), NEW s, NEW walk \in Seq(AssumptionOf(problem)),
           StateIsRight(problem, s, walk, Len(problem.equalities)), AtFixpoint(s)
    PROVE  AtRest(problem, s, walk)
<1> DEFINE T == Terms(problem)
           c == ClassesOf(problem, s)
           d == ValuesOf(problem, s)
           raw == RawDisequalities(problem, walk)
<1>1. Grounded(problem, s) /\ Obeys(problem, s, walk, Len(problem.equalities)) BY DEF StateIsRight
<1>2. s \in StateOf(problem) /\ IsTree(s.parent, T) BY <1>1 DEF Grounded
<1>3. s.parent \in [T -> T] /\ s.disequalities \in Seq(T \X T)
  <2>1. s \in StateOf(problem) BY <1>2
  <2> QED BY <2>1, StateFields
<1>4. \A t \in T : FindIn(s, t) \in T /\ s.parent[FindIn(s, t)] = FindIn(s, t)
                   /\ FindIn(s, t) \in RootsIn(s)
  <2>1. IsTree(s.parent, T) BY <1>2
  <2>2. \A t \in T : FindIn(s, t) \in T /\ s.parent[FindIn(s, t)] = FindIn(s, t)
        BY <2>1, FindFacts
  <2> QED BY <1>3, <2>2 DEF RootsIn
<1>5. \A t \in T : c[t] = FindIn(s, t) /\ d[t] = s.domain[FindIn(s, t)] BY DEF ClassesOf, ValuesOf
<1>6. T \in SUBSET Nat BY WellFormedFinite
<1>7. /\ problem.equalities \in Seq(T \X T)
      /\ \A i \in DOMAIN problem.apps :
            problem.apps[i].args \in Seq(T) /\ problem.apps[i].result \in T
            /\ problem.apps[i].fun \in DOMAIN problem.arities
            /\ Len(problem.apps[i].args) = problem.arities[problem.apps[i].fun]
      BY DEF WellFormed
<1>8. raw \in SUBSET (T \X T) /\ raw = Range(s.disequalities)
  <2>1. raw \in SUBSET (T \X T) BY RawFacts
  <2> QED BY <1>1, <2>1 DEF Obeys
<1>9. \A a \in Assumed(walk, "Equal") : a.left \in T /\ a.right \in T
      BY DEF Assumed, Range, AssumptionOf
<1>10. \A a \in Assumed(walk, "Value") : a.left \in T BY DEF Assumed, Range, AssumptionOf
<1> HIDE DEF T, c, d, raw
<1>11. Respects(problem, walk, c)
  <2>1. ASSUME NEW pair \in Range(problem.equalities) PROVE c[pair[1]] = c[pair[2]]
    <3>1. PICK i \in 1..Len(problem.equalities) : pair = problem.equalities[i] BY <1>7, <2>1 DEF Range
    <3>2. pair[1] \in T /\ pair[2] \in T BY <1>7, <3>1
    <3>3. FindIn(s, pair[1]) = FindIn(s, pair[2]) BY <1>1, <3>1 DEF Obeys
    <3> QED BY <1>5, <3>2, <3>3
  <2>2. \A a \in Assumed(walk, "Equal") : c[a.left] = c[a.right] BY <1>1, <1>5, <1>9 DEF Obeys
  <2> QED BY <2>1, <2>2 DEF Respects
<1>12. \A t, u \in T : c[t] = c[u] => d[t] = d[u] BY <1>5
<1>13. \A t \in T : d[t] # {} /\ d[t] \subseteq DomainOf(problem, t)
  <2>1. \A t \in T : s.domain[FindIn(s, t)] # {} BY <1>4 DEF AtFixpoint, Contradiction
  <2> QED BY <1>1, <1>5, <2>1 DEF Obeys, T
<1>14. \A a \in Assumed(walk, "Value") : d[a.left] \subseteq {a.right} BY <1>1, <1>5, <1>10 DEF Obeys
<1>15. \A q \in raw : c[q[1]] # c[q[2]]
  <2>1. \A q \in raw : FindIn(s, q[1]) # FindIn(s, q[2]) BY <1>8 DEF AtFixpoint, Contradiction
  <2>2. \A q \in raw : q[1] \in T /\ q[2] \in T BY <1>8
  <2> QED BY <1>5, <2>1, <2>2
<1>16. Uncut(raw, d)
  <2> SUFFICES ASSUME NEW q \in raw PROVE ~IsCut(d, q[1], q[2]) /\ ~IsCut(d, q[2], q[1]) BY DEF Uncut
  <2>1. PICK i \in DOMAIN s.disequalities : q = s.disequalities[i] BY <1>8 DEF Range
  <2>2. Cuts(s, i) = {} BY <2>1 DEF AtFixpoint, Cutting
  <2>3. q[1] \in T /\ q[2] \in T BY <1>8
  <2> DEFINE a == FindIn(s, q[1])
             b == FindIn(s, q[2])
  <2>4. /\ ~(IsSingleton(s.domain[a]) /\ s.domain[a] \subseteq s.domain[b])
        /\ ~(IsSingleton(s.domain[b]) /\ s.domain[b] \subseteq s.domain[a])
    <3> DEFINE sides == <<a, b>>
    <3>1. Cuts(s, i) = {r \in {<<sides[1], sides[2]>>, <<sides[2], sides[1]>>} :
                           IsSingleton(s.domain[r[1]]) /\ s.domain[r[1]] \subseteq s.domain[r[2]]}
          BY <2>1 DEF Cuts
    <3>2. sides[1] = a /\ sides[2] = b OBVIOUS
    <3> HIDE DEF sides, a, b
    <3>3. <<a, b>>[1] = a /\ <<a, b>>[2] = b /\ <<b, a>>[1] = b /\ <<b, a>>[2] = a OBVIOUS
    <3> QED BY <2>2, <3>1, <3>2, <3>3
  <2> QED BY <1>5, <2>3, <2>4 DEF IsCut
<1>17. \A i, j \in DOMAIN problem.apps :
          Congruent(problem, c, i, j) => c[problem.apps[i].result] = c[problem.apps[j].result]
  <2> SUFFICES ASSUME NEW i \in DOMAIN problem.apps, NEW j \in DOMAIN problem.apps,
                      Congruent(problem, c, i, j)
               PROVE  c[problem.apps[i].result] = c[problem.apps[j].result]
      OBVIOUS
  <2>1. Collisions(s) = {} BY DEF AtFixpoint
  <2>2. ~Collides(s, i, j) BY <2>1, CollisionsFacts
  <2> DEFINE a == problem.apps[i]
             b == problem.apps[j]
  <2>3. a.fun = b.fun /\ \A k \in DOMAIN a.args : c[a.args[k]] = c[b.args[k]] BY DEF Congruent
  <2>4. \A k \in DOMAIN a.args : a.args[k] \in T /\ b.args[k] \in T
    <3>1. a.args \in Seq(T) /\ b.args \in Seq(T) /\ Len(a.args) = Len(b.args) BY <1>7, <2>3
    <3> HIDE DEF a, b
    <3> QED BY <3>1
  <2>5. \A k \in DOMAIN a.args : FindIn(s, a.args[k]) = FindIn(s, b.args[k]) BY <1>5, <2>3, <2>4
  <2>6. SameSignature(s, i, j) BY <2>3, <2>5 DEF SameSignature
  <2>7. FindIn(s, a.result) = FindIn(s, b.result) BY <2>2, <2>6 DEF Collides
  <2>8. a.result \in T /\ b.result \in T BY <1>7
  <2> QED BY <1>5, <2>7, <2>8
<1>18. \A t, u \in T : SameSingleton(d[t], d[u]) => c[t] = c[u]
  <2> SUFFICES ASSUME NEW t \in T, NEW u \in T, SameSingleton(d[t], d[u]), c[t] # c[u] PROVE FALSE
      OBVIOUS
  <2> DEFINE x == FindIn(s, t)
             y == FindIn(s, u)
  <2>1. x \in T /\ y \in T /\ x \in RootsIn(s) /\ y \in RootsIn(s) BY <1>4
  <2>2. x # y /\ SameSingleton(s.domain[x], s.domain[y]) /\ SameSingleton(s.domain[y], s.domain[x])
        BY <1>5 DEF SameSingleton
  <2> HIDE DEF x, y
  <2>3. x \in Nat /\ y \in Nat BY <1>6, <2>1
  <2>4. x < y \/ y < x BY <2>2, <2>3
  <2>5. <<x, y>> \in ForcedPairs(s) \/ <<y, x>> \in ForcedPairs(s)
        BY <2>1, <2>2, <2>4 DEF ForcedPairs
  <2> QED BY <2>5 DEF AtFixpoint
<1>19. Closed(problem, walk, c, d)
       BY <1>11, <1>12, <1>13, <1>14, <1>15, <1>16, <1>17, <1>18 DEF Closed, T, raw
<1> QED BY <1>19 DEF AtRest, c, d

(* A decision looks only at ordered pairs of least terms.                  *)
DecisionFrom(values, reps, domains, pairs) ==
    LET Overlap(p) == Cardinality(domains[p[1]] \cap domains[p[2]])
        widest == {p \in pairs : \A q \in pairs : Overlap(q) <= Overlap(p)}
        open == {t \in reps : Cardinality(domains[t]) > 1}
        smallest == {t \in open : \A u \in open : Cardinality(domains[t]) <= Cardinality(domains[u])}
    IN  IF Cardinality(reps) > values /\ pairs # {}
        THEN Quotient(FirstPair(widest)[1], FirstPair(widest)[2])
        ELSE IF open = {} THEN Complete
        ELSE ValueSplit(Min(smallest), domains[Min(smallest)])

OpenPairs(reps, domains, apart) ==
    {p \in reps \X reps : p[1] < p[2] /\ p \notin apart /\ domains[p[1]] \cap domains[p[2]] # {}}

LEMMA SameDecision ==
    ASSUME NEW values, NEW R, NEW D, NEW one, NEW other,
           \A p \in R \X R : p[1] < p[2] => (p \in one <=> p \in other)
    PROVE  Decision(values, R, D, one) = Decision(values, R, D, other)
<1>1. OpenPairs(R, D, one) = OpenPairs(R, D, other) BY DEF OpenPairs
<1>2. ASSUME NEW apart
      PROVE  Decision(values, R, D, apart) = DecisionFrom(values, R, D, OpenPairs(R, D, apart))
      BY DEF Decision, DecisionFrom, OpenPairs
<1>3. /\ Decision(values, R, D, one) = DecisionFrom(values, R, D, OpenPairs(R, D, one))
      /\ Decision(values, R, D, other) = DecisionFrom(values, R, D, OpenPairs(R, D, other))
      BY <1>2
<1> QED BY <1>1, <1>3

(* The classes and values at rest are those of the audit.                  *)
SameAsAudit(p, s, audit) ==
    /\ \A t, u \in Terms(p) : audit.labels[t] = audit.labels[u] <=> FindIn(s, t) = FindIn(s, u)
    /\ \A t \in Terms(p) : audit.domains[audit.labels[t]] = s.domain[FindIn(s, t)]

LEMMA RestIsAudited ==
    ASSUME NEW p, WellFormed(p), NEW s, NEW walk \in Seq(AssumptionOf(p)), AtRest(p, s, walk)
    PROVE  /\ ~Audit(p, walk).conflict /\ Rests(p, walk, Audit(p, walk))
           /\ SameAsAudit(p, s, Audit(p, walk))
<1> DEFINE T == Terms(p)
           audit == Audit(p, walk)
           l == audit.labels
           c == ClassesOf(p, s)
           d == ValuesOf(p, s)
           e == [t \in T |-> audit.domains[l[t]]]
<1>1. AuditIsRight(p, walk, audit) BY AuditFacts
<1>2. Closed(p, walk, c, d) BY DEF AtRest
<1>3. Grounded(p, s) /\ Forced(p, s, walk) BY DEF AtRest, StateIsRight
<1>4. \A t \in T : c[t] = FindIn(s, t) /\ d[t] = s.domain[FindIn(s, t)] BY DEF ClassesOf, ValuesOf
<1> HIDE DEF audit, c, d
<1>5. /\ ~audit.conflict /\ Follows(T, l, c)
      /\ \A t \in T : d[t] \subseteq audit.domains[l[t]]
      BY <1>1, <1>2 DEF AuditIsRight
<1>6. Rests(p, walk, audit) BY <1>1, <1>5 DEF AuditIsRight
<1>7. Closed(p, walk, l, e) BY <1>6 DEF Rests
<1>8. \A t \in T : e[t] = audit.domains[l[t]] OBVIOUS
<1> HIDE DEF e
<1>9. /\ \A t \in T : e[t] \subseteq s.domain[FindIn(s, t)]
      /\ \A t, u \in T : FindIn(s, t) = FindIn(s, u) => l[t] = l[u]
      BY <1>3, <1>7, ForcedClasses
<1>10. \A t, u \in T : l[t] = l[u] => FindIn(s, t) = FindIn(s, u) BY <1>4, <1>5 DEF Follows
<1>11. \A t \in T : audit.domains[l[t]] = s.domain[FindIn(s, t)] BY <1>4, <1>5, <1>8, <1>9
<1>12. SameAsAudit(p, s, audit) BY <1>9, <1>10, <1>11 DEF SameAsAudit
<1> QED BY <1>5, <1>6, <1>12 DEF audit

LEMMA LeastOfClass ==
    ASSUME NEW p, WellFormed(p), NEW s, Grounded(p, s), NEW audit,
           audit.labels \in Labels(Terms(p)), SameAsAudit(p, s, audit)
    PROVE  /\ \A t \in Terms(p) : audit.labels[t] = Representative(s, FindIn(s, t))
           /\ Representatives(s) = Range(audit.labels)
<1> DEFINE T == Terms(p)
           l == audit.labels
<1>1. T \in SUBSET Nat BY WellFormedFinite
<1>2. l \in [T -> T] /\ DOMAIN l = T /\ \A t \in T : l[t] <= t /\ l[l[t]] = l[t] BY DEF Labels
<1>3. s \in StateOf(p) /\ IsTree(s.parent, T) BY DEF Grounded
<1>4. s.parent \in [T -> T] /\ DOMAIN s.parent = T BY <1>3 DEF IsTree
<1>5. \A t \in T : FindIn(s, t) \in RootsIn(s)
  <2>1. IsTree(s.parent, T) BY <1>3
  <2>2. \A t \in T : FindIn(s, t) \in T /\ s.parent[FindIn(s, t)] = FindIn(s, t)
        BY <2>1, FindFacts
  <2> QED BY <1>4, <2>2 DEF RootsIn
<1>6. \A t, u \in T : l[t] = l[u] <=> FindIn(s, t) = FindIn(s, u) BY DEF SameAsAudit
<1> HIDE DEF l, T
<1>7. ASSUME NEW t \in T PROVE l[t] = Representative(s, FindIn(s, t))
  <2> DEFINE S == {u \in T : FindIn(s, u) = FindIn(s, t)}
  <2>1. Representative(s, FindIn(s, t)) = Min(S) BY <1>4 DEF Representative
  <2>2. l[t] \in T /\ l[l[t]] = l[t] BY <1>2
  <2>3. l[t] \in S BY <1>6, <2>2
  <2>4. \A u \in S : l[u] = l[t] BY <1>6
  <2>5. \A u \in S : l[t] <= u BY <1>2, <2>4
  <2>6. S \in SUBSET Nat BY <1>1
  <2> HIDE DEF S
  <2>7. Min(S) \in S /\ \A u \in S : Min(S) <= u BY <2>3, <2>6, MinIsLeast
  <2>8. l[t] <= Min(S) /\ Min(S) <= l[t] /\ l[t] \in Nat /\ Min(S) \in Nat
        BY <2>3, <2>5, <2>6, <2>7
  <2> QED BY <2>1, <2>8
<1>8. ASSUME NEW root \in RootsIn(s) PROVE Representative(s, root) = l[root] /\ root \in T
  <2>1. root \in T /\ s.parent[root] = root BY <1>4 DEF RootsIn
  <2>2. FindIn(s, root) = root
    <3>1. IsTree(s.parent, T) BY <1>3 DEF T
    <3>2. \A t \in T : s.parent[t] = t <=> FindIn(s, t) = t BY <3>1, FindFacts
    <3> QED BY <2>1, <3>2
  <2> QED BY <1>7, <2>1, <2>2
<1>9. Representatives(s) \subseteq Range(l) BY <1>2, <1>8 DEF Representatives, Range
<1>10. Range(l) \subseteq Representatives(s) BY <1>2, <1>5, <1>7 DEF Representatives, Range
<1> QED BY <1>7, <1>9, <1>10 DEF l, T

LEMMA SameChoice ==
    ASSUME NEW p, WellFormed(p), NEW s, NEW walk \in Seq(AssumptionOf(p)), AtRest(p, s, walk)
    PROVE  ChooseStateDecision(s, p.values) = AuditDecision(p, Audit(p, walk))
<1> DEFINE T == Terms(p)
           audit == Audit(p, walk)
           l == audit.labels
           R == Range(l)
           D == [t \in Representatives(s) |-> s.domain[FindIn(s, t)]]
           one == {q \in R \X R : HasDisequalityBetween(s, FindIn(s, q[1]), FindIn(s, q[2]))}
           raw == RawDisequalities(p, walk)
<1>1. ~audit.conflict /\ Rests(p, walk, audit) /\ SameAsAudit(p, s, audit) BY RestIsAudited
<1>2. Grounded(p, s) /\ Obeys(p, s, walk, Len(p.equalities)) BY DEF AtRest, StateIsRight
<1> HIDE DEF audit
<1>3. l \in Labels(T) /\ audit.domains \in [R -> SUBSET Carrier(p)] /\ audit.apart = Apart(p, walk, l)
      BY <1>1 DEF Rests
<1>4. T \in SUBSET Nat BY WellFormedFinite
<1>5. R \in SUBSET T /\ (\A x \in R : l[x] = x) /\ \A t \in T : l[t] \in R
  <2>1. l \in Labels(T) BY <1>3
  <2> HIDE DEF l, T
  <2> QED BY <1>4, <2>1, LabelsRange
<1>6. Representatives(s) = R
  <2>1. SameAsAudit(p, s, audit) BY <1>1
  <2>2. Grounded(p, s) BY <1>2
  <2>3. audit.labels \in Labels(Terms(p)) BY <1>3
  <2> QED BY <2>1, <2>2, <2>3, LeastOfClass
<1>7. /\ \A t, u \in T : l[t] = l[u] <=> FindIn(s, t) = FindIn(s, u)
      /\ \A t \in T : audit.domains[l[t]] = s.domain[FindIn(s, t)]
      BY <1>1 DEF SameAsAudit
<1>8. D = audit.domains
  <2>1. \A x \in R : D[x] = audit.domains[x] BY <1>5, <1>6, <1>7
  <2>2. D = [x \in R |-> D[x]] BY <1>6
  <2>3. audit.domains = [x \in R |-> audit.domains[x]] BY <1>3
  <2> HIDE DEF D, R
  <2> QED BY <2>1, <2>2, <2>3
<1>9. raw \in SUBSET (T \X T) /\ raw = Range(s.disequalities)
  <2>1. raw \in SUBSET (T \X T) BY RawFacts
  <2> QED BY <1>2, <2>1 DEF Obeys
<1>10. audit.apart = {OrderedPair(l[q[1]], l[q[2]]) : q \in raw} BY <1>3 DEF Apart
<1> HIDE DEF l, R, raw, D, T
<1>11. ASSUME NEW r \in R \X R, r[1] < r[2] PROVE r \in one <=> r \in audit.apart
  <2> DEFINE x == r[1]
             y == r[2]
  <2>1. x \in R /\ y \in R /\ r = <<x, y>> /\ x \in T /\ y \in T /\ x < y /\ x \in Nat /\ y \in Nat
    <3>1. x \in R /\ y \in R /\ r = <<x, y>> /\ x < y BY <1>11
    <3> HIDE DEF x, y
    <3> QED BY <1>4, <1>5, <3>1
  <2>2. r \in one <=> \E q \in raw :
            \/ FindIn(s, q[1]) = FindIn(s, x) /\ FindIn(s, q[2]) = FindIn(s, y)
            \/ FindIn(s, q[1]) = FindIn(s, y) /\ FindIn(s, q[2]) = FindIn(s, x)
    <3>1. r \in one <=> HasDisequalityBetween(s, FindIn(s, x), FindIn(s, y)) BY <1>11
    <3> DEFINE a == FindIn(s, x)
               b == FindIn(s, y)
    <3> HIDE DEF a, b, one
    <3>2. HasDisequalityBetween(s, a, b) <=>
            \E q \in raw : \/ <<FindIn(s, q[1]), FindIn(s, q[2])>> = <<a, b>>
                           \/ <<FindIn(s, q[1]), FindIn(s, q[2])>> = <<b, a>>
          BY <1>9 DEF HasDisequalityBetween, ApartRoots
    <3>3. ASSUME NEW q \in raw
          PROVE  /\ <<FindIn(s, q[1]), FindIn(s, q[2])>> = <<a, b>>
                      <=> FindIn(s, q[1]) = a /\ FindIn(s, q[2]) = b
                 /\ <<FindIn(s, q[1]), FindIn(s, q[2])>> = <<b, a>>
                      <=> FindIn(s, q[1]) = b /\ FindIn(s, q[2]) = a
          OBVIOUS
    <3>4. HasDisequalityBetween(s, a, b) <=>
            \E q \in raw : \/ FindIn(s, q[1]) = a /\ FindIn(s, q[2]) = b
                           \/ FindIn(s, q[1]) = b /\ FindIn(s, q[2]) = a
          BY <3>2, <3>3
    <3> QED BY <3>1, <3>4 DEF a, b
  <2> HIDE DEF x, y
  <2>3. \A q \in raw : q[1] \in T /\ q[2] \in T BY <1>9
  <2>4. \A t \in T : (FindIn(s, t) = FindIn(s, x) <=> l[t] = x)
                     /\ (FindIn(s, t) = FindIn(s, y) <=> l[t] = y)
        BY <1>5, <1>7, <2>1
  <2>5. r \in one <=> \E q \in raw : (l[q[1]] = x /\ l[q[2]] = y) \/ (l[q[1]] = y /\ l[q[2]] = x)
        BY <2>2, <2>3, <2>4
  <2>6. ASSUME NEW q \in raw
        PROVE  OrderedPair(l[q[1]], l[q[2]]) = <<x, y>>
                 <=> (l[q[1]] = x /\ l[q[2]] = y) \/ (l[q[1]] = y /\ l[q[2]] = x)
    <3> DEFINE u == l[q[1]]
               v == l[q[2]]
    <3>1. u \in Nat /\ v \in Nat BY <1>4, <1>5, <2>3
    <3> HIDE DEF u, v
    <3>2. OrderedPair(u, v) = <<x, y>> <=> (u = x /\ v = y) \/ (u = y /\ v = x)
          BY <2>1, <3>1 DEF OrderedPair
    <3> QED BY <3>2 DEF u, v
  <2>7. r \in audit.apart <=> \E q \in raw : OrderedPair(l[q[1]], l[q[2]]) = <<x, y>>
        BY <1>10, <2>1
  <2> QED BY <2>5, <2>6, <2>7
<1> HIDE DEF one
<1>12. Decision(p.values, R, audit.domains, one) = Decision(p.values, R, audit.domains, audit.apart)
       BY <1>11, SameDecision
<1>13. ChooseStateDecision(s, p.values) = Decision(p.values, R, D, one)
       BY <1>6 DEF ChooseStateDecision, D, one
<1>14. AuditDecision(p, audit) = Decision(p.values, R, audit.domains, audit.apart)
       BY DEF AuditDecision, R, l
<1> QED BY <1>8, <1>12, <1>13, <1>14 DEF audit

(* The branch that merges two terms is tried where they are in two classes. *)
LEMMA BranchMerges ==
    ASSUME NEW p, WellFormed(p), NEW s, NEW walk \in Seq(AssumptionOf(p)), AtRest(p, s, walk),
           NEW i \in DOMAIN AuditDecision(p, Audit(p, walk)),
           AuditDecision(p, Audit(p, walk))[i].kind = "Equal"
    PROVE  FindIn(s, AuditDecision(p, Audit(p, walk))[i].left)
             # FindIn(s, AuditDecision(p, Audit(p, walk))[i].right)
<1> DEFINE T == Terms(p)
           audit == Audit(p, walk)
           R == Range(audit.labels)
           D == audit.domains
           V == Carrier(p)
           decision == AuditDecision(p, audit)
<1>1. Rests(p, walk, audit) /\ SameAsAudit(p, s, audit) BY RestIsAudited
<1>2. T \in SUBSET Nat /\ V \in SUBSET Nat /\ IsFiniteSet(V) BY WellFormedFinite
<1> HIDE DEF audit
<1>3. audit.labels \in Labels(T) /\ D \in [R -> SUBSET V] BY <1>1 DEF Rests
<1>4. R \in SUBSET T /\ \A x \in R : audit.labels[x] = x
  <2>1. audit.labels \in Labels(T) BY <1>3
  <2> HIDE DEF T
  <2> QED BY <1>2, <2>1, LabelsRange
<1>5. DecisionForms(R, D, decision)
  <2>1. R \in SUBSET Nat BY <1>2, <1>4
  <2>2. D \in [R -> SUBSET V] BY <1>3
  <2>3. IsFiniteSet(V) BY <1>2
  <2> HIDE DEF R, D, V
  <2> QED BY <2>1, <2>2, <2>3, DecisionFacts DEF AuditDecision, R, D
<1>6. i \in DOMAIN decision /\ decision[i].kind = "Equal" BY DEF audit
<1> HIDE DEF decision, R, D, V
<1>7. CASE decision = Complete
  <2>1. DOMAIN Complete = {} BY DEF Complete
  <2> QED BY <1>6, <1>7, <2>1
<1>8. ASSUME NEW x \in R, NEW y \in R, x < y, decision = Quotient(x, y)
      PROVE  FindIn(s, decision[i].left) # FindIn(s, decision[i].right)
  <2>1. decision = <<Equal(x, y), Distinct(x, y)>> BY <1>8 DEF Quotient
  <2>2. DOMAIN decision = {1, 2} /\ decision[1] = Equal(x, y) /\ decision[2] = Distinct(x, y)
        BY <2>1
  <2>3. decision[2].kind # "Equal" BY <2>2 DEF Distinct
  <2>4. decision[i] = Equal(x, y) BY <1>6, <2>2, <2>3
  <2>5. decision[i].left = x /\ decision[i].right = y BY <2>4 DEF Equal
  <2>6. x \in T /\ y \in T /\ x # y /\ audit.labels[x] = x /\ audit.labels[y] = y
        BY <1>2, <1>4, <1>8
  <2>7. FindIn(s, x) # FindIn(s, y) BY <1>1, <2>6 DEF SameAsAudit
  <2> QED BY <2>5, <2>7
<1>9. ASSUME NEW t \in R, decision = ValueSplit(t, D[t]) PROVE FALSE
  <2> DEFINE S == D[t]
             n == Cardinality(S)
  <2>1. S \in SUBSET Nat /\ IsFiniteSet(S)
    <3>1. S \in SUBSET V BY <1>3, <1>9
    <3> QED BY <1>2, <3>1, FS_Subset
  <2> HIDE DEF S
  <2>2. decision = ValueSplit(t, S) BY <1>9 DEF S
  <2>3. /\ n \in Nat
        /\ decision = [j \in 1..n |-> decision[j]]
        /\ \A j \in 1..n : \E v \in S : decision[j] = ValueIs(t, v)
        BY <2>1, <2>2, ValueSplitFacts
  <2>4. i \in 1..n BY <1>6, <2>3
  <2>5. PICK v \in S : decision[i] = ValueIs(t, v) BY <2>3, <2>4
  <2> QED BY <1>6, <2>5 DEF ValueIs
<1> QED BY <1>5, <1>7, <1>8, <1>9 DEF DecisionForms, decision, audit

(* Without a decision every class has one value.                           *)
LEMMA CompleteIsSingleton ==
    ASSUME NEW p, WellFormed(p), NEW s, NEW walk \in Seq(AssumptionOf(p)), AtRest(p, s, walk),
           ChooseStateDecision(s, p.values) = Complete
    PROVE  \A t \in Terms(p) : \E v \in DomainOf(p, t) : s.domain[FindIn(s, t)] = {v}
<1> DEFINE T == Terms(p)
           audit == Audit(p, walk)
           R == Range(audit.labels)
           D == audit.domains
           V == Carrier(p)
<1>1. Rests(p, walk, audit) /\ SameAsAudit(p, s, audit) BY RestIsAudited
<1>2. T \in SUBSET Nat /\ V \in SUBSET Nat /\ IsFiniteSet(V) BY WellFormedFinite
<1>3. AuditDecision(p, audit) = Complete BY SameChoice
<1> HIDE DEF audit
<1>4. audit.labels \in Labels(T) /\ D \in [R -> SUBSET V] BY <1>1 DEF Rests
<1>5. R \in SUBSET T /\ \A t \in T : audit.labels[t] \in R
  <2>1. audit.labels \in Labels(T) BY <1>4
  <2> HIDE DEF T
  <2> QED BY <1>2, <2>1, LabelsRange
<1>6. \A t \in R : ~(Cardinality(D[t]) > 1)
  <2>1. R \in SUBSET Nat BY <1>2, <1>5
  <2>2. D \in [R -> SUBSET V] BY <1>4
  <2>3. IsFiniteSet(V) BY <1>2
  <2>4. Decision(p.values, R, D, audit.apart) = Complete BY <1>3 DEF AuditDecision
  <2> HIDE DEF R, D, V
  <2> QED BY <2>1, <2>2, <2>3, <2>4, DecisionFacts
<1>7. Closed(p, walk, ClassesOf(p, s), ValuesOf(p, s)) BY DEF AtRest
<1>8. \A t \in T : s.domain[FindIn(s, t)] # {} /\ s.domain[FindIn(s, t)] \subseteq DomainOf(p, t)
      BY <1>7 DEF Closed, ValuesOf
<1> SUFFICES ASSUME NEW t \in T PROVE \E v \in DomainOf(p, t) : s.domain[FindIn(s, t)] = {v}
    OBVIOUS
<1> DEFINE S == s.domain[FindIn(s, t)]
<1>9. S = D[audit.labels[t]] BY <1>1 DEF SameAsAudit
<1> HIDE DEF S, D
<1>10. S \in SUBSET V BY <1>4, <1>5, <1>9
<1>11. IsFiniteSet(S) /\ Cardinality(S) \in Nat BY <1>2, <1>10, FS_Subset, FS_CardinalityType
<1>12. S # {} /\ S \subseteq DomainOf(p, t) BY <1>8 DEF S
<1>13. Cardinality(S) # 0 BY <1>11, <1>12, FS_EmptySet
<1>14. Cardinality(S) = 1 BY <1>5, <1>6, <1>9, <1>11, <1>13
<1>15. PICK v : S = {v} BY <1>11, <1>14, FS_Singleton
<1> QED BY <1>12, <1>15 DEF S

(* At rest with one value in every class: the values make a model, and the *)
(* tables are total.                                                       *)
OneValueEach ==
    \A t \in Terms(problem) :
        \E v \in DomainOf(problem, t) : state.domain[FindIn(state, t)] = {v}

LEMMA ValuesAtRest ==
    ASSUME WellFormed(problem), NEW walk \in Seq(AssumptionOf(problem)),
           AtRest(problem, state, walk), OneValueEach
    PROVE  /\ \A t \in Terms(problem) :
                 /\ state.domain[FindIn(state, t)] = {TermValues[t]}
                 /\ TermValues[t] \in DomainOf(problem, t) /\ TermValues[t] \in Carrier(problem)
           /\ \A t, u \in Terms(problem) :
                 TermValues[t] = TermValues[u] <=> FindIn(state, t) = FindIn(state, u)
<1> DEFINE T == Terms(problem)
           val == TermValues
           d == ValuesOf(problem, state)
           c == ClassesOf(problem, state)
<1>1. \A t \in T : DomainOf(problem, t) \subseteq Carrier(problem) BY DEF WellFormed
<1>2. \A t \in T : val[t] = TheValue(state.domain[FindIn(state, t)]) BY DEF TermValues
<1> HIDE DEF val
<1>3. \A v : TheValue({v}) = v BY DEF TheValue
<1>4. ASSUME NEW t \in T
      PROVE  state.domain[FindIn(state, t)] = {val[t]} /\ val[t] \in DomainOf(problem, t)
  <2>1. PICK v \in DomainOf(problem, t) : state.domain[FindIn(state, t)] = {v} BY DEF OneValueEach
  <2> QED BY <1>2, <1>3, <2>1
<1>5. Closed(problem, walk, c, d) BY DEF AtRest
<1>6. \A t \in T : c[t] = FindIn(state, t) /\ d[t] = state.domain[FindIn(state, t)]
      BY DEF ClassesOf, ValuesOf
<1> HIDE DEF c, d
<1>7. ASSUME NEW t \in T, NEW u \in T
      PROVE  val[t] = val[u] <=> FindIn(state, t) = FindIn(state, u)
  <2>1. d[t] = {val[t]} /\ d[u] = {val[u]} BY <1>4, <1>6, <1>7
  <2>2. IsSingleton(d[t]) BY <2>1, FS_Singleton DEF IsSingleton
  <2>5. SameSingleton(d[t], d[u]) => c[t] = c[u] BY <1>5, <1>7 DEF Closed
  <2>3. val[t] = val[u] => c[t] = c[u] BY <2>1, <2>2, <2>5 DEF SameSingleton
  <2>4. FindIn(state, t) = FindIn(state, u) => val[t] = val[u] BY <1>6, <1>7, <2>1
  <2> QED BY <1>6, <1>7, <2>3, <2>4
<1> QED BY <1>1, <1>4, <1>7 DEF val

LEMMA NoClash ==
    ASSUME WellFormed(problem), NEW walk \in Seq(AssumptionOf(problem)),
           AtRest(problem, state, walk), OneValueEach
    PROVE  ~ResultsClash
<1> SUFFICES ASSUME NEW i \in DOMAIN problem.apps, NEW j \in DOMAIN problem.apps,
                    problem.apps[i].fun = problem.apps[j].fun,
                    ArgValues(problem.apps[i]) = ArgValues(problem.apps[j]),
                    TermValues[problem.apps[i].result] # TermValues[problem.apps[j].result]
             PROVE  FALSE
    BY DEF ResultsClash
<1> DEFINE T == Terms(problem)
           val == TermValues
           a == problem.apps[i]
           b == problem.apps[j]
           c == ClassesOf(problem, state)
<1>1. \A t, u \in T : val[t] = val[u] <=> FindIn(state, t) = FindIn(state, u) BY ValuesAtRest
<1>2. /\ a.args \in Seq(T) /\ b.args \in Seq(T) /\ a.result \in T /\ b.result \in T
      /\ Len(a.args) = problem.arities[a.fun] /\ Len(b.args) = problem.arities[b.fun]
      BY DEF WellFormed
<1>3. a.fun = b.fun /\ val[a.result] # val[b.result] OBVIOUS
<1>4. DOMAIN a.args = 1..Len(a.args) /\ DOMAIN b.args = 1..Len(a.args) BY <1>2, <1>3
<1>5. ASSUME NEW k \in DOMAIN a.args PROVE c[a.args[k]] = c[b.args[k]]
  <2> DEFINE f == ArgValues(a)
             g == ArgValues(b)
  <2>1. f[k] = val[a.args[k]] /\ g[k] = val[b.args[k]] BY <1>4, <1>5 DEF ArgValues
  <2>2. f = g OBVIOUS
  <2>3. a.args[k] \in T /\ b.args[k] \in T
    <3>1. k \in 1..Len(a.args) /\ k \in 1..Len(b.args) BY <1>2, <1>3, <1>4, <1>5
    <3> QED BY <1>2, <3>1
  <2> HIDE DEF f, g, val, T, a, b
  <2>4. FindIn(state, a.args[k]) = FindIn(state, b.args[k]) BY <1>1, <2>1, <2>2, <2>3
  <2> QED BY <2>3, <2>4 DEF ClassesOf, T
<1>6. Congruent(problem, c, i, j) BY <1>3, <1>5 DEF Congruent
<1>7. c[a.result] = c[b.result] BY <1>6 DEF AtRest, Closed
<1>8. FindIn(state, a.result) = FindIn(state, b.result) BY <1>2, <1>7 DEF ClassesOf
<1> HIDE DEF a, b, val
<1> QED BY <1>1, <1>2, <1>3, <1>8

LEMMA ModelAtRest ==
    ASSUME WellFormed(problem), NEW walk \in Seq(AssumptionOf(problem)),
           AtRest(problem, state, walk), OneValueEach
    PROVE  IsModel(problem, TermValues) /\ HasModel(problem)
<1> DEFINE T == Terms(problem)
           val == TermValues
           c == ClassesOf(problem, state)
<1>1. /\ \A t \in T : val[t] \in DomainOf(problem, t) /\ val[t] \in Carrier(problem)
      /\ \A t, u \in T : val[t] = val[u] <=> FindIn(state, t) = FindIn(state, u)
      BY ValuesAtRest
<1>2. val \in [T -> Carrier(problem)]
  <2>1. val = [t \in T |-> val[t]] BY DEF TermValues
  <2> HIDE DEF val, T
  <2> QED BY <1>1, <2>1
<1>3. \A t, u \in T : c[t] = c[u] <=> val[t] = val[u]
  <2>1. \A t \in T : c[t] = FindIn(state, t) BY DEF ClassesOf
  <2> HIDE DEF c, val
  <2> QED BY <1>1, <2>1
<1>4. Closed(problem, walk, c, ValuesOf(problem, state)) BY DEF AtRest
<1>5. /\ \A pair \in Range(problem.equalities) \cup Range(problem.disequalities) :
            pair[1] \in T /\ pair[2] \in T
      BY DEF WellFormed, Range
<1> HIDE DEF c, val
<1>6. \A pair \in Range(problem.equalities) : val[pair[1]] = val[pair[2]]
      BY <1>3, <1>4, <1>5 DEF Closed, Respects
<1>7. ASSUME NEW pair \in Range(problem.disequalities) PROVE val[pair[1]] # val[pair[2]]
  <2>1. OrderedPair(pair[1], pair[2]) \in RawDisequalities(problem, walk)
        BY <1>7 DEF RawDisequalities
  <2>2. LET q == OrderedPair(pair[1], pair[2]) IN c[q[1]] # c[q[2]] BY <1>4, <2>1 DEF Closed
  <2>3. c[pair[1]] # c[pair[2]] BY <2>2 DEF OrderedPair
  <2> QED BY <1>3, <1>5, <1>7, <2>3
<1>8. ASSUME NEW i \in DOMAIN problem.apps, NEW j \in DOMAIN problem.apps,
             problem.apps[i].fun = problem.apps[j].fun,
             \A k \in DOMAIN problem.apps[i].args :
                 val[problem.apps[i].args[k]] = val[problem.apps[j].args[k]]
      PROVE  val[problem.apps[i].result] = val[problem.apps[j].result]
  <2> DEFINE a == problem.apps[i]
             b == problem.apps[j]
  <2>1. /\ a.args \in Seq(T) /\ b.args \in Seq(T) /\ a.result \in T /\ b.result \in T
        /\ Len(a.args) = problem.arities[a.fun] /\ Len(b.args) = problem.arities[b.fun]
        BY DEF WellFormed
  <2>2. a.fun = b.fun /\ \A k \in DOMAIN a.args : val[a.args[k]] = val[b.args[k]] BY <1>8
  <2>3. \A k \in DOMAIN a.args : a.args[k] \in T /\ b.args[k] \in T
    <3>1. a.args \in Seq(T) /\ b.args \in Seq(T) /\ Len(a.args) = Len(b.args) BY <2>1, <2>2
    <3> HIDE DEF a, b, T
    <3> QED BY <3>1
  <2> HIDE DEF T
  <2>4. \A k \in DOMAIN a.args : c[a.args[k]] = c[b.args[k]] BY <1>3, <2>2, <2>3
  <2>5. Congruent(problem, c, i, j) BY <2>2, <2>4 DEF Congruent
  <2>6. c[a.result] = c[b.result] BY <1>4, <2>5 DEF Closed
  <2> QED BY <1>3, <2>1, <2>6
<1>9. IsModel(problem, val) BY <1>1, <1>6, <1>7, <1>8 DEF IsModel
<1> QED BY <1>2, <1>9 DEF HasModel, val

LEMMA WitnessAtRest ==
    ASSUME WellFormed(problem), 0 \in Carrier(problem),
           NEW walk \in Seq(AssumptionOf(problem)), AtRest(problem, state, walk), OneValueEach,
           IsModel(problem, TermValues)
    PROVE  IsWitness(problem, Witness)
<1> DEFINE T == Terms(problem)
           V == Carrier(problem)
           val == TermValues
           Table(f) == [arguments \in [1..problem.arities[f] -> V] |->
                          IF Observed(f, arguments) = {} THEN 0
                          ELSE val[problem.apps[Min(Observed(f, arguments))].result]]
           tables == [f \in DOMAIN problem.arities |-> Table(f)]
<1>1. Witness = [terms |-> val, tables |-> tables] BY DEF Witness
<1>2. \A t \in T : val[t] \in V BY ValuesAtRest
<1>3. ~ResultsClash BY NoClash
<1>4. ASSUME NEW i \in DOMAIN problem.apps
      PROVE  /\ problem.apps[i].args \in Seq(T) /\ problem.apps[i].result \in T
             /\ problem.apps[i].fun \in DOMAIN problem.arities
             /\ Len(problem.apps[i].args) = problem.arities[problem.apps[i].fun]
      BY <1>4 DEF WellFormed
<1>5. DOMAIN problem.apps \in SUBSET Nat
  <2>1. problem.apps \in Seq(Application) BY DEF WellFormed
  <2> QED BY <2>1
<1>6. ASSUME NEW f, NEW arguments, Observed(f, arguments) # {}
      PROVE  /\ Min(Observed(f, arguments)) \in DOMAIN problem.apps
             /\ problem.apps[Min(Observed(f, arguments))].fun = f
             /\ ArgValues(problem.apps[Min(Observed(f, arguments))]) = arguments
  <2>1. Observed(f, arguments) \in SUBSET Nat BY <1>5 DEF Observed
  <2>2. Min(Observed(f, arguments)) \in Observed(f, arguments) BY <1>6, <2>1, MinIsLeast
  <2> QED BY <2>2 DEF Observed
<1> HIDE DEF val
<1>7. ASSUME NEW f \in DOMAIN problem.arities
      PROVE  tables[f] \in [[1..problem.arities[f] -> V] -> V]
  <2>1. \A arguments : Observed(f, arguments) # {}
            => val[problem.apps[Min(Observed(f, arguments))].result] \in V
        BY <1>2, <1>4, <1>6
  <2>2. tables[f] = Table(f) BY <1>7
  <2>3. Table(f) \in [[1..problem.arities[f] -> V] -> V] BY <2>1
  <2> QED BY <2>2, <2>3
<1>8. ASSUME NEW i \in DOMAIN problem.apps
      PROVE  LET app == problem.apps[i]
             IN  tables[app.fun][[j \in DOMAIN app.args |-> val[app.args[j]]]] = val[app.result]
  <2> DEFINE app == problem.apps[i]
             arguments == [j \in DOMAIN app.args |-> val[app.args[j]]]
             S == Observed(app.fun, arguments)
  <2>1. arguments = ArgValues(app) BY DEF ArgValues, val
  <2>2. i \in S BY <2>1 DEF Observed
  <2>3. arguments \in [1..problem.arities[app.fun] -> V]
    <3>1. app.args \in Seq(T) /\ DOMAIN app.args = 1..problem.arities[app.fun]
      <4>1. app.args \in Seq(T) /\ Len(app.args) = problem.arities[app.fun] BY <1>4
      <4> QED BY <4>1
    <3>2. \A j \in DOMAIN app.args : app.args[j] \in T
      <4> DEFINE args == app.args
      <4>1. args \in Seq(T) BY <3>1
      <4> HIDE DEF args, T
      <4>2. \A j \in DOMAIN args : args[j] \in T BY <4>1
      <4> QED BY <4>2 DEF args
    <3> HIDE DEF app, T
    <3> QED BY <1>2, <3>1, <3>2
  <2>4. app.fun \in DOMAIN problem.arities BY <1>4
  <2>5. /\ Min(S) \in DOMAIN problem.apps /\ problem.apps[Min(S)].fun = app.fun
        /\ ArgValues(problem.apps[Min(S)]) = arguments
        BY <1>6, <2>2
  <2>6. val[problem.apps[Min(S)].result] = val[app.result]
        BY <1>3, <2>1, <2>5 DEF ResultsClash, val
  <2>7. tables[app.fun] = Table(app.fun) BY <2>4
  <2>8. Table(app.fun)[arguments] = IF S = {} THEN 0 ELSE val[problem.apps[Min(S)].result]
        BY <2>3
  <2> HIDE DEF S, arguments, tables, Table
  <2>9. tables[app.fun][arguments] = val[app.result] BY <2>2, <2>6, <2>7, <2>8
  <2> QED BY <2>9 DEF arguments
<1>9. /\ \A t \in T : val[t] \in DomainOf(problem, t)
      /\ \A pair \in Range(problem.equalities) : val[pair[1]] = val[pair[2]]
      /\ \A pair \in Range(problem.disequalities) : val[pair[1]] # val[pair[2]]
      BY DEF IsModel, val
<1> HIDE DEF tables, Table
<1> QED BY <1>1, <1>7, <1>8, <1>9 DEF IsWitness

-----------------------------------------------------------------------------
(* The frames: what they saved, what they tried and what was refuted.      *)
LEMMA VisitedWithin ==
    ASSUME NEW W, NEW tree, NEW n \in Nat, [path |-> <<>>, proof |-> tree] \in W,
           \A node \in W : Below(node) \subseteq W
    PROVE  Visited(<<>>, tree, n) \subseteq W
<1> DEFINE root == [path |-> <<>>, proof |-> tree]
           f == VisitsUpTo(root, n)
<1>1. /\ Visited(<<>>, tree, n) = f[n]
      /\ f[0] = {root}
      /\ \A k \in 0..(n - 1) : f[k + 1] = f[k] \cup UNION {Below(above) : above \in f[k]}
      /\ \A k \in 0..n : f[k] \subseteq f[n]
  <2>1. n \in Nat OBVIOUS
  <2> QED BY <2>1, VisitedFacts
<1> HIDE DEF f
<1> DEFINE P == {k \in Nat : k <= n => f[k] \subseteq W}
<1>2. 0 \in P BY <1>1
<1>3. ASSUME NEW k \in P PROVE k + 1 \in P
  <2> SUFFICES ASSUME k + 1 <= n PROVE f[k + 1] \subseteq W OBVIOUS
  <2>1. k \in 0..(n - 1) /\ k <= n OBVIOUS
  <2>2. f[k] \subseteq W BY <2>1
  <2>3. f[k + 1] = f[k] \cup UNION {Below(above) : above \in f[k]} BY <1>1, <2>1
  <2> QED BY <2>2, <2>3
<1>4. P = Nat BY <1>2, <1>3, Induction
<1>5. n \in P BY <1>4
<1> QED BY <1>1, <1>5

LEMMA LaterKeeps ==
    ASSUME NEW p, NEW s \in StateOf(p), NEW s2, Later(p, s, s2),
           NEW snapshot, InReach(s, snapshot)
    PROVE  InReach(s2, snapshot) /\ Rollback(s2, snapshot) = Rollback(s, snapshot)
<1>1. CASE PushedOne(p, s, s2)
  <2>1. PICK entry : Pushed(s, s2, entry, p) BY <1>1 DEF PushedOne
  <2> QED BY <2>1, RollbackPushed
<1>2. CASE \E pair \in Terms(p) \X Terms(p) : s2 = With(s, Append(s.disequalities, pair))
  <2>1. PICK pair \in Terms(p) \X Terms(p) : s2 = With(s, Append(s.disequalities, pair))
        BY <1>2
  <2> DEFINE s3 == With(s, Append(s.disequalities, pair))
  <2>2. InReach(s3, snapshot) /\ Rollback(s3, snapshot) = Rollback(s, snapshot)
        BY RollbackSeparated
  <2> QED BY <2>1, <2>2
<1> QED BY <1>1, <1>2 DEF Later

FrameOf(p, trees) ==
    [decision : Seq(AssumptionOf(p)), todo : Seq(AssumptionOf(p)), proofs : Seq(trees),
     snapshot : [trail : Nat, disequalities : Nat]]

(* What a rollback to the frame gives back: the state in which it decided. *)
FrameIsRight(p, s, walk, frame) ==
    /\ InReach(s, frame.snapshot)
    /\ AtRest(p, Rollback(s, frame.snapshot), walk)
    /\ frame.decision = AuditDecision(p, Audit(p, walk))

Ordered(early, late) ==
    early.trail <= late.trail /\ early.disequalities <= late.disequalities

Stacked(p, s, walk, fs) ==
    /\ \A i \in 1..Len(fs) : FrameIsRight(p, s, SubSeq(walk, 1, i - 1), fs[i])
    /\ \A i, j \in 1..Len(fs) : i < j => Ordered(fs[i].snapshot, fs[j].snapshot)

(* The branches that remain, when k of them are under way.                 *)
Remaining(frame, k) ==
    /\ Len(frame.todo) + Len(frame.proofs) + k = Len(frame.decision)
    /\ \A j \in 1..Len(frame.todo) : frame.todo[j] = frame.decision[Len(frame.proofs) + k + j]

UnderWay(frame, a) ==
    Remaining(frame, 1) /\ a = frame.decision[Len(frame.proofs) + 1]

Tried(walk, fs) ==
    \A i \in 1..Len(fs) : IF i <= Len(walk) THEN UnderWay(fs[i], walk[i]) ELSE Remaining(fs[i], 0)

(* The nodes whose refutation is known: each holds, and so do those below. *)
Upheld(p, depth, W) ==
    \A node \in W : Len(node.path) <= depth /\ NodeHolds(p, node) /\ Below(node) \subseteq W

NodeAt(walk, a, tree) == [path |-> Append(walk, a), proof |-> tree]

RecordedBy(walk, frame, W) ==
    \A j \in 1..Len(frame.proofs) : NodeAt(walk, frame.decision[j], frame.proofs[j]) \in W

Recorded(walk, fs, W) ==
    \A i \in 1..Len(fs) : RecordedBy(SubSeq(walk, 1, i - 1), fs[i], W)

LEMMA StackLater ==
    ASSUME NEW p, NEW s \in StateOf(p), NEW s2, Later(p, s, s2), NEW walk, NEW fs,
           Stacked(p, s, walk, fs)
    PROVE  Stacked(p, s2, walk, fs)
<1>1. ASSUME NEW i \in 1..Len(fs) PROVE FrameIsRight(p, s2, SubSeq(walk, 1, i - 1), fs[i])
  <2> DEFINE snapshot == fs[i].snapshot
  <2>1. FrameIsRight(p, s, SubSeq(walk, 1, i - 1), fs[i]) BY <1>1 DEF Stacked
  <2>2. InReach(s, snapshot) BY <2>1 DEF FrameIsRight
  <2> HIDE DEF snapshot
  <2>3. InReach(s2, snapshot) /\ Rollback(s2, snapshot) = Rollback(s, snapshot)
        BY <2>2, LaterKeeps
  <2> QED BY <2>1, <2>3 DEF FrameIsRight, snapshot
<1> QED BY <1>1 DEF Stacked

LEMMA AppendedEntry ==
    ASSUME NEW S, NEW s \in Seq(S), NEW x \in S
    PROVE  /\ Append(s, x) \in Seq(S) /\ Len(Append(s, x)) = Len(s) + 1 /\ Len(s) \in Nat
           /\ \A i \in 1..Len(s) : Append(s, x)[i] = s[i]
           /\ Append(s, x)[Len(s) + 1] = x
           /\ \A i \in 1..(Len(s) + 1) : i \in 1..Len(s) \/ i = Len(s) + 1
OBVIOUS

(* A decision is put on the stack.                                         *)
LEMMA StackPush ==
    ASSUME NEW p, NEW s \in StateOf(p), NEW walk \in Seq(AssumptionOf(p)),
           NEW S, NEW fs \in Seq(S), Len(walk) = Len(fs), NEW frame \in S,
           frame.snapshot = Snapshot(s), frame.proofs = <<>>, frame.todo = frame.decision,
           frame.decision \in Seq(AssumptionOf(p)),
           frame.decision = AuditDecision(p, Audit(p, walk)), AtRest(p, s, walk),
           Stacked(p, s, walk, fs), Tried(walk, fs), NEW W, Recorded(walk, fs, W)
    PROVE  /\ Stacked(p, s, walk, Append(fs, frame)) /\ Tried(walk, Append(fs, frame))
           /\ Recorded(walk, Append(fs, frame), W)
<1> DEFINE n == Len(fs)
           longer == Append(fs, frame)
<1>1. /\ longer \in Seq(S) /\ Len(longer) = n + 1 /\ n \in Nat
      /\ \A i \in 1..n : longer[i] = fs[i]
      /\ longer[n + 1] = frame
      /\ \A i \in 1..(n + 1) : i \in 1..n \/ i = n + 1
      BY AppendedEntry
<1> HIDE DEF longer
<1>2. SubSeq(walk, 1, (n + 1) - 1) = walk
  <2>1. SubSeq(walk, 1, Len(walk)) = walk BY WholePrefix
  <2>2. (n + 1) - 1 = Len(walk) BY <1>1
  <2> QED BY <2>1, <2>2
<1>3. FrameIsRight(p, s, walk, frame)
  <2>1. InReach(s, Snapshot(s)) /\ Rollback(s, Snapshot(s)) = s BY RollbackNow
  <2> QED BY <2>1 DEF FrameIsRight
<1>4. ASSUME NEW i \in 1..(n + 1) PROVE FrameIsRight(p, s, SubSeq(walk, 1, i - 1), longer[i])
  <2>1. CASE i \in 1..n BY <1>1, <2>1 DEF Stacked
  <2>2. CASE i = n + 1
    <3>1. SubSeq(walk, 1, i - 1) = walk /\ longer[i] = frame BY <1>1, <1>2, <2>2
    <3> QED BY <1>3, <3>1
  <2> QED BY <1>1, <1>4, <2>1, <2>2
<1>5. ASSUME NEW i \in 1..(n + 1), NEW j \in 1..(n + 1), i < j
      PROVE  Ordered(longer[i].snapshot, longer[j].snapshot)
  <2>1. i \in 1..n BY <1>1, <1>5
  <2>2. CASE j \in 1..n BY <1>1, <1>5, <2>1, <2>2 DEF Stacked
  <2>3. CASE j = n + 1
    <3>1. FrameIsRight(p, s, SubSeq(walk, 1, i - 1), fs[i]) BY <2>1 DEF Stacked
    <3>2. InReach(s, fs[i].snapshot) BY <3>1 DEF FrameIsRight
    <3>3. Len(s.trail) \in Nat /\ Len(s.disequalities) \in Nat BY StateFields
    <3>4. Ordered(fs[i].snapshot, Snapshot(s)) BY <3>2, <3>3 DEF InReach, Ordered, Snapshot
    <3> QED BY <1>1, <2>1, <2>3, <3>4
  <2> QED BY <1>1, <1>5, <2>2, <2>3
<1>6. Stacked(p, s, walk, longer) BY <1>1, <1>4, <1>5 DEF Stacked
<1>7. Remaining(frame, 0) BY DEF Remaining
<1>8. ASSUME NEW i \in 1..(n + 1)
      PROVE  IF i <= Len(walk) THEN UnderWay(longer[i], walk[i]) ELSE Remaining(longer[i], 0)
  <2>1. CASE i \in 1..n BY <1>1, <2>1 DEF Tried
  <2>2. CASE i = n + 1
    <3>1. ~(i <= Len(walk)) BY <1>1, <2>2
    <3> QED BY <1>1, <1>7, <2>2, <3>1
  <2> QED BY <1>1, <1>8, <2>1, <2>2
<1>9. Tried(walk, longer) BY <1>1, <1>8 DEF Tried
<1>10. RecordedBy(walk, frame, W) BY DEF RecordedBy
<1>11. ASSUME NEW i \in 1..(n + 1) PROVE RecordedBy(SubSeq(walk, 1, i - 1), longer[i], W)
  <2>1. CASE i \in 1..n BY <1>1, <2>1 DEF Recorded
  <2>2. CASE i = n + 1
    <3>1. SubSeq(walk, 1, i - 1) = walk /\ longer[i] = frame BY <1>1, <1>2, <2>2
    <3> QED BY <1>10, <3>1
  <2> QED BY <1>1, <1>11, <2>1, <2>2
<1>12. Recorded(walk, longer, W) BY <1>1, <1>11 DEF Recorded
<1> QED BY <1>6, <1>9, <1>12 DEF longer

(* The last frame is changed where its decision and snapshot stay.         *)
ChangedLast(fs, fs2) ==
    /\ Len(fs2) = Len(fs) /\ Len(fs) \in Nat \ {0}
    /\ \A i \in 1..(Len(fs) - 1) : fs2[i] = fs[i]
    /\ \A i \in 1..Len(fs) :
          fs2[i].decision = fs[i].decision /\ fs2[i].snapshot = fs[i].snapshot

LEMMA StackChanged ==
    ASSUME NEW p, NEW s, NEW walk, NEW fs, NEW fs2, ChangedLast(fs, fs2), Stacked(p, s, walk, fs)
    PROVE  Stacked(p, s, walk, fs2)
<1>1. Len(fs2) = Len(fs) BY DEF ChangedLast
<1>2. ASSUME NEW i \in 1..Len(fs) PROVE FrameIsRight(p, s, SubSeq(walk, 1, i - 1), fs2[i])
  <2>1. FrameIsRight(p, s, SubSeq(walk, 1, i - 1), fs[i]) BY <1>2 DEF Stacked
  <2>2. fs2[i].decision = fs[i].decision /\ fs2[i].snapshot = fs[i].snapshot
        BY <1>2 DEF ChangedLast
  <2> QED BY <2>1, <2>2 DEF FrameIsRight
<1>3. ASSUME NEW i \in 1..Len(fs), NEW j \in 1..Len(fs), i < j
      PROVE  Ordered(fs2[i].snapshot, fs2[j].snapshot)
  <2>1. Ordered(fs[i].snapshot, fs[j].snapshot) BY <1>3 DEF Stacked
  <2>2. fs2[i].snapshot = fs[i].snapshot /\ fs2[j].snapshot = fs[j].snapshot
        BY <1>3 DEF ChangedLast
  <2> QED BY <2>1, <2>2
<1> QED BY <1>1, <1>2, <1>3 DEF Stacked

(* Another path with the same beginnings.                                  *)
SameBeginnings(walk, walk2, n) ==
    \A i \in 1..n : SubSeq(walk2, 1, i - 1) = SubSeq(walk, 1, i - 1)

LEMMA StackMoved ==
    ASSUME NEW p, NEW s, NEW walk, NEW walk2, NEW fs, SameBeginnings(walk, walk2, Len(fs)),
           NEW W
    PROVE  /\ Stacked(p, s, walk, fs) => Stacked(p, s, walk2, fs)
           /\ Recorded(walk, fs, W) => Recorded(walk2, fs, W)
BY DEF SameBeginnings, Stacked, Recorded

LEMMA AppendBeginnings ==
    ASSUME NEW S, NEW walk \in Seq(S), NEW a \in S
    PROVE  SameBeginnings(walk, Append(walk, a), Len(walk) + 1)
<1> SUFFICES ASSUME NEW i \in 1..(Len(walk) + 1)
             PROVE  SubSeq(Append(walk, a), 1, i - 1) = SubSeq(walk, 1, i - 1)
    BY DEF SameBeginnings
<1>1. i - 1 \in 0..Len(walk) OBVIOUS
<1> DEFINE m == i - 1
<1>2. m \in 0..Len(walk) BY <1>1
<1> HIDE DEF m
<1>3. SubSeq(Append(walk, a), 1, m) = SubSeq(walk, 1, m) BY <1>2, PrefixOfAppend
<1> QED BY <1>3 DEF m

LEMMA FrontBeginnings ==
    ASSUME NEW S, NEW walk \in Seq(S), walk # <<>>
    PROVE  /\ SameBeginnings(walk, Front(walk), Len(walk))
           /\ Front(walk) = SubSeq(walk, 1, Len(walk) - 1)
<1>1. Front(walk) = SubSeq(walk, 1, Len(walk) - 1) BY DEF Front
<1>2. Len(walk) \in Nat \ {0} OBVIOUS
<1>3. ASSUME NEW i \in 1..Len(walk)
      PROVE  SubSeq(Front(walk), 1, i - 1) = SubSeq(walk, 1, i - 1)
  <2> DEFINE m == Len(walk) - 1
             k == i - 1
  <2>1. m \in 0..Len(walk) /\ k \in 0..m BY <1>2, <1>3
  <2>4. m \in 0..Len(walk) BY <2>1
  <2>5. k \in 0..m BY <2>1
  <2>2. Front(walk) = SubSeq(walk, 1, m) BY <1>1
  <2> HIDE DEF m, k
  <2>3. SubSeq(SubSeq(walk, 1, m), 1, k) = SubSeq(walk, 1, k) BY <2>4, <2>5, PrefixOfPrefix
  <2> QED BY <2>2, <2>3 DEF k
<1> QED BY <1>1, <1>3 DEF SameBeginnings

(* What the frames hold for a path in a state.                             *)
FramesAreRight(p, s, walk, fs, trees, W) ==
    /\ fs \in Seq(FrameOf(p, trees))
    /\ \A i \in 1..Len(fs) : fs[i].decision # Complete
    /\ Stacked(p, s, walk, fs) /\ Tried(walk, fs) /\ Recorded(walk, fs, W)

LEMMA UpdatedEntry ==
    ASSUME NEW S, NEW s \in Seq(S), NEW n \in 1..Len(s), NEW x \in S
    PROVE  LET s2 == [s EXCEPT ![n] = x]
           IN  /\ s2 \in Seq(S) /\ Len(s2) = Len(s) /\ s2[n] = x
               /\ \A i \in 1..Len(s) : i # n => s2[i] = s[i]
OBVIOUS

Taken(fs) == [fs EXCEPT ![Len(fs)].todo = Tail(@)]

LEMMA TakenFacts ==
    ASSUME NEW p, NEW trees, NEW fs \in Seq(FrameOf(p, trees)), fs # <<>>, Last(fs).todo # <<>>
    PROVE  /\ Taken(fs) \in Seq(FrameOf(p, trees)) /\ ChangedLast(fs, Taken(fs))
           /\ \A i \in 1..Len(fs) : Taken(fs)[i].proofs = fs[i].proofs
           /\ Last(fs) = fs[Len(fs)]
           /\ Taken(fs)[Len(fs)].todo = Tail(fs[Len(fs)].todo)
<1> DEFINE F == FrameOf(p, trees)
           n == Len(fs)
           frame == fs[n]
           changed == [frame EXCEPT !.todo = Tail(frame.todo)]
<1>1. n \in Nat \ {0} /\ n \in 1..n /\ DOMAIN fs = 1..n OBVIOUS
<1>2. Last(fs) = frame BY DEF Last
<1>3. frame \in F BY <1>1
<1>4. /\ frame.todo \in Seq(AssumptionOf(p)) /\ frame.decision \in Seq(AssumptionOf(p))
      /\ frame.proofs \in Seq(trees) /\ frame.snapshot \in [trail : Nat, disequalities : Nat]
      BY <1>3 DEF FrameOf
<1>5. frame.todo # <<>> BY <1>2
<1>6. Tail(frame.todo) \in Seq(AssumptionOf(p)) BY <1>4, <1>5
<1>8. Taken(fs) = [fs EXCEPT ![n] = changed] BY <1>1 DEF Taken
<1>9. /\ changed \in F
      /\ changed.decision = frame.decision /\ changed.proofs = frame.proofs
      /\ changed.snapshot = frame.snapshot /\ changed.todo = Tail(frame.todo)
  <2> DEFINE todo == Tail(frame.todo)
  <2>1. frame \in FrameOf(p, trees) BY <1>3
  <2>2. todo \in Seq(AssumptionOf(p)) BY <1>6
  <2> HIDE DEF frame
  <2>3. ASSUME NEW x \in Seq(AssumptionOf(p))
        PROVE  LET frame2 == [frame EXCEPT !.todo = x]
               IN  /\ frame2 \in FrameOf(p, trees)
                   /\ frame2.decision = frame.decision /\ frame2.proofs = frame.proofs
                   /\ frame2.snapshot = frame.snapshot /\ frame2.todo = x
        BY <2>1, <2>3 DEF FrameOf
  <2> QED BY <2>2, <2>3
<1> HIDE DEF changed, frame
<1>11. /\ Taken(fs) \in Seq(F) /\ Len(Taken(fs)) = n /\ Taken(fs)[n] = changed
       /\ \A i \in 1..n : i # n => Taken(fs)[i] = fs[i]
  <2>1. fs \in Seq(F) OBVIOUS
  <2>2. changed \in F BY <1>9
  <2>3. n \in 1..Len(fs) BY <1>1
  <2> HIDE DEF F, n
  <2>4. LET s2 == [fs EXCEPT ![n] = changed]
        IN  /\ s2 \in Seq(F) /\ Len(s2) = Len(fs) /\ s2[n] = changed
            /\ \A i \in 1..Len(fs) : i # n => s2[i] = fs[i]
        BY <2>1, <2>2, <2>3, UpdatedEntry
  <2> QED BY <1>8, <2>4 DEF n
<1>12. fs[n] = frame BY DEF frame
<1>13. \A i \in 1..n : /\ Taken(fs)[i].decision = fs[i].decision
                       /\ Taken(fs)[i].snapshot = fs[i].snapshot
                       /\ Taken(fs)[i].proofs = fs[i].proofs
       BY <1>9, <1>11, <1>12
<1>14. ChangedLast(fs, Taken(fs))
  <2>1. n \in Nat /\ n # 0 BY <1>1
  <2>2. \A i \in 1..(n - 1) : i \in 1..n /\ i # n BY <2>1
  <2> QED BY <2>1, <2>2, <1>11, <1>13 DEF ChangedLast
<1> QED BY <1>2, <1>9, <1>11, <1>13, <1>14 DEF frame

(* A branch is taken from the last frame.                                  *)
BranchTaken(p, s, walk, fs, trees, W, a) ==
    /\ a \in AssumptionOf(p)
    /\ \E i \in DOMAIN AuditDecision(p, Audit(p, walk)) : a = AuditDecision(p, Audit(p, walk))[i]
    /\ FramesAreRight(p, s, Append(walk, a), Taken(fs), trees, W)
    /\ Len(Taken(fs)) = Len(fs)

LEMMA StackBranch ==
    ASSUME NEW p, NEW s, NEW walk \in Seq(AssumptionOf(p)), NEW trees, NEW fs, NEW W,
           FramesAreRight(p, s, walk, fs, trees, W), Len(fs) = Len(walk) + 1,
           Last(fs).todo # <<>>
    PROVE  BranchTaken(p, s, walk, fs, trees, W, Head(Last(fs).todo))
<1> DEFINE n == Len(fs)
           frame == fs[n]
           a == Head(frame.todo)
           longer == Append(walk, a)
           m == Len(frame.proofs)
<1>1. fs \in Seq(FrameOf(p, trees)) /\ Stacked(p, s, walk, fs) /\ Tried(walk, fs)
      /\ Recorded(walk, fs, W) /\ \A i \in 1..Len(fs) : fs[i].decision # Complete
      BY DEF FramesAreRight
<1>2. fs \in Seq(FrameOf(p, trees)) BY <1>1
<1>3. Len(walk) \in Nat /\ n = Len(walk) + 1 /\ fs # <<>>
  <2>1. Len(walk) \in Nat OBVIOUS
  <2>2. Len(<<>>) = 0 OBVIOUS
  <2> QED BY <2>1, <2>2
<1>4. fs # <<>> BY <1>3
<1>5. /\ Taken(fs) \in Seq(FrameOf(p, trees)) /\ ChangedLast(fs, Taken(fs))
      /\ \A i \in 1..n : Taken(fs)[i].proofs = fs[i].proofs
      /\ Last(fs) = frame
      /\ Taken(fs)[n].todo = Tail(frame.todo)
      BY <1>2, <1>4, TakenFacts
<1>6. n \in 1..n BY <1>3
<1>7. frame \in FrameOf(p, trees) BY <1>2, <1>6
<1>8. /\ frame.todo \in Seq(AssumptionOf(p)) /\ frame.todo # <<>>
      /\ frame.decision \in Seq(AssumptionOf(p)) /\ m \in Nat
  <2>1. frame.proofs \in Seq(trees) BY <1>7 DEF FrameOf
  <2>2. frame.todo \in Seq(AssumptionOf(p)) /\ frame.decision \in Seq(AssumptionOf(p))
        BY <1>7 DEF FrameOf
  <2> QED BY <1>5, <2>1, <2>2
<1>9. Remaining(frame, 0) BY <1>1, <1>3, <1>6 DEF Tried
<1>10. frame.decision = AuditDecision(p, Audit(p, walk))
  <2>1. FrameIsRight(p, s, SubSeq(walk, 1, n - 1), frame) BY <1>1, <1>6 DEF Stacked
  <2>2. n - 1 = Len(walk) BY <1>3
  <2>3. SubSeq(walk, 1, n - 1) = walk BY <2>2, WholePrefix
  <2> QED BY <2>1, <2>3 DEF FrameIsRight
<1> HIDE DEF frame, n, m
<1>11. /\ a \in AssumptionOf(p) /\ a = frame.todo[1] /\ Len(frame.todo) \in Nat \ {0}
       /\ Len(Tail(frame.todo)) = Len(frame.todo) - 1
       /\ \A j \in 1..(Len(frame.todo) - 1) : Tail(frame.todo)[j] = frame.todo[j + 1]
       BY <1>8
<1>12. /\ Len(frame.todo) + m = Len(frame.decision)
       /\ \A j \in 1..Len(frame.todo) : frame.todo[j] = frame.decision[m + j]
  <2>1. Len(frame.todo) + m + 0 = Len(frame.decision) BY <1>9 DEF Remaining, m
  <2>2. \A j \in 1..Len(frame.todo) : frame.todo[j] = frame.decision[m + 0 + j]
        BY <1>9 DEF Remaining, m
  <2>3. m + 0 = m BY <1>8
  <2>4. \A j \in 1..Len(frame.todo) : frame.todo[j] = frame.decision[m + j] BY <2>2, <2>3
  <2>5. Len(frame.todo) + m + 0 = Len(frame.todo) + m BY <1>8, <1>11
  <2> QED BY <2>1, <2>4, <2>5
<1>13. a = frame.decision[m + 1] /\ m + 1 \in DOMAIN frame.decision
  <2>1. 1 \in 1..Len(frame.todo) BY <1>11
  <2>2. a = frame.decision[m + 1] BY <1>11, <1>12, <2>1
  <2>3. m + 1 \in 1..Len(frame.decision) BY <1>8, <1>11, <1>12
  <2>4. DOMAIN frame.decision = 1..Len(frame.decision) BY <1>8
  <2> QED BY <2>2, <2>3, <2>4
<1> HIDE DEF a
<1>14. SameBeginnings(walk, longer, n)
  <2>1. a \in AssumptionOf(p) BY <1>11
  <2>2. SameBeginnings(walk, longer, Len(walk) + 1) BY <2>1, AppendBeginnings
  <2> QED BY <1>3, <2>2
<1>15. Len(Taken(fs)) = n /\ n \in Nat BY <1>3, <1>5 DEF ChangedLast, n
<1>16. Stacked(p, s, longer, Taken(fs))
  <2>1. Stacked(p, s, walk, Taken(fs)) BY <1>1, <1>5, StackChanged
  <2> HIDE DEF longer
  <2> QED BY <1>14, <1>15, <2>1, StackMoved
<1>17. Recorded(longer, Taken(fs), W)
  <2>1. Recorded(walk, Taken(fs), W)
    <3>1. ASSUME NEW i \in 1..n PROVE RecordedBy(SubSeq(walk, 1, i - 1), Taken(fs)[i], W)
      <4>1. RecordedBy(SubSeq(walk, 1, i - 1), fs[i], W) BY <1>1, <3>1 DEF Recorded, n
      <4>2. Taken(fs)[i].proofs = fs[i].proofs /\ Taken(fs)[i].decision = fs[i].decision
            BY <1>5, <3>1 DEF ChangedLast, n
      <4> QED BY <4>1, <4>2 DEF RecordedBy
    <3> QED BY <1>15, <3>1 DEF Recorded
  <2> HIDE DEF longer
  <2> QED BY <1>14, <1>15, <2>1, StackMoved
<1>18. /\ \A i \in 1..Len(walk) : longer[i] = walk[i]
       /\ longer[n] = a /\ Len(longer) = n
  <2>1. a \in AssumptionOf(p) BY <1>11
  <2>2. /\ Len(longer) = Len(walk) + 1
        /\ \A i \in 1..Len(walk) : longer[i] = walk[i]
        /\ longer[Len(walk) + 1] = a
        BY <2>1, AppendedEntry
  <2> HIDE DEF longer
  <2> QED BY <1>3, <2>2
<1>19. ASSUME NEW i \in 1..n PROVE UnderWay(Taken(fs)[i], longer[i])
  <2>1. CASE i # n
    <3>1. i \in 1..Len(walk) /\ i \in 1..(n - 1) /\ i <= Len(walk) BY <1>3, <1>15, <1>19, <2>1
    <3>2. Taken(fs)[i] = fs[i] BY <1>5, <3>1 DEF ChangedLast, n
    <3>3. UnderWay(fs[i], walk[i]) BY <1>1, <1>19, <3>1 DEF Tried, n
    <3> QED BY <1>18, <3>1, <3>2, <3>3
  <2>2. CASE i = n
    <3> DEFINE last == Taken(fs)[n]
    <3>1. last.decision = frame.decision /\ last.proofs = frame.proofs
          /\ last.todo = Tail(frame.todo)
          BY <1>5, <1>6 DEF ChangedLast, n, frame
    <3> HIDE DEF last
    <3>2. Len(last.todo) + Len(last.proofs) + 1 = Len(last.decision)
      <4>1. Len(last.todo) = Len(frame.todo) - 1 /\ Len(last.proofs) = m BY <1>11, <3>1 DEF m
      <4> QED BY <1>8, <1>11, <1>12, <3>1, <4>1
    <3>3. ASSUME NEW j \in 1..Len(last.todo)
          PROVE  last.todo[j] = last.decision[Len(last.proofs) + 1 + j]
      <4>1. j \in 1..(Len(frame.todo) - 1) BY <1>11, <3>1, <3>3
      <4>2. last.todo[j] = frame.todo[j + 1] BY <1>11, <3>1, <4>1
      <4>3. j + 1 \in 1..Len(frame.todo) BY <1>11, <4>1
      <4>4. frame.todo[j + 1] = frame.decision[m + (j + 1)] BY <1>12, <4>3
      <4>5. Len(last.proofs) = m BY <3>1 DEF m
      <4>6. m + (j + 1) = m + 1 + j
        <5>1. m \in Nat /\ j \in Nat BY <1>8, <4>3
        <5> QED BY <5>1
      <4> QED BY <3>1, <4>2, <4>4, <4>5, <4>6
    <3>4. Remaining(last, 1) BY <3>2, <3>3 DEF Remaining
    <3>5. longer[n] = last.decision[Len(last.proofs) + 1] BY <1>13, <1>18, <3>1 DEF m
    <3>6. UnderWay(last, longer[n]) BY <3>4, <3>5 DEF UnderWay
    <3> QED BY <2>2, <3>6 DEF last
  <2> QED BY <2>1, <2>2
<1>20. Tried(longer, Taken(fs))
  <2>1. \A i \in 1..n : i <= Len(longer) BY <1>15, <1>18
  <2> HIDE DEF longer
  <2> QED BY <1>15, <1>19, <2>1 DEF Tried
<1>21. \A i \in 1..n : Taken(fs)[i].decision # Complete BY <1>1, <1>5 DEF ChangedLast, n
<1>22. FramesAreRight(p, s, longer, Taken(fs), trees, W)
       BY <1>5, <1>15, <1>16, <1>17, <1>20, <1>21 DEF FramesAreRight
<1>23. a = Head(Last(fs).todo) BY <1>5 DEF a
<1> HIDE DEF longer
<1>24. BranchTaken(p, s, walk, fs, trees, W, a)
       BY <1>10, <1>11, <1>13, <1>15, <1>22 DEF BranchTaken, longer, n
<1> QED BY <1>23, <1>24

Returned(fs, tree) == [fs EXCEPT ![Len(fs)].proofs = Append(@, tree)]

LEMMA ReturnedFacts ==
    ASSUME NEW p, NEW trees, NEW fs \in Seq(FrameOf(p, trees)), fs # <<>>, NEW tree \in trees
    PROVE  /\ Returned(fs, tree) \in Seq(FrameOf(p, trees)) /\ ChangedLast(fs, Returned(fs, tree))
           /\ \A i \in 1..Len(fs) : Returned(fs, tree)[i].todo = fs[i].todo
           /\ Last(fs) = fs[Len(fs)]
           /\ Returned(fs, tree)[Len(fs)].proofs = Append(fs[Len(fs)].proofs, tree)
<1> DEFINE F == FrameOf(p, trees)
           n == Len(fs)
           frame == fs[n]
           changed == [frame EXCEPT !.proofs = Append(frame.proofs, tree)]
           fs2 == Returned(fs, tree)
<1>1. n \in Nat \ {0} /\ n \in 1..n /\ DOMAIN fs = 1..n OBVIOUS
<1>2. Last(fs) = frame BY DEF Last
<1>3. frame \in F BY <1>1
<1>4. frame.proofs \in Seq(trees) BY <1>3 DEF FrameOf
<1>6. Append(frame.proofs, tree) \in Seq(trees) BY <1>4
<1>8. fs2 = [fs EXCEPT ![n] = changed] BY <1>1 DEF Returned
<1>9. /\ changed \in F
      /\ changed.decision = frame.decision /\ changed.todo = frame.todo
      /\ changed.snapshot = frame.snapshot /\ changed.proofs = Append(frame.proofs, tree)
  <2> DEFINE proofs == Append(frame.proofs, tree)
  <2>1. frame \in FrameOf(p, trees) BY <1>3
  <2>2. proofs \in Seq(trees) BY <1>6
  <2> HIDE DEF frame
  <2>3. ASSUME NEW x \in Seq(trees)
        PROVE  LET frame2 == [frame EXCEPT !.proofs = x]
               IN  /\ frame2 \in FrameOf(p, trees)
                   /\ frame2.decision = frame.decision /\ frame2.todo = frame.todo
                   /\ frame2.snapshot = frame.snapshot /\ frame2.proofs = x
        BY <2>1, <2>3 DEF FrameOf
  <2> QED BY <2>2, <2>3
<1> HIDE DEF changed, frame, fs2
<1>11. /\ fs2 \in Seq(F) /\ Len(fs2) = n /\ fs2[n] = changed
       /\ \A i \in 1..n : i # n => fs2[i] = fs[i]
  <2>1. fs \in Seq(F) OBVIOUS
  <2>2. changed \in F BY <1>9
  <2>3. n \in 1..Len(fs) BY <1>1
  <2> HIDE DEF F, n
  <2>4. LET s2 == [fs EXCEPT ![n] = changed]
        IN  /\ s2 \in Seq(F) /\ Len(s2) = Len(fs) /\ s2[n] = changed
            /\ \A i \in 1..Len(fs) : i # n => s2[i] = fs[i]
        BY <2>1, <2>2, <2>3, UpdatedEntry
  <2> QED BY <1>8, <2>4 DEF n
<1>12. fs[n] = frame BY DEF frame
<1>13. \A i \in 1..n : /\ fs2[i].decision = fs[i].decision
                       /\ fs2[i].snapshot = fs[i].snapshot
                       /\ fs2[i].todo = fs[i].todo
       BY <1>9, <1>11, <1>12
<1>14. ChangedLast(fs, fs2)
  <2>1. n \in Nat /\ n # 0 BY <1>1
  <2>2. \A i \in 1..(n - 1) : i \in 1..n /\ i # n BY <2>1
  <2> QED BY <2>1, <2>2, <1>11, <1>13 DEF ChangedLast
<1> QED BY <1>2, <1>9, <1>11, <1>13, <1>14 DEF frame, fs2

(* A refutation is handed to the last frame, and its branch undone.        *)
BranchReturned(p, s, walk, fs, trees, W, tree, s2, walk2) ==
    /\ walk2 \in Seq(AssumptionOf(p)) /\ Len(walk2) = Len(walk) - 1
    /\ AtRest(p, s2, walk2)
    /\ Len(s2.trail) <= Len(s.trail) /\ Len(s2.disequalities) <= Len(s.disequalities)
    /\ FramesAreRight(p, s2, walk2, Returned(fs, tree), trees, W)
    /\ Len(Returned(fs, tree)) = Len(fs)

LEMMA StackRollback ==
    ASSUME NEW p, NEW s \in StateOf(p), NEW walk, NEW fs, Len(fs) \in Nat \ {0},
           Stacked(p, s, walk, fs)
    PROVE  Stacked(p, Rollback(s, fs[Len(fs)].snapshot), walk, fs)
<1> DEFINE n == Len(fs)
           late == fs[n].snapshot
<1>1. \A i \in 1..n : FrameIsRight(p, s, SubSeq(walk, 1, i - 1), fs[i]) BY DEF Stacked
<1>2. \A i \in 1..n : InReach(s, fs[i].snapshot) BY <1>1 DEF FrameIsRight
<1>3. n \in 1..n OBVIOUS
<1>4. InReach(s, late) BY <1>2, <1>3
<1>5. Len(s.trail) \in Nat /\ Len(s.disequalities) \in Nat BY StateFields
<1>6. ASSUME NEW i \in 1..n PROVE Ordered(fs[i].snapshot, late)
  <2>1. CASE i = n BY <1>4, <1>5, <2>1 DEF Ordered, InReach
  <2>2. CASE i # n
    <3>1. i < n BY <1>6, <2>2
    <3> QED BY <1>3, <1>6, <3>1 DEF Stacked
  <2> QED BY <2>1, <2>2
<1> HIDE DEF late
<1>7. ASSUME NEW i \in 1..n
      PROVE  FrameIsRight(p, Rollback(s, late), SubSeq(walk, 1, i - 1), fs[i])
  <2> DEFINE early == fs[i].snapshot
  <2>1. InReach(s, early) BY <1>2, <1>7
  <2>2. early.trail <= late.trail /\ early.disequalities <= late.disequalities
        BY <1>6, <1>7 DEF Ordered
  <2>5. FrameIsRight(p, s, SubSeq(walk, 1, i - 1), fs[i]) BY <1>1, <1>7
  <2> HIDE DEF early, n
  <2>3. /\ InReach(Rollback(s, late), early)
        /\ Rollback(Rollback(s, late), early) = Rollback(s, early)
        BY <1>4, <2>1, <2>2, RollbackTwice
  <2> QED BY <2>3, <2>5 DEF FrameIsRight, early
<1>8. Stacked(p, Rollback(s, late), walk, fs) BY <1>7 DEF Stacked
<1> QED BY <1>8 DEF late

LEMMA StackReturn ==
    ASSUME NEW p, NEW s \in StateOf(p), NEW walk \in Seq(AssumptionOf(p)), NEW trees, NEW fs, NEW W,
           FramesAreRight(p, s, walk, fs, trees, W), Len(fs) = Len(walk), fs # <<>>,
           NEW tree \in trees, [path |-> walk, proof |-> tree] \in W
    PROVE  BranchReturned(p, s, walk, fs, trees, W, tree,
                          Rollback(s, Last(fs).snapshot), Front(walk))
<1> DEFINE n == Len(fs)
           frame == fs[n]
           walk2 == Front(walk)
           fs2 == Returned(fs, tree)
           s2 == Rollback(s, frame.snapshot)
           m == Len(frame.proofs)
<1>1. fs \in Seq(FrameOf(p, trees)) /\ Stacked(p, s, walk, fs) /\ Tried(walk, fs)
      /\ Recorded(walk, fs, W) /\ \A i \in 1..Len(fs) : fs[i].decision # Complete
      BY DEF FramesAreRight
<1>2. fs \in Seq(FrameOf(p, trees)) BY <1>1
<1>3. n \in Nat \ {0} /\ n = Len(walk) /\ walk # <<>>
  <2>1. n \in Nat \ {0} BY <1>2
  <2>2. Len(<<>>) = 0 OBVIOUS
  <2> QED BY <2>1, <2>2
<1>4. /\ fs2 \in Seq(FrameOf(p, trees)) /\ ChangedLast(fs, fs2)
      /\ \A i \in 1..n : fs2[i].todo = fs[i].todo
      /\ Last(fs) = frame
      /\ fs2[n].proofs = Append(frame.proofs, tree)
      BY <1>2, ReturnedFacts
<1>5. n \in 1..n BY <1>3
<1>6. frame \in FrameOf(p, trees) BY <1>2, <1>5
<1>7. frame.proofs \in Seq(trees) BY <1>6 DEF FrameOf
<1>8. m \in Nat BY <1>7
<1>9. UnderWay(frame, walk[n]) BY <1>1, <1>3, <1>5 DEF Tried
<1>10. FrameIsRight(p, s, SubSeq(walk, 1, n - 1), frame) BY <1>1, <1>5 DEF Stacked
<1>11. SameBeginnings(walk, walk2, n) /\ walk2 = SubSeq(walk, 1, n - 1)
  <2>1. walk # <<>> BY <1>3
  <2>2. SameBeginnings(walk, walk2, Len(walk)) /\ walk2 = SubSeq(walk, 1, Len(walk) - 1)
        BY <2>1, FrontBeginnings
  <2> QED BY <1>3, <2>2
<1>12. /\ walk2 \in Seq(AssumptionOf(p)) /\ Len(walk2) = n - 1
       /\ \A i \in 1..(n - 1) : walk2[i] = walk[i]
       /\ walk = Append(walk2, walk[n])
  <2>1. walk # <<>> BY <1>3
  <2>2. /\ Front(walk) \in Seq(AssumptionOf(p)) /\ Len(Front(walk)) = Len(walk) - 1
        /\ \A i \in 1..(Len(walk) - 1) : Front(walk)[i] = walk[i]
        BY <2>1, FrontEntry
  <2> HIDE DEF walk2
  <2>3. /\ walk2 \in Seq(AssumptionOf(p)) /\ Len(walk2) = n - 1
        /\ \A i \in 1..(n - 1) : walk2[i] = walk[i]
        BY <1>3, <2>2 DEF walk2
  <2> HIDE DEF n
  <2>4. walk[n] \in AssumptionOf(p) BY <1>3
  <2>5. walk = Append(walk2, walk[n])
    <3> DEFINE x == walk[n]
               w == Append(walk2, x)
    <3>0. walk2 \in Seq(AssumptionOf(p)) /\ x \in AssumptionOf(p) BY <2>3, <2>4
    <3>1. /\ w \in Seq(AssumptionOf(p)) /\ Len(w) = Len(walk2) + 1
          /\ \A i \in 1..Len(walk2) : w[i] = walk2[i]
          /\ w[Len(walk2) + 1] = x
          /\ \A i \in 1..(Len(walk2) + 1) : i \in 1..Len(walk2) \/ i = Len(walk2) + 1
          BY <3>0, AppendedEntry
    <3> HIDE DEF w, x
    <3>2. Len(w) = n /\ \A i \in 1..n : i \in 1..(n - 1) \/ i = n BY <1>3, <2>3, <3>1
    <3>3. \A i \in 1..n : w[i] = walk[i] BY <1>3, <2>3, <3>1, <3>2 DEF x
    <3>4. Len(walk) = n /\ w \in Seq(AssumptionOf(p)) BY <1>3, <3>1
    <3>5. w = walk BY <3>2, <3>3, <3>4
    <3> QED BY <3>5 DEF w, x
  <2> QED BY <2>3, <2>5
<1>13. AtRest(p, s2, walk2) /\ InReach(s, frame.snapshot)
       /\ frame.decision = AuditDecision(p, Audit(p, walk2))
       BY <1>10, <1>11 DEF FrameIsRight
<1>14. Len(s2.trail) <= Len(s.trail) /\ Len(s2.disequalities) <= Len(s.disequalities)
  <2> DEFINE snapshot == frame.snapshot
  <2>1. InReach(s, snapshot) BY <1>13
  <2>2. Len(s.trail) \in Nat /\ Len(s.disequalities) \in Nat BY StateFields
  <2> HIDE DEF snapshot, n
  <2>3. Len(Rollback(s, snapshot).trail) = snapshot.trail
        /\ Len(Rollback(s, snapshot).disequalities) = snapshot.disequalities
        BY <2>1, RollbackFacts
  <2> QED BY <2>1, <2>2, <2>3 DEF InReach, snapshot
<1>15. Len(fs2) = n BY <1>4 DEF ChangedLast
<1>16. Stacked(p, s2, walk2, fs2)
  <2>1. Stacked(p, s, walk, fs) BY <1>1
  <2>2. Len(fs) \in Nat \ {0} BY <1>3
  <2>3. Stacked(p, s2, walk, fs) BY <2>1, <2>2, StackRollback
  <2> HIDE DEF s2, fs2, walk2
  <2>4. Stacked(p, s2, walk, fs2) BY <1>4, <2>3, StackChanged
  <2> QED BY <1>11, <1>15, <2>4, StackMoved
<1> HIDE DEF s2, fs2, walk2, frame, n, m
<1>17. Remaining(frame, 1) /\ walk[n] = frame.decision[m + 1] BY <1>9 DEF UnderWay, m
<1>18. Len(fs2[n].proofs) = m + 1 /\ fs2[n].proofs[m + 1] = tree
       /\ \A j \in 1..m : fs2[n].proofs[j] = frame.proofs[j]
       BY <1>4, <1>7, AppendedEntry DEF m
<1>19. fs2[n].decision = frame.decision /\ fs2[n].todo = frame.todo
       BY <1>4, <1>5 DEF ChangedLast, n, frame
<1>20. Tried(walk2, fs2)
  <2> SUFFICES ASSUME NEW i \in 1..n
               PROVE  IF i <= Len(walk2) THEN UnderWay(fs2[i], walk2[i]) ELSE Remaining(fs2[i], 0)
      BY <1>15 DEF Tried
  <2>1. CASE i # n
    <3>1. i \in 1..(n - 1) /\ i <= Len(walk2) /\ i <= Len(walk) BY <1>3, <1>12, <2>1 DEF n
    <3>2. fs2[i] = fs[i] BY <1>4, <3>1 DEF ChangedLast, n
    <3>3. UnderWay(fs[i], walk[i]) BY <1>1, <3>1 DEF Tried, n
    <3> QED BY <1>12, <3>1, <3>2, <3>3
  <2>2. CASE i = n
    <3>1. ~(i <= Len(walk2)) BY <1>3, <1>12, <2>2
    <3>2. Len(frame.todo) + m + 1 = Len(frame.decision)
          /\ \A j \in 1..Len(frame.todo) : frame.todo[j] = frame.decision[m + 1 + j]
          BY <1>17 DEF Remaining, m
    <3>3. Len(frame.todo) \in Nat
      <4>1. frame.todo \in Seq(AssumptionOf(p)) BY <1>6 DEF FrameOf
      <4> QED BY <4>1
    <3>4. Len(frame.todo) + (m + 1) + 0 = Len(frame.decision)
      <4>1. Len(frame.todo) + m + 1 = Len(frame.decision) BY <3>2
      <4>2. \A x, y \in Nat : x + y + 1 = x + (y + 1) + 0 OBVIOUS
      <4>3. Len(frame.todo) + m + 1 = Len(frame.todo) + (m + 1) + 0 BY <1>8, <3>3, <4>2
      <4> QED BY <4>1, <4>3
    <3>5. m + 1 + 0 = m + 1 BY <1>8
    <3>6. Remaining(fs2[n], 0) BY <1>18, <1>19, <3>2, <3>4, <3>5 DEF Remaining
    <3> QED BY <2>2, <3>1, <3>6
  <2> QED BY <2>1, <2>2
<1>21. Recorded(walk2, fs2, W)
  <2>1. ASSUME NEW i \in 1..n PROVE RecordedBy(SubSeq(walk, 1, i - 1), fs2[i], W)
    <3>1. RecordedBy(SubSeq(walk, 1, i - 1), fs[i], W) BY <1>1, <2>1 DEF Recorded, n
    <3>2. CASE i # n
      <4>1. i \in 1..(n - 1) BY <1>3, <2>1, <3>2
      <4>2. fs2[i] = fs[i] BY <1>4, <4>1 DEF ChangedLast, n
      <4> QED BY <3>1, <4>2
    <3>3. CASE i = n
      <4>1. SubSeq(walk, 1, i - 1) = walk2 BY <1>11, <3>3
      <4>2. \A j \in 1..m : NodeAt(walk2, frame.decision[j], frame.proofs[j]) \in W
            BY <3>1, <3>3, <4>1 DEF RecordedBy, frame, m
      <4>3. NodeAt(walk2, walk[n], tree) \in W BY <1>12 DEF NodeAt
      <4>4. \A j \in 1..(m + 1) : j \in 1..m \/ j = m + 1 BY <1>8
      <4>5. \A j \in 1..(m + 1) : NodeAt(walk2, frame.decision[j], fs2[n].proofs[j]) \in W
            BY <1>17, <1>18, <4>2, <4>3, <4>4
      <4>6. RecordedBy(walk2, fs2[n], W) BY <1>18, <1>19, <4>5 DEF RecordedBy
      <4> QED BY <3>3, <4>1, <4>6
    <3> QED BY <3>2, <3>3
  <2>2. Recorded(walk, fs2, W) BY <1>15, <2>1 DEF Recorded
  <2> QED BY <1>11, <1>15, <2>2, StackMoved
<1>22. \A i \in 1..n : fs2[i].decision # Complete BY <1>1, <1>4 DEF ChangedLast, n
<1>23. FramesAreRight(p, s2, walk2, fs2, trees, W)
       BY <1>4, <1>15, <1>16, <1>20, <1>21, <1>22 DEF FramesAreRight
<1>24. BranchReturned(p, s, walk, fs, trees, W, tree, s2, walk2)
       BY <1>3, <1>12, <1>13, <1>14, <1>15, <1>23 DEF BranchReturned, fs2, n
<1>25. s2 = Rollback(s, Last(fs).snapshot) /\ walk2 = Front(walk) BY <1>4 DEF s2, walk2
<1> QED BY <1>24, <1>25

(* All branches are refuted: the decision leaves the stack, and its split  *)
(* holds.                                                                  *)
AllReturned(p, s, walk, fs, trees, W) ==
    LET node == [path |-> walk, proof |-> Split(Last(fs).decision, Last(fs).proofs)]
    IN  /\ FramesAreRight(p, s, walk, Front(fs), trees, W) /\ Len(Front(fs)) = Len(walk)
        /\ NodeHolds(p, node) /\ Below(node) \subseteq W

LEMMA StackPop ==
    ASSUME NEW p, WellFormed(p), NEW s, NEW walk \in Seq(AssumptionOf(p)), AtRest(p, s, walk),
           NEW trees, NEW fs, NEW W,
           FramesAreRight(p, s, walk, fs, trees, W), Len(fs) = Len(walk) + 1, Last(fs).todo = <<>>
    PROVE  AllReturned(p, s, walk, fs, trees, W)
<1> DEFINE n == Len(fs)
           frame == fs[n]
           fs2 == Front(fs)
           tree == Split(frame.decision, frame.proofs)
           node == [path |-> walk, proof |-> tree]
           m == Len(frame.proofs)
<1>1. fs \in Seq(FrameOf(p, trees)) /\ Stacked(p, s, walk, fs) /\ Tried(walk, fs)
      /\ Recorded(walk, fs, W) /\ \A i \in 1..Len(fs) : fs[i].decision # Complete
      BY DEF FramesAreRight
<1>2. fs \in Seq(FrameOf(p, trees)) BY <1>1
<1>3. Len(walk) \in Nat /\ n = Len(walk) + 1 /\ fs # <<>> /\ n \in 1..n /\ n \in Nat \ {0}
      /\ n - 1 = Len(walk)
  <2>1. Len(walk) \in Nat OBVIOUS
  <2>2. Len(<<>>) = 0 OBVIOUS
  <2> QED BY <2>1, <2>2
<1>4. /\ fs2 \in Seq(FrameOf(p, trees)) /\ Len(fs2) = n - 1
      /\ \A i \in 1..(n - 1) : fs2[i] = fs[i]
  <2>1. fs # <<>> BY <1>3
  <2>2. /\ Front(fs) \in Seq(FrameOf(p, trees)) /\ Len(Front(fs)) = Len(fs) - 1
        /\ \A i \in 1..(Len(fs) - 1) : Front(fs)[i] = fs[i]
        BY <1>2, <2>1, FrontEntry
  <2> QED BY <2>2
<1>5. Last(fs) = frame BY DEF Last
<1>6. frame \in FrameOf(p, trees) BY <1>2, <1>3
<1>7. frame.decision \in Seq(AssumptionOf(p)) /\ frame.proofs \in Seq(trees) BY <1>6 DEF FrameOf
<1>8. DOMAIN frame.decision = 1..Len(frame.decision) /\ DOMAIN frame.proofs = 1..m /\ m \in Nat
      BY <1>7
<1>9. Len(frame.decision) = m
  <2>1. Remaining(frame, 0) BY <1>1, <1>3 DEF Tried
  <2>2. Len(frame.todo) + m + 0 = Len(frame.decision) BY <2>1 DEF Remaining
  <2>3. Len(frame.todo) = 0
    <3>1. frame.todo = <<>> BY <1>5
    <3> QED BY <3>1
  <2>4. \A x \in Nat : 0 + x + 0 = x OBVIOUS
  <2> QED BY <1>8, <2>2, <2>3, <2>4
<1>10. SubSeq(walk, 1, n - 1) = walk
  <2>1. SubSeq(walk, 1, Len(walk)) = walk BY WholePrefix
  <2> QED BY <1>3, <2>1
<1>11. FrameIsRight(p, s, walk, frame) BY <1>1, <1>3, <1>10 DEF Stacked
<1>12. frame.decision = AuditDecision(p, Audit(p, walk)) /\ frame.decision # Complete
       BY <1>1, <1>3, <1>11 DEF FrameIsRight
<1>13. RecordedBy(walk, frame, W) BY <1>1, <1>3, <1>10 DEF Recorded
<1>14. ~Audit(p, walk).conflict BY RestIsAudited
<1> HIDE DEF frame, fs2, n, m
<1>15. DOMAIN frame.decision = 1..m /\ DOMAIN frame.proofs = 1..m BY <1>8, <1>9
<1>16. /\ tree.split
       /\ DOMAIN tree.branches = 1..m
       /\ \A i \in 1..m : /\ tree.branches[i].assume = frame.decision[i]
                          /\ tree.branches[i].proof = frame.proofs[i]
       BY <1>15 DEF Split
<1> HIDE DEF tree
<1>17. node.path = walk /\ node.proof = tree OBVIOUS
<1> HIDE DEF node
<1>18. NodeHolds(p, node)
  <2> DEFINE d == frame.decision
             e == [i \in 1..m |-> tree.branches[i].assume]
  <2>1. d = [i \in 1..m |-> d[i]]
    <3>1. d \in Seq(AssumptionOf(p)) /\ DOMAIN d = 1..m BY <1>7, <1>15
    <3> HIDE DEF d
    <3>2. d \in [1..Len(d) -> AssumptionOf(p)] BY <3>1
    <3>3. 1..Len(d) = 1..m BY <3>1, <3>2
    <3> QED BY <3>2, <3>3
  <2>2. \A i \in 1..m : d[i] = tree.branches[i].assume BY <1>16
  <2>3. e = d
    <3> HIDE DEF d
    <3> QED BY <2>1, <2>2
  <2>4. Covers(p, Audit(p, walk), e) BY <1>12, <2>3 DEF Covers
  <2> HIDE DEF d
  <2>5. [i \in DOMAIN tree.branches |-> tree.branches[i].assume] = e BY <1>16
  <2> HIDE DEF e
  <2> QED BY <1>14, <1>16, <1>17, <2>4, <2>5 DEF NodeHolds
<1>19. Below(node) \subseteq W
  <2> SUFFICES ASSUME NEW branch \in Range(tree.branches)
               PROVE  NodeAt(walk, branch.assume, branch.proof) \in W
      BY <1>17 DEF Below, NodeAt
  <2>1. PICK i \in 1..m : branch = tree.branches[i] BY <1>16 DEF Range
  <2>2. branch.assume = frame.decision[i] /\ branch.proof = frame.proofs[i] BY <1>16, <2>1
  <2>3. NodeAt(walk, frame.decision[i], frame.proofs[i]) \in W BY <1>13 DEF RecordedBy, m
  <2> QED BY <2>2, <2>3
<1>20. ASSUME NEW i \in 1..(n - 1) PROVE i \in 1..Len(fs) /\ fs2[i] = fs[i] /\ i <= Len(walk)
       BY <1>3, <1>4, <1>20 DEF n
<1>21. Stacked(p, s, walk, fs2)
  <2>1. \A i \in 1..(n - 1) : FrameIsRight(p, s, SubSeq(walk, 1, i - 1), fs2[i])
        BY <1>1, <1>20 DEF Stacked
  <2>2. \A i, j \in 1..(n - 1) : i < j => Ordered(fs2[i].snapshot, fs2[j].snapshot)
        BY <1>1, <1>20 DEF Stacked
  <2> QED BY <1>4, <2>1, <2>2 DEF Stacked
<1>22. Tried(walk, fs2)
  <2>1. \A i \in 1..(n - 1) : UnderWay(fs2[i], walk[i]) /\ i <= Len(walk) BY <1>1, <1>20 DEF Tried
  <2> QED BY <1>4, <2>1 DEF Tried
<1>23. Recorded(walk, fs2, W) BY <1>1, <1>4, <1>20 DEF Recorded
<1>24. \A i \in 1..(n - 1) : fs2[i].decision # Complete BY <1>1, <1>20
<1>25. FramesAreRight(p, s, walk, fs2, trees, W)
       BY <1>4, <1>21, <1>22, <1>23, <1>24 DEF FramesAreRight
<1> QED BY <1>3, <1>4, <1>5, <1>18, <1>19, <1>25 DEF AllReturned, fs2, node, tree

-----------------------------------------------------------------------------
(* The inductive invariant of the search.                                  *)
TrailFits(p, c, s) == Len(s.trail) + Len(s.disequalities) - Len(BaseDisequalities(p)) <= c.trail

(* Wherever a node is worked on, the state is that of its path; at "branch" *)
(* the node's own frame is on the stack too.                               *)
NodeIsRight(p, c, at, s, walk, fs) ==
    /\ walk \in Seq(AssumptionOf(p)) /\ StateIsRight(p, s, walk, Len(p.equalities))
    /\ TrailFits(p, c, s)
    /\ at \in {"decide", "branch"} => AtRest(p, s, walk)
    /\ at = "conflict" => Audit(p, walk).conflict
    /\ at # "enter" => Len(walk) <= c.depth
    /\ Len(fs) = IF at = "branch" THEN Len(walk) + 1 ELSE Len(walk)

TreesOf(W) == {node.proof : node \in W}

(* W: the nodes refuted so far, each with a certificate node of its own.   *)
RefutedAre(p, c, at, s, walk, fs, n, tree, W) ==
    /\ IsFiniteSet(W) /\ Cardinality(W) <= n
    /\ Upheld(p, c.depth, W)
    /\ FramesAreRight(p, s, walk, fs, TreesOf(W), W)
    /\ at = "return" => [path |-> walk, proof |-> tree] \in W

CountsAreRight ==
    /\ used \in [nodes : Nat, decisions : Nat, propagations : Nat, conflicts : Nat,
                 certificate : Nat]
    /\ used.certificate <= caps.certificate

FramesDecide == \A i \in DOMAIN frames : frames[i].decision # Complete

Places == {"start", "equalities", "enter", "propagate", "decide", "conflict", "branch", "return",
           "done"}

SearchBasics ==
    /\ problem \in Problems /\ caps \in Caps
    /\ asserted \in 0..Len(problem.equalities)
    /\ CountsAreRight /\ FramesDecide
    /\ pc \in Places
    /\ pc \notin {"start", "done"} => Valid(problem)

AnswerIsRight ==
    /\ outcome.kind \in {"None", "InvalidInput", "Abstain", "Sat", "Unsat"}
    /\ pc # "done" => outcome = NoOutcome
    /\ outcome.kind \in {"Sat", "Unsat"} => Valid(problem)
    /\ OutcomeIsRight

PreparedIsRight ==
    /\ pc = "start" => asserted = 0
    /\ pc \in {"start", "equalities"} => path = <<>> /\ frames = <<>>
    /\ pc = "equalities" => StateIsRight(problem, state, <<>>, asserted)
                            /\ TrailFits(problem, caps, state)

SearchIsRight ==
    Running =>
        /\ asserted = Len(problem.equalities)
        /\ NodeIsRight(problem, caps, pc, state, path, frames)
        /\ \E W : RefutedAre(problem, caps, pc, state, path, frames, used.certificate, proof, W)

SearchInv == SearchBasics /\ AnswerIsRight /\ PreparedIsRight /\ SearchIsRight

LEMMA ProblemFacts ==
    ASSUME problem \in Problems, caps \in Caps
    PROVE  /\ Valid(problem) => WellFormed(problem) /\ 0 \in Carrier(problem)
           /\ Len(problem.equalities) \in Nat /\ caps.depth \in Nat /\ caps.trail \in Nat
           /\ caps.certificate \in Nat
<1>1. Valid(problem) => WellFormed(problem) BY ValidIsWellFormed
<1>2. Valid(problem) => 0 \in Carrier(problem)
  <2>1. Valid(problem) => problem.values \in 1..64 BY DEF Valid, HardMaxDomainSize
  <2> QED BY <2>1 DEF Carrier
<1>3. problem.equalities \in Seq(Nat \X Nat) BY SearchAssumption
<1>4. caps.depth \in Nat /\ caps.trail \in Nat /\ caps.certificate \in Nat BY SearchAssumption
<1>5. Len(problem.equalities) \in Nat BY <1>3
<1> QED BY <1>1, <1>2, <1>4, <1>5

LEMMA InitIsRight ==
    ASSUME SearchInit
    PROVE  SearchInv
<1>1. SearchBasics
  <2>1. Len(problem.equalities) \in Nat BY ProblemFacts DEF SearchInit
  <2>2. caps.certificate \in Nat BY ProblemFacts DEF SearchInit
  <2>3. \A i \in DOMAIN frames : frames[i].decision # Complete BY DEF SearchInit
  <2> QED BY <2>1, <2>2, <2>3 DEF SearchInit, SearchBasics, Unused, CountsAreRight, FramesDecide, Places
<1>2. AnswerIsRight BY DEF SearchInit, AnswerIsRight, OutcomeIsRight, NoOutcome
<1>3. PreparedIsRight BY DEF SearchInit, PreparedIsRight
<1>4. SearchIsRight BY DEF SearchInit, SearchIsRight, Running
<1> QED BY <1>1, <1>2, <1>3, <1>4 DEF SearchInv

(* With nothing changed but what is recorded, nothing is lost.             *)
LEMMA MoreRecorded ==
    ASSUME NEW p, NEW s, NEW walk, NEW fs, NEW trees, NEW W, FramesAreRight(p, s, walk, fs, trees, W),
           NEW trees2, trees \subseteq trees2, NEW W2, W \subseteq W2
    PROVE  FramesAreRight(p, s, walk, fs, trees2, W2)
<1>1. fs \in Seq(FrameOf(p, trees)) BY DEF FramesAreRight
<1>2. FrameOf(p, trees) \subseteq FrameOf(p, trees2)
  <2>1. Seq(trees) \subseteq Seq(trees2) OBVIOUS
  <2> QED BY <2>1 DEF FrameOf
<1>3. fs \in Seq(FrameOf(p, trees2)) BY <1>1, <1>2
<1>4. Recorded(walk, fs, W2) BY DEF FramesAreRight, Recorded, RecordedBy
<1> QED BY <1>3, <1>4 DEF FramesAreRight

LEMMA NothingRecorded ==
    ASSUME NEW p, NEW s, NEW trees, NEW W
    PROVE  FramesAreRight(p, s, <<>>, <<>>, trees, W)
<1>1. Len(<<>>) = 0 /\ 1..0 = {} OBVIOUS
<1>2. <<>> \in Seq(FrameOf(p, trees)) OBVIOUS
<1>3. Stacked(p, s, <<>>, <<>>) /\ Tried(<<>>, <<>>) /\ Recorded(<<>>, <<>>, W)
      BY <1>1 DEF Stacked, Tried, Recorded
<1> QED BY <1>1, <1>2, <1>3 DEF FramesAreRight

(* The search ends without an answer, or as OutcomeIsRight wants it.       *)
LEMMA EndIsRight ==
    ASSUME SearchBasics, UNCHANGED input, asserted' \in 0..Len(problem.equalities),
           CountsAreRight', FramesDecide', pc' = "done", AnswerIsRight'
    PROVE  SearchInv'
<1>1. SearchBasics'
  <2>1. problem' \in Problems /\ caps' \in Caps /\ asserted' \in 0..Len(problem'.equalities)
        BY DEF SearchBasics, input
  <2> QED BY <2>1 DEF SearchBasics, Places
<1>2. PreparedIsRight' BY DEF PreparedIsRight
<1>3. SearchIsRight' BY DEF SearchIsRight, Running
<1> QED BY <1>1, <1>2, <1>3 DEF SearchInv

LEMMA AbstainIsRight ==
    ASSUME SearchBasics, UNCHANGED input, asserted' \in 0..Len(problem.equalities),
           CountsAreRight', FramesDecide', NEW reason, Abstain(reason), reason # "internal"
    PROVE  SearchInv'
<1>1. pc' = "done" /\ outcome' = [kind |-> "Abstain", reason |-> reason]
      BY DEF Abstain, End, Answer
<1>2. outcome'.kind = "Abstain" /\ outcome'.reason # "internal" BY <1>1
<1>3. AnswerIsRight' BY <1>1, <1>2 DEF AnswerIsRight, OutcomeIsRight
<1> QED BY <1>1, <1>3, EndIsRight

LEMMA GoesOn ==
    ASSUME SearchInv, UNCHANGED <<input, outcome>>, asserted' = asserted,
           CountsAreRight', FramesDecide', pc' \in Places \ {"start", "equalities", "done"},
           pc \notin {"start", "done"}, asserted = Len(problem.equalities),
           NodeIsRight(problem, caps, pc', state', path', frames'),
           NEW W, RefutedAre(problem, caps, pc', state', path', frames', used'.certificate, proof', W)
    PROVE  SearchInv'
<1>1. SearchBasics'
  <2>1. /\ problem' = problem /\ caps' = caps /\ problem \in Problems /\ caps \in Caps
        /\ asserted' \in 0..Len(problem.equalities) /\ Valid(problem)
        BY DEF SearchInv, SearchBasics, input
  <2>2. Valid(problem') BY <2>1
  <2> QED BY <2>1, <2>2 DEF SearchBasics
<1>2. AnswerIsRight'
  <2>1. outcome' = NoOutcome BY DEF SearchInv, AnswerIsRight
  <2> QED BY <2>1 DEF AnswerIsRight, OutcomeIsRight, NoOutcome
<1>3. PreparedIsRight' BY DEF PreparedIsRight
<1>4. SearchIsRight'
  <2>1. problem' = problem /\ caps' = caps BY DEF input
  <2>2. asserted' = Len(problem'.equalities) BY <2>1
  <2>3. NodeIsRight(problem', caps', pc', state', path', frames') BY <2>1
  <2>4. RefutedAre(problem', caps', pc', state', path', frames', used'.certificate, proof', W)
        BY <2>1
  <2> QED BY <2>2, <2>3, <2>4 DEF SearchIsRight
<1> QED BY <1>1, <1>2, <1>3, <1>4 DEF SearchInv

LEMMA StartIsRight ==
    ASSUME SearchInv, Start
    PROVE  SearchInv'
<1>1. SearchBasics /\ AnswerIsRight /\ PreparedIsRight /\ pc = "start" BY DEF SearchInv, Start
<1>2. /\ problem \in Problems /\ caps \in Caps /\ Len(problem.equalities) \in Nat
      /\ asserted' = 0 /\ path' = <<>> /\ frames' = <<>>
      BY <1>1, ProblemFacts DEF SearchBasics, PreparedIsRight, Start
<1>3. UNCHANGED input /\ asserted' \in 0..Len(problem.equalities) /\ CountsAreRight' /\ FramesDecide'
  <2>1. problem' = problem /\ caps' = caps /\ used' = used BY DEF Start, input
  <2>2. CountsAreRight' BY <1>1, <2>1 DEF SearchBasics, CountsAreRight
  <2>3. FramesDecide' BY <1>2 DEF FramesDecide
  <2>4. UNCHANGED input BY <2>1 DEF input
  <2> QED BY <1>2, <2>2, <2>3, <2>4
<1>4. CASE ~Valid(problem) /\ End("InvalidInput", "input")
  <2>1. pc' = "done" /\ outcome' = [kind |-> "InvalidInput", reason |-> "input"]
        BY <1>4 DEF End, Answer
  <2>2. AnswerIsRight' BY <2>1 DEF AnswerIsRight, OutcomeIsRight
  <2> QED BY <1>1, <1>3, <2>1, <2>2, EndIsRight
<1>5. CASE Abstain("structure")
  <2> DEFINE reason == "structure"
  <2>1. Abstain(reason) /\ reason # "internal" BY <1>5
  <2> QED BY <1>1, <1>3, <2>1, AbstainIsRight
<1>6. CASE Valid(problem) /\ state' = NewState(problem) /\ pc' = "equalities" /\ UNCHANGED outcome
  <2>1. /\ problem' = problem /\ caps' = caps BY <1>3 DEF input
  <2>2. WellFormed(problem) /\ caps.trail \in Nat BY <1>2, <1>6, ProblemFacts
  <2>3. StateIsRight(problem, NewState(problem), <<>>, 0) BY <2>2, NewStateIsRight
  <2>4. TrailFits(problem, caps, NewState(problem))
    <3> DEFINE s == NewState(problem)
    <3>1. s \in StateOf(problem) BY <2>3 DEF StateIsRight, Grounded
    <3>2. s.trail = <<>> /\ s.disequalities = BaseDisequalities(problem) BY DEF NewState
    <3>3. Len(s.disequalities) \in Nat BY <3>1 DEF StateOf
    <3>4. Len(s.trail) = 0 BY <3>2
    <3> HIDE DEF s
    <3>5. Len(s.trail) + Len(s.disequalities) - Len(BaseDisequalities(problem)) = 0
          BY <3>2, <3>3, <3>4
    <3>6. \A x : x = 0 => x <= caps.trail BY <2>2
    <3>7. TrailFits(problem, caps, s) BY <3>5, <3>6 DEF TrailFits
    <3> QED BY <3>7 DEF s
  <2>5. SearchBasics' BY <1>1, <1>3, <1>6, <2>1 DEF SearchBasics, Places
  <2>6. AnswerIsRight'
    <3>1. outcome' = NoOutcome BY <1>1, <1>6 DEF AnswerIsRight
    <3> QED BY <3>1 DEF AnswerIsRight, OutcomeIsRight, NoOutcome
  <2>7. PreparedIsRight'
    <3>1. StateIsRight(problem', state', <<>>, asserted') BY <1>2, <1>6, <2>1, <2>3
    <3>2. TrailFits(problem', caps', state') BY <1>6, <2>1, <2>4
    <3> QED BY <1>2, <1>6, <3>1, <3>2 DEF PreparedIsRight
  <2>8. SearchIsRight' BY <1>6 DEF SearchIsRight, Running
  <2> QED BY <2>5, <2>6, <2>7, <2>8 DEF SearchInv
<1>7. \/ ~Valid(problem) /\ End("InvalidInput", "input")
      \/ Abstain("structure")
      \/ Valid(problem) /\ state' = NewState(problem) /\ pc' = "equalities" /\ UNCHANGED outcome
      BY DEF Start
<1> QED BY <1>4, <1>5, <1>6, <1>7

LEMMA BaseIsSequence ==
    ASSUME NEW p, WellFormed(p)
    PROVE  Len(BaseDisequalities(p)) \in Nat
<1>1. NewState(p) \in StateOf(p) BY NewStateIsRight DEF StateIsRight, Grounded
<1>2. NewState(p).disequalities = BaseDisequalities(p) BY DEF NewState
<1>3. BaseDisequalities(p) \in Seq(Terms(p) \X Terms(p)) BY <1>1, <1>2 DEF StateOf
<1> QED BY <1>3

(* With room for one more entry, a change leaves the trail within its cap. *)
LEMMA TrailGrows ==
    ASSUME NEW p, WellFormed(p), NEW c, c.trail \in Nat, NEW s \in StateOf(p),
           Len(s.trail) + Len(s.disequalities) - Len(BaseDisequalities(p)) + 1 <= c.trail,
           NEW s2, Later(p, s, s2)
    PROVE  TrailFits(p, c, s2)
<1>1. Len(BaseDisequalities(p)) \in Nat BY BaseIsSequence
<1>2. s.trail \in Seq(TrailEntry(p)) /\ s.disequalities \in Seq(Terms(p) \X Terms(p)) BY DEF StateOf
<1>3. Len(s.trail) \in Nat /\ Len(s.disequalities) \in Nat BY <1>2
<1>4. ASSUME NEW k \in Nat, NEW l \in Nat, NEW b \in Nat, k + l - b + 1 <= c.trail
      PROVE  (k + 1) + l - b <= c.trail /\ k + (l + 1) - b <= c.trail
      BY <1>4
<1>5. /\ (Len(s.trail) + 1) + Len(s.disequalities) - Len(BaseDisequalities(p)) <= c.trail
      /\ Len(s.trail) + (Len(s.disequalities) + 1) - Len(BaseDisequalities(p)) <= c.trail
      BY <1>1, <1>3, <1>4
<1>6. CASE PushedOne(p, s, s2)
  <2>1. PICK entry : Pushed(s, s2, entry, p) BY <1>6 DEF PushedOne
  <2>2. s2.trail = Append(s.trail, entry) /\ s2.disequalities = s.disequalities
        /\ entry \in TrailEntry(p)
        BY <2>1 DEF Pushed
  <2>3. Len(s2.trail) = Len(s.trail) + 1 BY <1>2, <2>2
  <2> QED BY <1>5, <2>2, <2>3 DEF TrailFits
<1>7. CASE \E pair \in Terms(p) \X Terms(p) : s2 = With(s, Append(s.disequalities, pair))
  <2>1. PICK pair \in Terms(p) \X Terms(p) : s2 = With(s, Append(s.disequalities, pair))
        BY <1>7
  <2>2. s2.trail = s.trail /\ s2.disequalities = Append(s.disequalities, pair)
    <3> DEFINE d == Append(s.disequalities, pair)
    <3>1. s2 = With(s, d) BY <2>1
    <3>0. d \in Seq(Terms(p) \X Terms(p)) BY <1>2
    <3> HIDE DEF d
    <3>2. With(s, d).trail = s.trail /\ With(s, d).disequalities = d BY <3>0, WithFields
    <3> QED BY <3>1, <3>2 DEF d
  <2>3. Len(s2.disequalities) = Len(s.disequalities) + 1 BY <1>2, <2>2
  <2> QED BY <1>5, <2>2, <2>3 DEF TrailFits
<1> QED BY <1>6, <1>7 DEF Later

RightNode(W) ==
    /\ NodeIsRight(problem, caps, pc, state, path, frames)
    /\ RefutedAre(problem, caps, pc, state, path, frames, used.certificate, proof, W)

LEMMA RunningFacts ==
    ASSUME SearchInv, Running
    PROVE  /\ problem \in Problems /\ caps \in Caps /\ Valid(problem) /\ WellFormed(problem)
           /\ asserted = Len(problem.equalities) /\ Len(problem.equalities) \in Nat
           /\ CountsAreRight /\ FramesDecide /\ outcome = NoOutcome
           /\ pc \in Places \ {"start", "equalities", "done"}
           /\ \E W : RightNode(W)
<1>1. /\ problem \in Problems /\ caps \in Caps /\ Valid(problem) /\ pc \in Places
      /\ CountsAreRight /\ FramesDecide
      BY DEF SearchInv, SearchBasics, Running
<1>2. WellFormed(problem) /\ Len(problem.equalities) \in Nat BY <1>1, ProblemFacts
<1>3. outcome = NoOutcome BY DEF SearchInv, AnswerIsRight, Running
<1>4. asserted = Len(problem.equalities) /\ \E W : RightNode(W)
      BY DEF SearchInv, SearchIsRight, RightNode
<1> QED BY <1>1, <1>2, <1>3, <1>4 DEF Running

(* A step of propagation, before the search or in it.                      *)
LEMMA PropagatedEnds ==
    ASSUME SearchBasics, CountsAreRight, NEW after, NEW next, Propagated(after, next)
    PROVE  /\ CountsAreRight' \/ caps' # caps
           /\ \/ \E reason : Abstain(reason) /\ reason # "internal"
              \/ HasRoom(state) /\ state' = after /\ pc' = next /\ UNCHANGED outcome
           /\ used'.certificate = used.certificate
<1>1. /\ used \in [nodes : Nat, decisions : Nat, propagations : Nat, conflicts : Nat,
                   certificate : Nat]
      /\ used.certificate <= caps.certificate
      BY DEF CountsAreRight
<1>2. \/ used' = used
      \/ used' = [used EXCEPT !.propagations = @ + 1]
      BY DEF Propagated
<1>3. /\ used' \in [nodes : Nat, decisions : Nat, propagations : Nat, conflicts : Nat,
                    certificate : Nat]
      /\ used'.certificate = used.certificate
      BY <1>1, <1>2
<1>4. CountsAreRight' \/ caps' # caps BY <1>1, <1>3 DEF CountsAreRight
<1>5. \/ Abstain("trail entries")
      \/ Abstain("propagations")
      \/ HasRoom(state) /\ state' = after /\ pc' = next /\ UNCHANGED outcome
      BY DEF Propagated
<1>6. "trail entries" # "internal" /\ "propagations" # "internal" OBVIOUS
<1> QED BY <1>3, <1>4, <1>5, <1>6

LEMMA AssertIsRight ==
    ASSUME SearchInv, AssertEquality
    PROVE  SearchInv'
<1> DEFINE pair == problem.equalities[asserted + 1]
           s2 == UnionIn(state, pair[1], pair[2])
<1>1. /\ SearchBasics /\ AnswerIsRight /\ pc = "equalities" /\ CountsAreRight /\ FramesDecide
      /\ path = <<>> /\ frames = <<>>
      /\ StateIsRight(problem, state, <<>>, asserted) /\ TrailFits(problem, caps, state)
      BY DEF SearchInv, SearchBasics, PreparedIsRight, AssertEquality
<1>2. /\ problem' = problem /\ caps' = caps /\ path' = <<>> /\ frames' = <<>>
      /\ asserted' = asserted + 1 /\ proof' = proof /\ asserted < Len(problem.equalities)
      BY <1>1 DEF AssertEquality, input
<1>3. /\ problem \in Problems /\ caps \in Caps /\ Valid(problem) /\ WellFormed(problem)
      /\ Len(problem.equalities) \in Nat /\ caps.trail \in Nat
      BY <1>1, ProblemFacts DEF SearchBasics
<1>4. asserted \in 0..(Len(problem.equalities) - 1) /\ asserted' \in 0..Len(problem.equalities)
  <2>1. asserted \in 0..Len(problem.equalities) BY <1>1 DEF SearchBasics
  <2> QED BY <1>2, <1>3, <2>1
<1>5. /\ FindIn(state, pair[1]) = FindIn(state, pair[2])
           => StateIsRight(problem, state, <<>>, asserted + 1)
      /\ FindIn(state, pair[1]) # FindIn(state, pair[2])
           => StateIsRight(problem, s2, <<>>, asserted + 1) /\ PushedOne(problem, state, s2)
      BY <1>1, <1>3, <1>4, NextEquality
<1>6. FramesDecide' BY <1>2 DEF FramesDecide
<1> HIDE DEF pair, s2
<1>7. ASSUME StateIsRight(problem, state', <<>>, asserted + 1), TrailFits(problem, caps, state'),
             pc' = pc, outcome' = outcome, CountsAreRight'
      PROVE  SearchInv'
  <2>1. SearchBasics' BY <1>1, <1>2, <1>3, <1>4, <1>6, <1>7 DEF SearchBasics
  <2>2. AnswerIsRight'
    <3>1. outcome' = NoOutcome BY <1>1, <1>7 DEF AnswerIsRight
    <3> QED BY <3>1 DEF AnswerIsRight, OutcomeIsRight, NoOutcome
  <2>3. PreparedIsRight'
    <3>1. StateIsRight(problem', state', <<>>, asserted') BY <1>2, <1>7
    <3>2. TrailFits(problem', caps', state') BY <1>2, <1>7
    <3> QED BY <1>1, <1>2, <1>7, <3>1, <3>2 DEF PreparedIsRight
  <2>4. SearchIsRight' BY <1>1, <1>7 DEF SearchIsRight, Running
  <2> QED BY <2>1, <2>2, <2>3, <2>4 DEF SearchInv
<1>8. CASE FindIn(state, pair[1]) = FindIn(state, pair[2])
  <2>1. UNCHANGED <<pc, state, used, outcome>> BY <1>8 DEF AssertEquality, pair
  <2>2. CountsAreRight' BY <1>1, <1>2, <2>1 DEF CountsAreRight
  <2>3. StateIsRight(problem, state', <<>>, asserted + 1) BY <1>5, <1>8, <2>1
  <2>4. TrailFits(problem, caps, state') BY <1>1, <2>1
  <2> QED BY <1>7, <2>1, <2>2, <2>3, <2>4
<1>9. CASE FindIn(state, pair[1]) # FindIn(state, pair[2])
  <2>1. Propagated(s2, pc) BY <1>9 DEF AssertEquality, pair, s2
  <2>2. /\ CountsAreRight'
        /\ \/ \E reason : Abstain(reason) /\ reason # "internal"
           \/ HasRoom(state) /\ state' = s2 /\ pc' = pc /\ UNCHANGED outcome
        BY <1>1, <1>2, <2>1, PropagatedEnds
  <2>3. CASE \E reason : Abstain(reason) /\ reason # "internal"
    <3>1. PICK reason : Abstain(reason) /\ reason # "internal" BY <2>3
    <3>2. UNCHANGED input BY <1>2 DEF input
    <3> QED BY <1>1, <1>4, <1>6, <2>2, <3>1, <3>2, AbstainIsRight
  <2>4. CASE HasRoom(state) /\ state' = s2 /\ pc' = pc /\ UNCHANGED outcome
    <3>1. state \in StateOf(problem) BY <1>1 DEF StateIsRight, Grounded
    <3>2. Later(problem, state, s2) BY <1>5, <1>9 DEF Later
    <3>3. Len(state.trail) + Len(state.disequalities) - Len(BaseDisequalities(problem)) + 1
            <= caps.trail
          BY <2>4 DEF HasRoom, TrailEntries
    <3>4. TrailFits(problem, caps, s2) BY <1>3, <3>1, <3>2, <3>3, TrailGrows
    <3>5. StateIsRight(problem, state', <<>>, asserted + 1) BY <1>5, <1>9, <2>4
    <3> QED BY <1>7, <2>2, <2>4, <3>4, <3>5
  <2> QED BY <2>2, <2>3, <2>4
<1> QED BY <1>8, <1>9

LEMMA BeginIsRight ==
    ASSUME SearchInv, BeginSearch
    PROVE  SearchInv'
<1>1. /\ SearchBasics /\ AnswerIsRight /\ pc = "equalities" /\ CountsAreRight /\ FramesDecide
      /\ path = <<>> /\ frames = <<>>
      /\ StateIsRight(problem, state, <<>>, asserted) /\ TrailFits(problem, caps, state)
      BY DEF SearchInv, SearchBasics, PreparedIsRight, BeginSearch
<1>2. /\ UNCHANGED <<input, outcome>> /\ pc' = "enter" /\ path' = <<>> /\ frames' = <<>>
      /\ state' = state /\ problem' = problem /\ caps' = caps
      /\ asserted' = asserted /\ used' = used /\ asserted = Len(problem.equalities)
      BY <1>1 DEF BeginSearch, input, search
<1>3. CountsAreRight' /\ FramesDecide' BY <1>1, <1>2 DEF CountsAreRight, FramesDecide
<1>4. NodeIsRight(problem, caps, "enter", state, <<>>, <<>>)
  <2>1. <<>> \in Seq(AssumptionOf(problem)) /\ Len(<<>>) = 0 OBVIOUS
  <2>2. StateIsRight(problem, state, <<>>, Len(problem.equalities)) BY <1>1, <1>2
  <2> QED BY <1>1, <2>1, <2>2 DEF NodeIsRight
<1>5. RefutedAre(problem, caps, "enter", state, <<>>, <<>>, used.certificate, proof', {})
  <2>1. IsFiniteSet({}) /\ Cardinality({}) = 0 BY FS_EmptySet
  <2>2. used.certificate \in Nat BY <1>1 DEF CountsAreRight
  <2>3. 0 <= used.certificate BY <2>2
  <2>4. Upheld(problem, caps.depth, {}) BY DEF Upheld
  <2> QED BY <2>1, <2>3, <2>4, NothingRecorded DEF RefutedAre
<1>6. pc \notin {"start", "done"} /\ pc' \in Places \ {"start", "equalities", "done"}
      BY <1>1, <1>2 DEF Places
<1>7. NodeIsRight(problem, caps, pc', state', path', frames') BY <1>2, <1>4
<1>8. RefutedAre(problem, caps, pc', state', path', frames', used'.certificate, proof', {})
      BY <1>2, <1>5
<1> QED BY <1>2, <1>3, <1>6, <1>7, <1>8, GoesOn

(* A step that only counts, or abstains.                                   *)
LEMMA CountedEnds ==
    ASSUME CountsAreRight, NEW resource \in {"nodes", "decisions"}, NEW limit, NEW next,
           caps' = caps, Counted(resource, limit, next)
    PROVE  /\ CountsAreRight' /\ used'.certificate = used.certificate
           /\ \/ Abstain(resource) /\ resource # "internal"
              \/ pc' = next /\ UNCHANGED outcome
<1>1. /\ used \in [nodes : Nat, decisions : Nat, propagations : Nat, conflicts : Nat,
                   certificate : Nat]
      /\ used.certificate <= caps.certificate
      BY DEF CountsAreRight
<1>2. used' = used \/ used' = [used EXCEPT ![resource] = @ + 1] BY DEF Counted
<1>3. /\ used' \in [nodes : Nat, decisions : Nat, propagations : Nat, conflicts : Nat,
                    certificate : Nat]
      /\ used'.certificate = used.certificate
  <2>1. CASE resource = "nodes" BY <1>1, <1>2, <2>1
  <2>2. CASE resource = "decisions" BY <1>1, <1>2, <2>2
  <2> QED BY <2>1, <2>2
<1>4. CountsAreRight' BY <1>1, <1>3 DEF CountsAreRight
<1> QED BY <1>3, <1>4 DEF Counted

LEMMA EnterIsRight ==
    ASSUME SearchInv, EnterNode
    PROVE  SearchInv'
<1>1. /\ SearchBasics /\ pc = "enter" /\ Running BY DEF SearchInv, EnterNode, Running
<1>2. /\ problem \in Problems /\ caps \in Caps /\ asserted = Len(problem.equalities)
      /\ CountsAreRight /\ FramesDecide /\ \E W : RightNode(W)
      /\ Len(problem.equalities) \in Nat
      BY <1>1, RunningFacts
<1>3. PICK W : RightNode(W) BY <1>2
<1>4. /\ problem' = problem /\ caps' = caps /\ path' = path /\ frames' = frames /\ state' = state
      /\ asserted' = asserted /\ proof' = proof /\ UNCHANGED input
      BY DEF EnterNode, input, search
<1>5. FramesDecide' BY <1>2, <1>4 DEF FramesDecide
<1>6. asserted' \in 0..Len(problem.equalities) BY <1>2, <1>4
<1>7. CASE Len(frames) > caps.depth /\ Abstain("depth") /\ UNCHANGED used
  <2> DEFINE reason == "depth"
  <2>1. Abstain(reason) /\ reason # "internal" BY <1>7
  <2>2. CountsAreRight' BY <1>2, <1>4, <1>7 DEF CountsAreRight
  <2> QED BY <1>1, <1>4, <1>5, <1>6, <2>1, <2>2, AbstainIsRight
<1>8. CASE Len(frames) <= caps.depth /\ Counted("nodes", caps.nodes, "propagate")
  <2>1. /\ CountsAreRight' /\ used'.certificate = used.certificate
        /\ \/ Abstain("nodes") /\ "nodes" # "internal"
           \/ pc' = "propagate" /\ UNCHANGED outcome
    <3> DEFINE resource == "nodes"
               next == "propagate"
    <3>1. Counted(resource, caps.nodes, next) /\ resource \in {"nodes", "decisions"} BY <1>8
    <3> HIDE DEF resource, next
    <3>2. /\ CountsAreRight' /\ used'.certificate = used.certificate
          /\ \/ Abstain(resource) /\ resource # "internal"
             \/ pc' = next /\ UNCHANGED outcome
          BY <1>2, <1>4, <3>1, CountedEnds
    <3> QED BY <3>2 DEF resource, next
  <2>2. CASE Abstain("nodes")
    <3> DEFINE reason == "nodes"
    <3>1. Abstain(reason) /\ reason # "internal" BY <2>2
    <3> QED BY <1>1, <1>4, <1>5, <1>6, <2>1, <3>1, AbstainIsRight
  <2>3. CASE pc' = "propagate" /\ UNCHANGED outcome
    <3>1. NodeIsRight(problem, caps, "propagate", state, path, frames)
      <4>1. NodeIsRight(problem, caps, "enter", state, path, frames) BY <1>1, <1>3 DEF RightNode
      <4>2. Len(path) <= caps.depth BY <1>8, <4>1 DEF NodeIsRight
      <4> QED BY <4>1, <4>2 DEF NodeIsRight
    <3>2. RefutedAre(problem, caps, "propagate", state, path, frames, used.certificate, proof, W)
          BY <1>1, <1>3 DEF RightNode, RefutedAre
    <3>3. UNCHANGED <<input, outcome>> /\ pc' \in Places \ {"start", "equalities", "done"}
          /\ pc \notin {"start", "done"}
          BY <1>1, <1>4, <2>3 DEF Places
    <3>4. NodeIsRight(problem, caps, pc', state', path', frames') BY <1>4, <2>3, <3>1
    <3>5. RefutedAre(problem, caps, pc', state', path', frames', used'.certificate, proof', W)
          BY <1>4, <2>1, <2>3, <3>2
    <3> QED BY <1>2, <1>4, <1>5, <2>1, <3>3, <3>4, <3>5, GoesOn
  <2> QED BY <2>1, <2>2, <2>3
<1> QED BY <1>7, <1>8 DEF EnterNode

(* One union or reduction of propagation.                                  *)
LEMMA PropagatedIsRight ==
    ASSUME SearchInv, pc = "propagate", NEW after,
           StateIsRight(problem, after, path, Len(problem.equalities)),
           PushedOne(problem, state, after), Propagated(after, pc),
           UNCHANGED <<input, asserted, path, frames, proof>>
    PROVE  SearchInv'
<1>1. SearchBasics /\ Running BY DEF SearchInv, Running
<1>2. /\ problem \in Problems /\ caps \in Caps /\ asserted = Len(problem.equalities)
      /\ CountsAreRight /\ FramesDecide /\ \E W : RightNode(W)
      /\ Len(problem.equalities) \in Nat /\ WellFormed(problem)
      BY <1>1, RunningFacts
<1>3. PICK W : RightNode(W) BY <1>2
<1>4. /\ problem' = problem /\ caps' = caps /\ path' = path /\ frames' = frames
      /\ asserted' = asserted /\ proof' = proof /\ UNCHANGED input
      BY DEF input
<1>5. FramesDecide' BY <1>2, <1>4 DEF FramesDecide
<1>6. asserted' \in 0..Len(problem.equalities) BY <1>2, <1>4
<1>7. /\ CountsAreRight' /\ used'.certificate = used.certificate
      /\ \/ \E reason : Abstain(reason) /\ reason # "internal"
         \/ HasRoom(state) /\ state' = after /\ pc' = pc /\ UNCHANGED outcome
      BY <1>1, <1>2, <1>4, PropagatedEnds
<1>8. CASE \E reason : Abstain(reason) /\ reason # "internal"
  <2>1. PICK reason : Abstain(reason) /\ reason # "internal" BY <1>8
  <2> QED BY <1>1, <1>4, <1>5, <1>6, <1>7, <2>1, AbstainIsRight
<1>9. CASE HasRoom(state) /\ state' = after /\ pc' = pc /\ UNCHANGED outcome
  <2>1. /\ NodeIsRight(problem, caps, "propagate", state, path, frames)
        /\ RefutedAre(problem, caps, "propagate", state, path, frames, used.certificate, proof, W)
        BY <1>3 DEF RightNode
  <2>2. state \in StateOf(problem) BY <2>1 DEF NodeIsRight, StateIsRight, Grounded
  <2>3. Later(problem, state, after) BY DEF Later
  <2>4. TrailFits(problem, caps, after)
    <3>1. Len(state.trail) + Len(state.disequalities) - Len(BaseDisequalities(problem)) + 1
            <= caps.trail
          BY <1>9 DEF HasRoom, TrailEntries
    <3>2. caps.trail \in Nat BY <1>2, ProblemFacts
    <3> QED BY <1>2, <2>2, <2>3, <3>1, <3>2, TrailGrows
  <2>5. NodeIsRight(problem, caps, "propagate", after, path, frames)
        BY <2>1, <2>4 DEF NodeIsRight
  <2>6. RefutedAre(problem, caps, "propagate", after, path, frames, used.certificate, proof, W)
    <3>1. FramesAreRight(problem, state, path, frames, TreesOf(W), W) BY <2>1 DEF RefutedAre
    <3>2. Stacked(problem, state, path, frames) BY <3>1 DEF FramesAreRight
    <3>3. Stacked(problem, after, path, frames) BY <2>2, <2>3, <3>2, StackLater
    <3>4. FramesAreRight(problem, after, path, frames, TreesOf(W), W)
          BY <3>1, <3>3 DEF FramesAreRight
    <3> QED BY <2>1, <3>4 DEF RefutedAre
  <2>7. UNCHANGED <<input, outcome>> /\ pc' \in Places \ {"start", "equalities", "done"}
        /\ pc \notin {"start", "done"}
        BY <1>4, <1>9 DEF Places
  <2>8. NodeIsRight(problem, caps, pc', state', path', frames') BY <1>4, <1>9, <2>5
  <2>9. RefutedAre(problem, caps, pc', state', path', frames', used'.certificate, proof', W)
        BY <1>4, <1>7, <1>9, <2>6
  <2> QED BY <1>2, <1>4, <1>5, <1>7, <2>7, <2>8, <2>9, GoesOn
<1> QED BY <1>7, <1>8, <1>9

LEMMA PropagatingFacts ==
    ASSUME SearchInv, pc = "propagate"
    PROVE  /\ WellFormed(problem) /\ path \in Seq(AssumptionOf(problem))
           /\ StateIsRight(problem, state, path, Len(problem.equalities))
           /\ Len(problem.equalities) \in 0..Len(problem.equalities)
           /\ asserted = Len(problem.equalities) /\ CountsAreRight /\ FramesDecide
           /\ Len(path) <= caps.depth /\ Len(frames) = Len(path)
           /\ TrailFits(problem, caps, state)
           /\ \E W : RightNode(W)
<1>1. Running BY DEF Running
<1>2. /\ WellFormed(problem) /\ Len(problem.equalities) \in Nat
      /\ asserted = Len(problem.equalities) /\ CountsAreRight /\ FramesDecide
      /\ \E W : RightNode(W)
      BY <1>1, RunningFacts
<1>3. NodeIsRight(problem, caps, "propagate", state, path, frames)
  <2>1. PICK W : RightNode(W) BY <1>2
  <2> QED BY <2>1 DEF RightNode
<1> QED BY <1>2, <1>3 DEF NodeIsRight

LEMMA SignatureIsRight ==
    ASSUME SearchInv, MergeSignature
    PROVE  SearchInv'
<1>1. pc = "propagate" BY DEF MergeSignature
<1>2. /\ WellFormed(problem) /\ path \in Seq(AssumptionOf(problem))
      /\ StateIsRight(problem, state, path, Len(problem.equalities))
      /\ Len(problem.equalities) \in 0..Len(problem.equalities)
      BY <1>1, PropagatingFacts
<1>3. PICK pair \in Collisions(state) : Propagated(UnionIn(state, pair[1], pair[2]), pc)
      BY DEF MergeSignature
<1>4. /\ pair[1] \in Terms(problem) /\ pair[2] \in Terms(problem)
      /\ FindIn(state, pair[1]) # FindIn(state, pair[2])
      /\ \A c, d : Closed(problem, path, c, d) => c[pair[1]] = c[pair[2]]
      BY <1>2, CollisionForced
<1> DEFINE after == UnionIn(state, pair[1], pair[2])
<1>5. /\ StateIsRight(problem, after, path, Len(problem.equalities))
      /\ PushedOne(problem, state, after)
      BY <1>2, <1>4, UnionIsRight
<1>6. Propagated(after, pc) BY <1>3
<1>7. UNCHANGED <<input, asserted, path, frames, proof>> BY DEF MergeSignature
<1> HIDE DEF after
<1> QED BY <1>1, <1>5, <1>6, <1>7, PropagatedIsRight

LEMMA ForcedValueIsRight ==
    ASSUME SearchInv, MergeForcedValue
    PROVE  SearchInv'
<1>1. pc = "propagate" BY DEF MergeForcedValue
<1>2. /\ WellFormed(problem) /\ path \in Seq(AssumptionOf(problem))
      /\ StateIsRight(problem, state, path, Len(problem.equalities))
      /\ Len(problem.equalities) \in 0..Len(problem.equalities)
      BY <1>1, PropagatingFacts
<1> DEFINE pair == FirstPair(ForcedPairs(state))
           after == UnionIn(state, pair[1], pair[2])
<1>3. ForcedPairs(state) # {} /\ Propagated(after, pc) BY DEF MergeForcedValue
<1>4. /\ pair[1] \in Terms(problem) /\ pair[2] \in Terms(problem)
      /\ FindIn(state, pair[1]) = pair[1] /\ FindIn(state, pair[2]) = pair[2]
      /\ pair[1] # pair[2]
      /\ \A c, d : Closed(problem, path, c, d) => c[pair[1]] = c[pair[2]]
      BY <1>2, <1>3, ForcedPairsFacts
<1>5. FindIn(state, pair[1]) # FindIn(state, pair[2]) BY <1>4
<1> HIDE DEF pair
<1>6. /\ StateIsRight(problem, after, path, Len(problem.equalities))
      /\ PushedOne(problem, state, after)
      BY <1>2, <1>4, <1>5, UnionIsRight
<1>7. UNCHANGED <<input, asserted, path, frames, proof>> BY DEF MergeForcedValue
<1> HIDE DEF after
<1> QED BY <1>1, <1>3, <1>6, <1>7, PropagatedIsRight

LEMMA ReduceIsRight ==
    ASSUME SearchInv, ReduceDomain
    PROVE  SearchInv'
<1>1. pc = "propagate" BY DEF ReduceDomain
<1>2. /\ WellFormed(problem) /\ path \in Seq(AssumptionOf(problem))
      /\ StateIsRight(problem, state, path, Len(problem.equalities))
      /\ Len(problem.equalities) \in 0..Len(problem.equalities)
      BY <1>1, PropagatingFacts
<1> DEFINE i == Min(Cutting(state))
<1>3. i \in DOMAIN state.disequalities
  <2>1. state \in StateOf(problem) BY <1>2 DEF StateIsRight, Grounded
  <2>2. state.disequalities \in Seq(Terms(problem) \X Terms(problem)) BY <2>1 DEF StateOf
  <2>3. DOMAIN state.disequalities \in SUBSET Nat BY <2>2
  <2>4. Cutting(state) \in SUBSET Nat /\ Cutting(state) # {} BY <2>3 DEF Cutting, ReduceDomain
  <2>5. i \in Cutting(state) BY <2>4, MinIsLeast
  <2> QED BY <2>5 DEF Cutting
<1>4. PICK cut \in Cuts(state, i) :
          Propagated(Restricted(state, cut[2], state.domain[cut[2]] \ state.domain[cut[1]]), pc)
      BY DEF ReduceDomain
<1> HIDE DEF i
<1> DEFINE values == state.domain[cut[2]] \ state.domain[cut[1]]
           after == Restricted(state, cut[2], values)
<1>5. /\ cut[2] \in Terms(problem)
      /\ \A c, d : Closed(problem, path, c, d) => d[cut[2]] \subseteq values
      BY <1>2, <1>3, CutForced
<1>6. Propagated(after, pc) BY <1>4
<1> HIDE DEF values
<1>7. /\ StateIsRight(problem, after, path, Len(problem.equalities))
      /\ PushedOne(problem, state, after)
      BY <1>2, <1>5, RestrictedIsRight
<1>8. UNCHANGED <<input, asserted, path, frames, proof>> BY DEF ReduceDomain
<1> HIDE DEF after
<1> QED BY <1>1, <1>6, <1>7, <1>8, PropagatedIsRight

(* The node goes on with the state, path and frames it has.                *)
LEMMA StaysRight ==
    ASSUME SearchInv, pc = "propagate", UNCHANGED <<input, search, asserted, used, proof, outcome>>,
           \/ pc' = "decide" /\ AtRest(problem, state, path)
           \/ pc' = "conflict" /\ Audit(problem, path).conflict
    PROVE  SearchInv'
<1>1. /\ asserted = Len(problem.equalities) /\ CountsAreRight /\ FramesDecide
      /\ \E W : RightNode(W)
      BY PropagatingFacts
<1>2. PICK W : RightNode(W) BY <1>1
<1>3. /\ problem' = problem /\ caps' = caps /\ path' = path /\ frames' = frames /\ state' = state
      /\ asserted' = asserted /\ proof' = proof /\ used' = used /\ UNCHANGED <<input, outcome>>
      BY DEF input, search
<1>4. CountsAreRight' /\ FramesDecide' BY <1>1, <1>3 DEF CountsAreRight, FramesDecide
<1>5. /\ NodeIsRight(problem, caps, "propagate", state, path, frames)
      /\ RefutedAre(problem, caps, "propagate", state, path, frames, used.certificate, proof, W)
      BY <1>2 DEF RightNode
<1>6. NodeIsRight(problem, caps, pc', state, path, frames) BY <1>5 DEF NodeIsRight
<1>7. RefutedAre(problem, caps, pc', state, path, frames, used.certificate, proof, W)
      BY <1>5 DEF RefutedAre
<1>8. pc' \in Places \ {"start", "equalities", "done"} /\ pc \notin {"start", "done"} BY DEF Places
<1>9. NodeIsRight(problem, caps, pc', state', path', frames') BY <1>3, <1>6
<1>10. RefutedAre(problem, caps, pc', state', path', frames', used'.certificate, proof', W)
       BY <1>3, <1>7
<1> QED BY <1>1, <1>3, <1>4, <1>8, <1>9, <1>10, GoesOn

LEMMA FixpointIsRight ==
    ASSUME SearchInv, ReachFixpoint
    PROVE  SearchInv'
<1>1. pc = "propagate" /\ AtFixpoint(state) BY DEF ReachFixpoint, AtFixpoint
<1>2. /\ WellFormed(problem) /\ path \in Seq(AssumptionOf(problem))
      /\ StateIsRight(problem, state, path, Len(problem.equalities))
      BY <1>1, PropagatingFacts
<1>3. AtRest(problem, state, path) BY <1>1, <1>2, FixpointIsClosed
<1> QED BY <1>1, <1>3, StaysRight DEF ReachFixpoint

LEMMA ConflictIsRight ==
    ASSUME SearchInv, FindConflict
    PROVE  SearchInv'
<1>1. pc = "propagate" BY DEF FindConflict
<1>2. /\ WellFormed(problem) /\ path \in Seq(AssumptionOf(problem))
      /\ StateIsRight(problem, state, path, Len(problem.equalities))
      BY <1>1, PropagatingFacts
<1> DEFINE pair == FirstPair(ForcedPairs(state))
<1>3. CASE Contradiction(state)
  <2>1. \A c, d : ~Closed(problem, path, c, d) BY <1>2, <1>3, ContradictionForced
  <2>2. Audit(problem, path).conflict BY <1>2, <2>1, ConflictIsAudited
  <2> QED BY <1>1, <2>2, StaysRight DEF FindConflict
<1>4. CASE ForcedPairs(state) # {} /\ HasDisequalityBetween(state, pair[1], pair[2])
  <2>1. /\ pair[1] \in Terms(problem) /\ pair[2] \in Terms(problem)
        /\ FindIn(state, pair[1]) = pair[1] /\ FindIn(state, pair[2]) = pair[2]
        /\ \A c, d : Closed(problem, path, c, d) => c[pair[1]] = c[pair[2]]
        BY <1>2, <1>4, ForcedPairsFacts
  <2> HIDE DEF pair
  <2>2. \A c, d : ~Closed(problem, path, c, d) BY <1>2, <1>4, <2>1, ForcedPairConflict
  <2>3. Audit(problem, path).conflict BY <1>2, <2>2, ConflictIsAudited
  <2> QED BY <1>1, <2>3, StaysRight DEF FindConflict
<1> QED BY <1>3, <1>4 DEF FindConflict

(* A refuted node takes a node of the certificate.                         *)
LEMMA NodeRecorded ==
    ASSUME NEW p, NEW c, NEW s, NEW walk, NEW fs, NEW n \in Nat, NEW W,
           IsFiniteSet(W), Cardinality(W) <= n, Upheld(p, c.depth, W),
           FramesAreRight(p, s, walk, fs, TreesOf(W), W), NEW tree,
           NodeHolds(p, [path |-> walk, proof |-> tree]), Len(walk) <= c.depth,
           Below([path |-> walk, proof |-> tree]) \subseteq W
    PROVE  RefutedAre(p, c, "return", s, walk, fs, n + 1, tree, W \cup {[path |-> walk, proof |-> tree]})
<1> DEFINE node == [path |-> walk, proof |-> tree]
           W2 == W \cup {node}
<1>1. node.path = walk OBVIOUS
<1>2. NodeHolds(p, node) /\ Below(node) \subseteq W OBVIOUS
<1> HIDE DEF node
<1>3. IsFiniteSet(W2) /\ Cardinality(W2) <= n + 1
  <2>1. /\ IsFiniteSet(W2)
        /\ Cardinality(W2) = IF node \in W THEN Cardinality(W) ELSE Cardinality(W) + 1
        BY FS_AddElement
  <2>2. Cardinality(W) \in Nat BY FS_CardinalityType
  <2> QED BY <2>1, <2>2
<1>4. Upheld(p, c.depth, W2)
  <2>1. \A other \in W : /\ Len(other.path) <= c.depth /\ NodeHolds(p, other)
                         /\ Below(other) \subseteq W
        BY DEF Upheld
  <2> SUFFICES ASSUME NEW other \in W2
               PROVE  /\ Len(other.path) <= c.depth /\ NodeHolds(p, other)
                      /\ Below(other) \subseteq W2
      BY DEF Upheld
  <2>2. CASE other \in W BY <2>1, <2>2
  <2>3. CASE other = node BY <1>1, <1>2, <2>3
  <2> QED BY <2>2, <2>3
<1>5. W \subseteq W2 /\ node \in W2 OBVIOUS
<1> HIDE DEF W2
<1>6. TreesOf(W) \subseteq TreesOf(W2) BY <1>5 DEF TreesOf
<1>7. FramesAreRight(p, s, walk, fs, TreesOf(W2), W2) BY <1>5, <1>6, MoreRecorded
<1>8. RefutedAre(p, c, "return", s, walk, fs, n + 1, tree, W2)
      BY <1>3, <1>4, <1>5, <1>7 DEF RefutedAre, node
<1> QED BY <1>8 DEF W2, node

LEMMA LeafIsRight ==
    ASSUME SearchInv, ConflictLeaf
    PROVE  SearchInv'
<1> DEFINE audit == Audit(problem, path)
           next == [used EXCEPT !.conflicts = @ + 1]
<1>1. SearchBasics /\ pc = "conflict" /\ Running BY DEF SearchInv, ConflictLeaf, Running
<1>2. /\ problem \in Problems /\ caps \in Caps /\ asserted = Len(problem.equalities)
      /\ CountsAreRight /\ FramesDecide /\ \E W : RightNode(W)
      /\ Len(problem.equalities) \in Nat
      BY <1>1, RunningFacts
<1>3. PICK W : RightNode(W) BY <1>2
<1>4. /\ problem' = problem /\ caps' = caps /\ path' = path /\ frames' = frames /\ state' = state
      /\ asserted' = asserted /\ UNCHANGED input
      BY DEF ConflictLeaf, input, search
<1>5. FramesDecide' BY <1>2, <1>4 DEF FramesDecide
<1>6. asserted' \in 0..Len(problem.equalities) BY <1>2, <1>4
<1>7. /\ NodeIsRight(problem, caps, "conflict", state, path, frames)
      /\ RefutedAre(problem, caps, "conflict", state, path, frames, used.certificate, proof, W)
      BY <1>1, <1>3 DEF RightNode
<1>8. audit.conflict BY <1>7 DEF NodeIsRight
<1>9. /\ used \in [nodes : Nat, decisions : Nat, propagations : Nat, conflicts : Nat,
                   certificate : Nat]
      /\ used.certificate <= caps.certificate /\ caps.certificate \in Nat
      BY <1>2, ProblemFacts DEF CountsAreRight
<1>10. /\ next \in [nodes : Nat, decisions : Nat, propagations : Nat, conflicts : Nat,
                    certificate : Nat]
       /\ next.certificate = used.certificate
       BY <1>9
<1>11. \/ Abstain("conflicts") /\ used' = used
       \/ Abstain("certificate") /\ used' = next
       \/ /\ next.certificate < caps.certificate
          /\ used' = [next EXCEPT !.certificate = @ + 1]
          /\ proof' = Leaf(audit.claim) /\ pc' = "return" /\ UNCHANGED outcome
       BY <1>8 DEF ConflictLeaf
<1> HIDE DEF next, audit
<1>12. CASE Abstain("conflicts") /\ used' = used
  <2> DEFINE reason == "conflicts"
  <2>1. Abstain(reason) /\ reason # "internal" BY <1>12
  <2>2. CountsAreRight' BY <1>4, <1>9, <1>12 DEF CountsAreRight
  <2> QED BY <1>1, <1>4, <1>5, <1>6, <2>1, <2>2, AbstainIsRight
<1>13. CASE Abstain("certificate") /\ used' = next
  <2> DEFINE reason == "certificate"
  <2>1. Abstain(reason) /\ reason # "internal" BY <1>13
  <2>2. CountsAreRight' BY <1>4, <1>9, <1>10, <1>13 DEF CountsAreRight
  <2> QED BY <1>1, <1>4, <1>5, <1>6, <2>1, <2>2, AbstainIsRight
<1>14. CASE /\ next.certificate < caps.certificate
            /\ used' = [next EXCEPT !.certificate = @ + 1]
            /\ proof' = Leaf(audit.claim) /\ pc' = "return" /\ UNCHANGED outcome
  <2> DEFINE tree == Leaf(audit.claim)
             node == [path |-> path, proof |-> tree]
  <2>1. /\ used' \in [nodes : Nat, decisions : Nat, propagations : Nat, conflicts : Nat,
                      certificate : Nat]
        /\ used'.certificate = used.certificate + 1 /\ used'.certificate <= caps.certificate
        BY <1>9, <1>10, <1>14
  <2>2. CountsAreRight' BY <1>4, <2>1 DEF CountsAreRight
  <2>3. node.path = path /\ node.proof = tree /\ ~tree.split /\ tree.claim = audit.claim
        /\ tree.branches = <<>>
        BY DEF Leaf
  <2> HIDE DEF tree, node
  <2>4. NodeHolds(problem, node)
    <3>1. ~node.proof.split /\ Audit(problem, node.path).conflict
          /\ node.proof.claim = Audit(problem, node.path).claim
          BY <1>8, <2>3 DEF audit
    <3> QED BY <3>1 DEF NodeHolds
  <2>5. Below(node) = {}
    <3>1. Range(node.proof.branches) = {} BY <2>3 DEF Range
    <3> QED BY <3>1 DEF Below
  <2>6. Len(path) <= caps.depth /\ used.certificate \in Nat BY <1>7, <1>9 DEF NodeIsRight
  <2>7. RefutedAre(problem, caps, "return", state, path, frames, used.certificate + 1, tree,
                   W \cup {node})
    <3>1. /\ IsFiniteSet(W) /\ Cardinality(W) <= used.certificate
          /\ Upheld(problem, caps.depth, W)
          /\ FramesAreRight(problem, state, path, frames, TreesOf(W), W)
          BY <1>7 DEF RefutedAre
    <3>2. NodeHolds(problem, [path |-> path, proof |-> tree])
          /\ Below([path |-> path, proof |-> tree]) \subseteq W
          BY <2>4, <2>5 DEF node
    <3> QED BY <2>6, <3>1, <3>2, NodeRecorded DEF node
  <2>8. NodeIsRight(problem, caps, "return", state, path, frames) BY <1>7 DEF NodeIsRight
  <2> DEFINE W2 == W \cup {node}
  <2>9. NodeIsRight(problem, caps, pc', state', path', frames') BY <1>4, <1>14, <2>8
  <2>10. RefutedAre(problem, caps, pc', state', path', frames', used'.certificate, proof', W2)
         BY <1>4, <1>14, <2>1, <2>7 DEF tree
  <2>11. UNCHANGED <<input, outcome>> /\ pc' \in Places \ {"start", "equalities", "done"}
         /\ pc \notin {"start", "done"}
         BY <1>1, <1>4, <1>14 DEF Places
  <2> HIDE DEF W2
  <2> QED BY <1>2, <1>4, <1>5, <2>2, <2>9, <2>10, <2>11, GoesOn
<1> QED BY <1>11, <1>12, <1>13, <1>14

LEMMA DecideIsRight ==
    ASSUME SearchInv, Decide
    PROVE  SearchInv'
<1> DEFINE decision == ChooseStateDecision(state, problem.values)
           frame == Frame(decision)
<1>1. SearchBasics /\ pc = "decide" /\ Running BY DEF SearchInv, Decide, Running
<1>2. /\ problem \in Problems /\ caps \in Caps /\ asserted = Len(problem.equalities)
      /\ CountsAreRight /\ FramesDecide /\ \E W : RightNode(W)
      /\ Len(problem.equalities) \in Nat /\ WellFormed(problem)
      BY <1>1, RunningFacts
<1>3. PICK W : RightNode(W) BY <1>2
<1>4. /\ problem' = problem /\ caps' = caps /\ path' = path /\ state' = state
      /\ asserted' = asserted /\ proof' = proof /\ UNCHANGED input
      /\ decision # Complete /\ frames' = Append(frames, frame)
      BY DEF Decide, input
<1>5. asserted' \in 0..Len(problem.equalities) BY <1>2, <1>4
<1>6. /\ NodeIsRight(problem, caps, "decide", state, path, frames)
      /\ RefutedAre(problem, caps, "decide", state, path, frames, used.certificate, proof, W)
      BY <1>1, <1>3 DEF RightNode
<1>7. /\ path \in Seq(AssumptionOf(problem)) /\ AtRest(problem, state, path)
      /\ Len(frames) = Len(path) /\ state \in StateOf(problem) /\ Len(path) <= caps.depth
      BY <1>6 DEF NodeIsRight, StateIsRight, Grounded
<1>8. /\ FramesAreRight(problem, state, path, frames, TreesOf(W), W)
      /\ frames \in Seq(FrameOf(problem, TreesOf(W)))
      BY <1>6 DEF RefutedAre, FramesAreRight
<1>9. decision = AuditDecision(problem, Audit(problem, path)) BY <1>2, <1>7, SameChoice
<1>10. decision \in Seq(AssumptionOf(problem))
  <2> DEFINE audit == Audit(problem, path)
  <2>1. Rests(problem, path, audit) BY <1>2, <1>7, RestIsAudited
  <2> HIDE DEF audit
  <2>2. AuditDecision(problem, audit) \in Seq(AssumptionOf(problem))
        BY <1>2, <2>1, BranchFacts DEF BranchesAreRight
  <2> HIDE DEF decision
  <2> QED BY <1>9, <2>2 DEF audit
<1> HIDE DEF decision
<1>11. /\ frame.decision = decision /\ frame.todo = decision /\ frame.proofs = <<>>
       /\ frame.snapshot = Snapshot(state)
       BY DEF Frame
<1>12. frame \in FrameOf(problem, TreesOf(W))
  <2>1. Snapshot(state) \in [trail : Nat, disequalities : Nat]
    <3>1. /\ state.trail \in Seq(TrailEntry(problem))
          /\ state.disequalities \in Seq(Terms(problem) \X Terms(problem))
          BY <1>7 DEF StateOf
    <3>2. Len(state.trail) \in Nat /\ Len(state.disequalities) \in Nat BY <3>1
    <3> QED BY <3>2 DEF Snapshot
  <2>2. <<>> \in Seq(TreesOf(W)) OBVIOUS
  <2> QED BY <1>10, <2>1, <2>2 DEF FrameOf, Frame
<1> HIDE DEF frame
<1>13. Append(frames, frame) \in Seq(FrameOf(problem, TreesOf(W)))
       /\ Len(Append(frames, frame)) = Len(path) + 1
       /\ \A i \in 1..Len(Append(frames, frame)) : Append(frames, frame)[i].decision # Complete
  <2>1. /\ Append(frames, frame) \in Seq(FrameOf(problem, TreesOf(W)))
        /\ Len(Append(frames, frame)) = Len(frames) + 1
        /\ \A i \in 1..Len(frames) : Append(frames, frame)[i] = frames[i]
        /\ Append(frames, frame)[Len(frames) + 1] = frame
        BY <1>8, <1>12, AppendedEntry
  <2>2. \A i \in 1..Len(frames) : frames[i].decision # Complete BY <1>8 DEF FramesAreRight
  <2>3. Len(frames) \in Nat BY <1>8
  <2>4. ASSUME NEW i \in 1..(Len(frames) + 1) PROVE Append(frames, frame)[i].decision # Complete
    <3>1. CASE i = Len(frames) + 1 BY <1>4, <1>11, <2>1, <3>1
    <3>2. CASE i # Len(frames) + 1
      <4>1. i \in 1..Len(frames) BY <2>3, <2>4, <3>2
      <4> QED BY <2>1, <2>2, <4>1
    <3> QED BY <3>1, <3>2
  <2> QED BY <1>7, <2>1, <2>4
<1>14. /\ Stacked(problem, state, path, Append(frames, frame))
       /\ Tried(path, Append(frames, frame)) /\ Recorded(path, Append(frames, frame), W)
  <2>1. Stacked(problem, state, path, frames) /\ Tried(path, frames) /\ Recorded(path, frames, W)
        BY <1>8 DEF FramesAreRight
  <2>2. frame.todo = frame.decision /\ frame.decision \in Seq(AssumptionOf(problem))
        /\ frame.decision = AuditDecision(problem, Audit(problem, path))
        BY <1>9, <1>10, <1>11
  <2> QED BY <1>7, <1>8, <1>11, <1>12, <2>1, <2>2, StackPush
<1>15. FramesAreRight(problem, state, path, Append(frames, frame), TreesOf(W), W)
       BY <1>13, <1>14 DEF FramesAreRight
<1>16. FramesDecide'
  <2>1. DOMAIN Append(frames, frame) = 1..Len(Append(frames, frame)) BY <1>13
  <2> QED BY <1>4, <1>13, <2>1 DEF FramesDecide
<1>17. /\ CountsAreRight' /\ used'.certificate = used.certificate
       /\ \/ Abstain("decisions") /\ "decisions" # "internal"
          \/ pc' = "branch" /\ UNCHANGED outcome
  <2> DEFINE resource == "decisions"
             next == "branch"
  <2>1. Counted(resource, caps.decisions, next) /\ resource \in {"nodes", "decisions"}
        BY DEF Decide
  <2> HIDE DEF resource, next
  <2>2. /\ CountsAreRight' /\ used'.certificate = used.certificate
        /\ \/ Abstain(resource) /\ resource # "internal"
           \/ pc' = next /\ UNCHANGED outcome
        BY <1>2, <1>4, <2>1, CountedEnds
  <2> QED BY <2>2 DEF resource, next
<1>18. CASE Abstain("decisions")
  <2> DEFINE reason == "decisions"
  <2>1. Abstain(reason) /\ reason # "internal" BY <1>18
  <2> QED BY <1>1, <1>4, <1>5, <1>16, <1>17, <2>1, AbstainIsRight
<1>19. CASE pc' = "branch" /\ UNCHANGED outcome
  <2>1. NodeIsRight(problem, caps, "branch", state, path, Append(frames, frame))
        BY <1>6, <1>7, <1>13 DEF NodeIsRight
  <2>2. RefutedAre(problem, caps, "branch", state, path, Append(frames, frame), used.certificate,
                   proof, W)
        BY <1>6, <1>15 DEF RefutedAre
  <2>3. UNCHANGED <<input, outcome>> /\ pc' \in Places \ {"start", "equalities", "done"}
        /\ pc \notin {"start", "done"}
        BY <1>1, <1>4, <1>19 DEF Places
  <2>4. NodeIsRight(problem, caps, pc', state', path', frames') BY <1>4, <1>19, <2>1
  <2>5. RefutedAre(problem, caps, pc', state', path', frames', used'.certificate, proof', W)
        BY <1>4, <1>17, <1>19, <2>2
  <2> QED BY <1>2, <1>4, <1>16, <1>17, <2>3, <2>4, <2>5, GoesOn
<1> QED BY <1>17, <1>18, <1>19

LEMMA BranchTriedIsRight ==
    ASSUME SearchInv, TryBranch
    PROVE  SearchInv'
<1> DEFINE a == Head(Last(frames).todo)
           longer == Append(path, a)
           after == Applied(state, a)
<1>1. SearchBasics /\ pc = "branch" /\ Running BY DEF SearchInv, TryBranch, Running
<1>2. /\ problem \in Problems /\ caps \in Caps /\ asserted = Len(problem.equalities)
      /\ CountsAreRight /\ FramesDecide /\ \E W : RightNode(W)
      /\ Len(problem.equalities) \in Nat /\ WellFormed(problem)
      BY <1>1, RunningFacts
<1>3. PICK W : RightNode(W) BY <1>2
<1>4. /\ problem' = problem /\ caps' = caps /\ used' = used
      /\ asserted' = asserted /\ proof' = proof /\ UNCHANGED input
      /\ Last(frames).todo # <<>> /\ path' = longer /\ frames' = Taken(frames)
      BY DEF TryBranch, input, Taken
<1>5. asserted' \in 0..Len(problem.equalities) /\ CountsAreRight'
      BY <1>2, <1>4 DEF CountsAreRight
<1>6. /\ NodeIsRight(problem, caps, "branch", state, path, frames)
      /\ RefutedAre(problem, caps, "branch", state, path, frames, used.certificate, proof, W)
      BY <1>1, <1>3 DEF RightNode
<1>7. /\ path \in Seq(AssumptionOf(problem)) /\ AtRest(problem, state, path)
      /\ Len(frames) = Len(path) + 1 /\ state \in StateOf(problem)
      /\ StateIsRight(problem, state, path, Len(problem.equalities))
      BY <1>6 DEF NodeIsRight, StateIsRight, Grounded
<1>8. FramesAreRight(problem, state, path, frames, TreesOf(W), W) BY <1>6 DEF RefutedAre
<1>9. BranchTaken(problem, state, path, frames, TreesOf(W), W, a) BY <1>4, <1>7, <1>8, StackBranch
<1> HIDE DEF a
<1>10. /\ a \in AssumptionOf(problem)
       /\ \E i \in DOMAIN AuditDecision(problem, Audit(problem, path)) :
             a = AuditDecision(problem, Audit(problem, path))[i]
       /\ FramesAreRight(problem, state, longer, Taken(frames), TreesOf(W), W)
       /\ Len(Taken(frames)) = Len(frames)
       BY <1>9 DEF BranchTaken
<1>11. a.kind = "Equal" => FindIn(state, a.left) # FindIn(state, a.right)
       BY <1>2, <1>7, <1>10, BranchMerges
<1>12. Len(problem.equalities) \in 0..Len(problem.equalities) BY <1>2
<1>13. /\ StateIsRight(problem, after, longer, Len(problem.equalities))
       /\ Later(problem, state, after)
       BY <1>2, <1>7, <1>10, <1>11, <1>12, BranchIsRight
<1>14. longer \in Seq(AssumptionOf(problem)) /\ Len(longer) = Len(path) + 1
       BY <1>7, <1>10
<1>15. FramesDecide'
  <2>1. /\ Taken(frames) \in Seq(FrameOf(problem, TreesOf(W)))
        /\ \A i \in 1..Len(Taken(frames)) : Taken(frames)[i].decision # Complete
        BY <1>10 DEF FramesAreRight
  <2>2. DOMAIN Taken(frames) = 1..Len(Taken(frames)) BY <2>1
  <2> QED BY <1>4, <2>1, <2>2 DEF FramesDecide
<1> HIDE DEF longer
<1>16. \/ Abstain("trail entries")
       \/ HasRoom(state) /\ state' = after /\ pc' = "enter" /\ UNCHANGED outcome
       BY DEF TryBranch, a, Applied
<1> HIDE DEF after
<1>17. CASE Abstain("trail entries")
  <2> DEFINE reason == "trail entries"
  <2>1. Abstain(reason) /\ reason # "internal" BY <1>17
  <2> QED BY <1>1, <1>4, <1>5, <1>15, <2>1, AbstainIsRight
<1>18. CASE HasRoom(state) /\ state' = after /\ pc' = "enter" /\ UNCHANGED outcome
  <2>1. TrailFits(problem, caps, after)
    <3>1. Len(state.trail) + Len(state.disequalities) - Len(BaseDisequalities(problem)) + 1
            <= caps.trail
          BY <1>18 DEF HasRoom, TrailEntries
    <3>2. caps.trail \in Nat BY <1>2, ProblemFacts
    <3> QED BY <1>2, <1>7, <1>13, <3>1, <3>2, TrailGrows
  <2>2. NodeIsRight(problem, caps, "enter", after, longer, Taken(frames))
        BY <1>7, <1>10, <1>13, <1>14, <2>1 DEF NodeIsRight
  <2>3. FramesAreRight(problem, after, longer, Taken(frames), TreesOf(W), W)
    <3>1. Stacked(problem, state, longer, Taken(frames)) BY <1>10 DEF FramesAreRight
    <3>2. Stacked(problem, after, longer, Taken(frames)) BY <1>7, <1>13, <3>1, StackLater
    <3> QED BY <1>10, <3>2 DEF FramesAreRight
  <2>4. RefutedAre(problem, caps, "enter", after, longer, Taken(frames), used.certificate, proof, W)
        BY <1>6, <2>3 DEF RefutedAre
  <2>5. UNCHANGED <<input, outcome>> /\ pc' \in Places \ {"start", "equalities", "done"}
        /\ pc \notin {"start", "done"}
        BY <1>1, <1>4, <1>18 DEF Places
  <2>6. NodeIsRight(problem, caps, pc', state', path', frames') BY <1>4, <1>18, <2>2
  <2>7. RefutedAre(problem, caps, pc', state', path', frames', used'.certificate, proof', W)
        BY <1>4, <1>18, <2>4
  <2> QED BY <1>2, <1>4, <1>5, <1>15, <2>5, <2>6, <2>7, GoesOn
<1> QED BY <1>16, <1>17, <1>18

LEMMA ReturnIsRight ==
    ASSUME SearchInv, BranchRefuted
    PROVE  SearchInv'
<1> DEFINE s2 == Rollback(state, Last(frames).snapshot)
           shorter == Front(path)
           fs2 == Returned(frames, proof)
<1>1. SearchBasics /\ pc = "return" /\ Running BY DEF SearchInv, BranchRefuted, Running
<1>2. /\ problem \in Problems /\ caps \in Caps /\ asserted = Len(problem.equalities)
      /\ CountsAreRight /\ FramesDecide /\ \E W : RightNode(W)
      /\ Len(problem.equalities) \in Nat /\ WellFormed(problem)
      BY <1>1, RunningFacts
<1>3. PICK W : RightNode(W) BY <1>2
<1>4. /\ problem' = problem /\ caps' = caps /\ used' = used
      /\ asserted' = asserted /\ proof' = proof /\ UNCHANGED <<input, outcome>>
      /\ frames # <<>> /\ path' = shorter /\ state' = s2 /\ frames' = fs2 /\ pc' = "branch"
      BY DEF BranchRefuted, input, Returned
<1>5. CountsAreRight' BY <1>2, <1>4 DEF CountsAreRight
<1>6. /\ NodeIsRight(problem, caps, "return", state, path, frames)
      /\ RefutedAre(problem, caps, "return", state, path, frames, used.certificate, proof, W)
      BY <1>1, <1>3 DEF RightNode
<1>7. /\ path \in Seq(AssumptionOf(problem)) /\ Len(path) <= caps.depth
      /\ Len(frames) = Len(path) /\ state \in StateOf(problem) /\ TrailFits(problem, caps, state)
      BY <1>6 DEF NodeIsRight, StateIsRight, Grounded
<1>8. /\ FramesAreRight(problem, state, path, frames, TreesOf(W), W)
      /\ [path |-> path, proof |-> proof] \in W
      BY <1>6 DEF RefutedAre
<1>9. proof \in TreesOf(W)
  <2> DEFINE node == [path |-> path, proof |-> proof]
  <2>1. node \in W /\ node.proof = proof BY <1>8
  <2> HIDE DEF node
  <2> QED BY <2>1 DEF TreesOf
<1>10. BranchReturned(problem, state, path, frames, TreesOf(W), W, proof, s2, shorter)
       BY <1>4, <1>7, <1>8, <1>9, StackReturn
<1> HIDE DEF s2, shorter, fs2
<1>11. /\ shorter \in Seq(AssumptionOf(problem)) /\ Len(shorter) = Len(path) - 1
       /\ AtRest(problem, s2, shorter)
       /\ Len(s2.trail) <= Len(state.trail)
       /\ Len(s2.disequalities) <= Len(state.disequalities)
       /\ FramesAreRight(problem, s2, shorter, fs2, TreesOf(W), W)
       /\ Len(fs2) = Len(frames)
       BY <1>10 DEF BranchReturned, fs2
<1>12. StateIsRight(problem, s2, shorter, Len(problem.equalities)) BY <1>11 DEF AtRest
<1>13. TrailFits(problem, caps, s2)
  <2>1. s2 \in StateOf(problem) BY <1>12 DEF StateIsRight, Grounded
  <2>2. ASSUME NEW s \in StateOf(problem) PROVE Len(s.trail) \in Nat /\ Len(s.disequalities) \in Nat
    <3>1. s.trail \in Seq(TrailEntry(problem))
          /\ s.disequalities \in Seq(Terms(problem) \X Terms(problem))
          BY <2>2 DEF StateOf
    <3> QED BY <3>1
  <2>3. /\ Len(s2.trail) \in Nat /\ Len(s2.disequalities) \in Nat
        /\ Len(state.trail) \in Nat /\ Len(state.disequalities) \in Nat
        BY <1>7, <2>1, <2>2
  <2>4. Len(BaseDisequalities(problem)) \in Nat /\ caps.trail \in Nat
        BY <1>2, BaseIsSequence, ProblemFacts
  <2>5. \A k, l, k2, l2, b, m \in Nat :
            k2 <= k /\ l2 <= l /\ k + l - b <= m => k2 + l2 - b <= m
        OBVIOUS
  <2>6. Len(state.trail) + Len(state.disequalities) - Len(BaseDisequalities(problem)) <= caps.trail
        BY <1>7 DEF TrailFits
  <2>7. Len(s2.trail) + Len(s2.disequalities) - Len(BaseDisequalities(problem)) <= caps.trail
        BY <1>11, <2>3, <2>4, <2>5, <2>6
  <2> QED BY <2>7 DEF TrailFits
<1>14. Len(path) \in Nat /\ Len(shorter) <= caps.depth /\ Len(fs2) = Len(shorter) + 1
  <2>1. Len(path) \in Nat /\ Len(shorter) \in Nat /\ caps.depth \in Nat
        BY <1>2, <1>7, <1>11, ProblemFacts
  <2> QED BY <1>7, <1>11, <2>1
<1>15. FramesDecide'
  <2>1. /\ fs2 \in Seq(FrameOf(problem, TreesOf(W)))
        /\ \A i \in 1..Len(fs2) : fs2[i].decision # Complete
        BY <1>11 DEF FramesAreRight
  <2>2. DOMAIN fs2 = 1..Len(fs2) BY <2>1
  <2> QED BY <1>4, <2>1, <2>2 DEF FramesDecide
<1>16. NodeIsRight(problem, caps, "branch", s2, shorter, fs2)
       BY <1>11, <1>12, <1>13, <1>14 DEF NodeIsRight
<1>17. RefutedAre(problem, caps, "branch", s2, shorter, fs2, used.certificate, proof, W)
       BY <1>6, <1>11 DEF RefutedAre
<1>18. pc' \in Places \ {"start", "equalities", "done"} /\ pc \notin {"start", "done"}
       BY <1>1, <1>4 DEF Places
<1>19. NodeIsRight(problem, caps, pc', state', path', frames') BY <1>4, <1>16
<1>20. RefutedAre(problem, caps, pc', state', path', frames', used'.certificate, proof', W)
       BY <1>4, <1>17
<1> QED BY <1>2, <1>4, <1>5, <1>15, <1>18, <1>19, <1>20, GoesOn

LEMMA SplitIsRight ==
    ASSUME SearchInv, AllRefuted
    PROVE  SearchInv'
<1> DEFINE tree == Split(Last(frames).decision, Last(frames).proofs)
           node == [path |-> path, proof |-> tree]
           fs2 == Front(frames)
<1>1. SearchBasics /\ pc = "branch" /\ Running BY DEF SearchInv, AllRefuted, Running
<1>2. /\ problem \in Problems /\ caps \in Caps /\ asserted = Len(problem.equalities)
      /\ CountsAreRight /\ FramesDecide /\ \E W : RightNode(W)
      /\ Len(problem.equalities) \in Nat /\ WellFormed(problem)
      BY <1>1, RunningFacts
<1>3. PICK W : RightNode(W) BY <1>2
<1>4. /\ problem' = problem /\ caps' = caps /\ path' = path /\ state' = state
      /\ asserted' = asserted /\ UNCHANGED input /\ Last(frames).todo = <<>>
      /\ proof' = tree /\ frames' = fs2
      BY DEF AllRefuted, input
<1>5. asserted' \in 0..Len(problem.equalities) BY <1>2, <1>4
<1>6. /\ NodeIsRight(problem, caps, "branch", state, path, frames)
      /\ RefutedAre(problem, caps, "branch", state, path, frames, used.certificate, proof, W)
      BY <1>1, <1>3 DEF RightNode
<1>7. /\ path \in Seq(AssumptionOf(problem)) /\ AtRest(problem, state, path)
      /\ Len(path) <= caps.depth /\ Len(frames) = Len(path) + 1
      BY <1>6 DEF NodeIsRight
<1>8. FramesAreRight(problem, state, path, frames, TreesOf(W), W) BY <1>6 DEF RefutedAre
<1>9. AllReturned(problem, state, path, frames, TreesOf(W), W)
      BY <1>2, <1>4, <1>7, <1>8, StackPop
<1>10. /\ FramesAreRight(problem, state, path, fs2, TreesOf(W), W) /\ Len(fs2) = Len(path)
       /\ NodeHolds(problem, node) /\ Below(node) \subseteq W
       BY <1>9 DEF AllReturned
<1>11. FramesDecide'
  <2>1. /\ fs2 \in Seq(FrameOf(problem, TreesOf(W)))
        /\ \A i \in 1..Len(fs2) : fs2[i].decision # Complete
        BY <1>10 DEF FramesAreRight
  <2>2. DOMAIN fs2 = 1..Len(fs2) BY <2>1
  <2> QED BY <1>4, <2>1, <2>2 DEF FramesDecide
<1>12. /\ used \in [nodes : Nat, decisions : Nat, propagations : Nat, conflicts : Nat,
                    certificate : Nat]
       /\ used.certificate <= caps.certificate /\ caps.certificate \in Nat
       BY <1>2, ProblemFacts DEF CountsAreRight
<1>13. \/ Abstain("certificate") /\ used' = used
       \/ /\ used.certificate < caps.certificate
          /\ used' = [used EXCEPT !.certificate = @ + 1]
          /\ pc' = "return" /\ UNCHANGED outcome
       BY <1>12 DEF AllRefuted, Counted
<1> HIDE DEF tree, fs2
<1>14. CASE Abstain("certificate") /\ used' = used
  <2> DEFINE reason == "certificate"
  <2>1. Abstain(reason) /\ reason # "internal" BY <1>14
  <2>2. CountsAreRight' BY <1>4, <1>12, <1>14 DEF CountsAreRight
  <2> QED BY <1>1, <1>4, <1>5, <1>11, <2>1, <2>2, AbstainIsRight
<1>15. CASE /\ used.certificate < caps.certificate
            /\ used' = [used EXCEPT !.certificate = @ + 1]
            /\ pc' = "return" /\ UNCHANGED outcome
  <2>1. /\ used' \in [nodes : Nat, decisions : Nat, propagations : Nat, conflicts : Nat,
                      certificate : Nat]
        /\ used'.certificate = used.certificate + 1 /\ used'.certificate <= caps.certificate
        BY <1>12, <1>15
  <2>2. CountsAreRight' BY <1>4, <2>1 DEF CountsAreRight
  <2> DEFINE W2 == W \cup {node}
  <2>3. RefutedAre(problem, caps, "return", state, path, fs2, used.certificate + 1, tree, W2)
    <3>1. IsFiniteSet(W) /\ Cardinality(W) <= used.certificate /\ Upheld(problem, caps.depth, W)
          BY <1>6 DEF RefutedAre
    <3>2. used.certificate \in Nat BY <1>12
    <3> QED BY <1>7, <1>10, <3>1, <3>2, NodeRecorded
  <2>4. NodeIsRight(problem, caps, "return", state, path, fs2)
        BY <1>6, <1>10 DEF NodeIsRight
  <2> HIDE DEF W2
  <2>5. NodeIsRight(problem, caps, pc', state', path', frames') BY <1>4, <1>15, <2>4
  <2>6. RefutedAre(problem, caps, pc', state', path', frames', used'.certificate, proof', W2)
        BY <1>4, <1>15, <2>1, <2>3
  <2>7. UNCHANGED <<input, outcome>> /\ pc' \in Places \ {"start", "equalities", "done"}
        /\ pc \notin {"start", "done"}
        BY <1>1, <1>4, <1>15 DEF Places
  <2> QED BY <1>2, <1>4, <1>5, <1>11, <2>2, <2>5, <2>6, <2>7, GoesOn
<1> QED BY <1>13, <1>14, <1>15

(* The refutation of the root holds below too: the checker accepts it.     *)
LEMMA RefutationIsRight ==
    ASSUME SearchInv, Refute
    PROVE  SearchInv'
<1> DEFINE root == [path |-> <<>>, proof |-> proof]
           nodes == Visited(<<>>, proof, caps.depth + 1)
<1>1. SearchBasics /\ pc = "return" /\ Running BY DEF SearchInv, Refute, Running
<1>2. /\ problem \in Problems /\ caps \in Caps /\ asserted = Len(problem.equalities)
      /\ CountsAreRight /\ FramesDecide /\ \E W : RightNode(W) /\ Valid(problem)
      /\ Len(problem.equalities) \in Nat /\ WellFormed(problem)
      BY <1>1, RunningFacts
<1>3. PICK W : RightNode(W) BY <1>2
<1>4. /\ problem' = problem /\ caps' = caps /\ frames' = frames /\ used' = used
      /\ asserted' = asserted /\ proof' = proof /\ UNCHANGED input
      /\ frames = <<>> /\ pc' = "done" /\ outcome' = Answer("Unsat", "none")
      BY DEF Refute, input, search, End
<1>5. asserted' \in 0..Len(problem.equalities) BY <1>2, <1>4
<1>6. CountsAreRight' /\ FramesDecide' BY <1>2, <1>4 DEF CountsAreRight, FramesDecide
<1>7. /\ NodeIsRight(problem, caps, "return", state, path, frames)
      /\ RefutedAre(problem, caps, "return", state, path, frames, used.certificate, proof, W)
      BY <1>1, <1>3 DEF RightNode
<1>8. /\ IsFiniteSet(W) /\ Cardinality(W) <= used.certificate /\ Upheld(problem, caps.depth, W)
      /\ [path |-> path, proof |-> proof] \in W
      BY <1>7 DEF RefutedAre
<1>9. path = <<>>
  <2>1. path \in Seq(AssumptionOf(problem)) /\ Len(frames) = Len(path) BY <1>7 DEF NodeIsRight
  <2>2. Len(path) = 0 BY <1>4, <2>1
  <2> QED BY <2>1, <2>2
<1>10. root \in W BY <1>8, <1>9
<1>11. /\ used.certificate \in Nat /\ used.certificate <= caps.certificate
       /\ caps.certificate \in Nat /\ caps.depth \in Nat
       BY <1>2, ProblemFacts DEF CountsAreRight
<1>12. nodes \subseteq W
  <2>1. \A node \in W : Below(node) \subseteq W BY <1>8 DEF Upheld
  <2>2. caps.depth + 1 \in Nat BY <1>11
  <2> QED BY <1>10, <2>1, <2>2, VisitedWithin
<1> HIDE DEF nodes, root
<1>13. Cardinality(nodes) <= caps.certificate
  <2>1. IsFiniteSet(nodes) /\ Cardinality(nodes) <= Cardinality(W) BY <1>8, <1>12, FS_Subset
  <2>2. Cardinality(nodes) \in Nat /\ Cardinality(W) \in Nat BY <1>8, <2>1, FS_CardinalityType
  <2> QED BY <1>8, <1>11, <2>1, <2>2
<1>14. \A node \in nodes : Len(node.path) <= caps.depth /\ NodeHolds(problem, node)
       BY <1>8, <1>12 DEF Upheld
<1>15. Accepted(problem, caps.certificate, caps.depth, proof)
       BY <1>13, <1>14 DEF Accepted, nodes
<1>16. ~HasModel(problem) BY <1>2, <1>11, <1>15, CheckerIsSound
<1>17. AnswerIsRight'
  <2>1. outcome'.kind = "Unsat" /\ outcome'.reason = "none" BY <1>4 DEF Answer
  <2>2. Valid(problem') /\ ~HasModel(problem')
        /\ Accepted(problem', caps'.certificate, caps'.depth, proof')
        BY <1>2, <1>4, <1>15, <1>16
  <2> QED BY <1>4, <2>1, <2>2 DEF AnswerIsRight, OutcomeIsRight
<1> QED BY <1>1, <1>4, <1>5, <1>6, <1>17, EndIsRight

(* Where nothing is left to decide, the values are a model.                *)
LEMMA ModelIsRight ==
    ASSUME SearchInv, CompleteModel
    PROVE  SearchInv'
<1>1. SearchBasics /\ pc = "decide" /\ Running BY DEF SearchInv, CompleteModel, Running
<1>2. /\ problem \in Problems /\ caps \in Caps /\ asserted = Len(problem.equalities)
      /\ CountsAreRight /\ FramesDecide /\ \E W : RightNode(W) /\ Valid(problem)
      /\ Len(problem.equalities) \in Nat /\ WellFormed(problem)
      BY <1>1, RunningFacts
<1>3. PICK W : RightNode(W) BY <1>2
<1>4. /\ problem' = problem /\ caps' = caps /\ frames' = frames /\ used' = used
      /\ asserted' = asserted /\ UNCHANGED input
      /\ ChooseStateDecision(state, problem.values) = Complete
      BY DEF CompleteModel, input, search
<1>5. asserted' \in 0..Len(problem.equalities) BY <1>2, <1>4
<1>6. CountsAreRight' /\ FramesDecide' BY <1>2, <1>4 DEF CountsAreRight, FramesDecide
<1>7. /\ path \in Seq(AssumptionOf(problem)) /\ AtRest(problem, state, path)
      /\ state \in StateOf(problem) /\ Grounded(problem, state)
      BY <1>1, <1>3 DEF RightNode, NodeIsRight, StateIsRight, Grounded
<1>8. OneValueEach
  <2>1. \A t \in Terms(problem) : \E v \in DomainOf(problem, t) : state.domain[FindIn(state, t)] = {v}
        BY <1>2, <1>4, <1>7, CompleteIsSingleton
  <2> QED BY <2>1 DEF OneValueEach
<1>9. AllSingleton
  <2> SUFFICES ASSUME NEW root \in RootsIn(state) PROVE IsSingleton(state.domain[root])
      BY DEF AllSingleton
  <2>1. state.parent \in [Terms(problem) -> Terms(problem)] BY <1>7 DEF StateOf
  <2>2. root \in Terms(problem) /\ state.parent[root] = root BY <2>1 DEF RootsIn
  <2>3. IsTree(state.parent, Terms(problem)) BY <1>7 DEF Grounded
  <2>4. FindIn(state, root) = root BY <2>2, <2>3, FindRecursion
  <2>5. \E v : state.domain[root] = {v} BY <1>8, <2>2, <2>4 DEF OneValueEach
  <2> QED BY <2>5, FS_Singleton DEF IsSingleton
<1>10. IsModel(problem, TermValues) /\ HasModel(problem) BY <1>2, <1>7, <1>8, ModelAtRest
<1>11. ~ResultsClash BY <1>2, <1>7, <1>8, NoClash
<1>12. IsWitness(problem, Witness)
  <2>1. 0 \in Carrier(problem) BY <1>2, ProblemFacts
  <2> QED BY <1>2, <1>7, <1>8, <1>10, <2>1, WitnessAtRest
<1>13. Abstain("cells") \/ End("Sat", "none") BY <1>9, <1>11, <1>12 DEF CompleteModel
<1>14. CASE Abstain("cells")
  <2> DEFINE reason == "cells"
  <2>1. Abstain(reason) /\ reason # "internal" BY <1>14
  <2> QED BY <1>1, <1>4, <1>5, <1>6, <2>1, AbstainIsRight
<1>15. CASE End("Sat", "none")
  <2>1. pc' = "done" /\ outcome' = Answer("Sat", "none") BY <1>15 DEF End
  <2>2. outcome'.kind = "Sat" /\ outcome'.reason = "none" BY <2>1 DEF Answer
  <2>3. Valid(problem') /\ HasModel(problem') BY <1>2, <1>4, <1>10
  <2>4. AnswerIsRight' BY <2>1, <2>2, <2>3 DEF AnswerIsRight, OutcomeIsRight
  <2> QED BY <1>1, <1>4, <1>5, <1>6, <2>1, <2>4, EndIsRight
<1> QED BY <1>13, <1>14, <1>15

LEMMA StutterIsRight ==
    ASSUME SearchInv, UNCHANGED searchVars
    PROVE  SearchInv'
<1>1. /\ problem' = problem /\ caps' = caps /\ pc' = pc /\ state' = state /\ asserted' = asserted
      /\ path' = path /\ frames' = frames /\ used' = used /\ proof' = proof /\ outcome' = outcome
      BY DEF searchVars, input, search
<1>2. SearchBasics' BY <1>1 DEF SearchInv, SearchBasics, CountsAreRight, FramesDecide
<1>3. AnswerIsRight' BY <1>1 DEF SearchInv, AnswerIsRight, OutcomeIsRight
<1>4. PreparedIsRight' BY <1>1 DEF SearchInv, PreparedIsRight
<1>5. SearchIsRight' BY <1>1 DEF SearchInv, SearchIsRight, Running
<1> QED BY <1>2, <1>3, <1>4, <1>5 DEF SearchInv

(* The invariant of the search: wherever a node is worked on, the state is *)
(* that of its path, and what is recorded as refuted is.                   *)
THEOREM SearchIsInvariant == SearchSpec => []SearchInv
<1>1. SearchInit => SearchInv BY InitIsRight
<1>2. SearchInv /\ [SearchNext]_searchVars => SearchInv'
  <2> SUFFICES ASSUME SearchInv, [SearchNext]_searchVars PROVE SearchInv' OBVIOUS
  <2>1. CASE Start BY <2>1, StartIsRight
  <2>2. CASE AssertEquality BY <2>2, AssertIsRight
  <2>3. CASE BeginSearch BY <2>3, BeginIsRight
  <2>4. CASE EnterNode BY <2>4, EnterIsRight
  <2>5. CASE MergeSignature BY <2>5, SignatureIsRight
  <2>6. CASE MergeForcedValue BY <2>6, ForcedValueIsRight
  <2>7. CASE ReduceDomain BY <2>7, ReduceIsRight
  <2>8. CASE ReachFixpoint BY <2>8, FixpointIsRight
  <2>9. CASE FindConflict BY <2>9, ConflictIsRight
  <2>10. CASE ConflictLeaf BY <2>10, LeafIsRight
  <2>11. CASE Decide BY <2>11, DecideIsRight
  <2>12. CASE TryBranch BY <2>12, BranchTriedIsRight
  <2>13. CASE BranchRefuted BY <2>13, ReturnIsRight
  <2>14. CASE AllRefuted BY <2>14, SplitIsRight
  <2>15. CASE Refute BY <2>15, RefutationIsRight
  <2>16. CASE CompleteModel BY <2>16, ModelIsRight
  <2>17. CASE Terminating BY <2>17, StutterIsRight DEF Terminating
  <2>18. CASE UNCHANGED searchVars BY <2>18, StutterIsRight
  <2> QED BY <2>1, <2>2, <2>3, <2>4, <2>5, <2>6, <2>7, <2>8, <2>9, <2>10, <2>11, <2>12, <2>13,
             <2>14, <2>15, <2>16, <2>17, <2>18 DEF SearchNext
<1> QED BY <1>1, <1>2, PTL DEF SearchSpec

LEMMA RunningNode ==
    ASSUME SearchInv, Running
    PROVE  WellFormed(problem) /\ NodeIsRight(problem, caps, pc, state, path, frames)
<1>1. WellFormed(problem) /\ \E W : RightNode(W) BY RunningFacts
<1> QED BY <1>1 DEF RightNode

(* The union-find is a forest with the sizes of its classes, the trail is  *)
(* within its cap, and every frame has a branch.                           *)
LEMMA TypesFollow ==
    ASSUME SearchInv
    PROVE  SearchTypeOK
<1>1. /\ problem \in Problems /\ caps \in Caps /\ asserted \in 0..Len(problem.equalities)
      /\ \A i \in DOMAIN frames : frames[i].decision # Complete
      BY DEF SearchInv, SearchBasics, FramesDecide
<1>2. outcome.kind \in {"None", "InvalidInput", "Abstain", "Sat", "Unsat"}
      BY DEF SearchInv, AnswerIsRight
<1>3. ASSUME Running
      PROVE  /\ state.parent \in [Terms(problem) -> Terms(problem)]
             /\ \A root \in RootsIn(state) :
                   state.size[root] = Cardinality({t \in Terms(problem) : FindIn(state, t) = root})
             /\ TrailEntries(state) <= caps.trail
  <2>1. NodeIsRight(problem, caps, pc, state, path, frames) BY <1>3, RunningNode
  <2>2. Grounded(problem, state) /\ TrailFits(problem, caps, state)
        BY <2>1 DEF NodeIsRight, StateIsRight
  <2>3. state.parent \in [Terms(problem) -> Terms(problem)] BY <2>2 DEF Grounded, StateOf
  <2>4. ASSUME NEW root \in RootsIn(state)
        PROVE  state.size[root] = Cardinality({t \in Terms(problem) : FindIn(state, t) = root})
    <3>1. root \in Terms(problem) /\ state.parent[root] = root BY <2>3, <2>4 DEF RootsIn
    <3> QED BY <2>2, <3>1 DEF Grounded, ClassIn
  <2>5. TrailEntries(state) <= caps.trail BY <2>2 DEF TrailFits, TrailEntries
  <2> QED BY <2>3, <2>4, <2>5
<1> QED BY <1>1, <1>2, <1>3 DEF SearchTypeOK

LEMMA PathFollows ==
    ASSUME SearchInv
    PROVE  StateIsOfThePath
<1> DEFINE audit == Audit(problem, path)
<1>1. SearchTypeOK BY TypesFollow
<1>2. ASSUME pc = "decide"
      PROVE  /\ ~audit.conflict
             /\ \A t \in Terms(problem) :
                   /\ audit.labels[t] = Representative(state, FindIn(state, t))
                   /\ audit.domains[audit.labels[t]] = state.domain[FindIn(state, t)]
             /\ ChooseStateDecision(state, problem.values) = AuditDecision(problem, audit)
  <2>1. Running BY <1>2 DEF Running
  <2>2. WellFormed(problem) /\ NodeIsRight(problem, caps, pc, state, path, frames)
        BY <2>1, RunningNode
  <2>3. path \in Seq(AssumptionOf(problem)) /\ AtRest(problem, state, path)
        /\ Grounded(problem, state)
        BY <1>2, <2>2 DEF NodeIsRight, StateIsRight
  <2>4. /\ ~audit.conflict /\ Rests(problem, path, audit) /\ SameAsAudit(problem, state, audit)
        BY <2>2, <2>3, RestIsAudited
  <2>5. ChooseStateDecision(state, problem.values) = AuditDecision(problem, audit)
        BY <2>2, <2>3, SameChoice
  <2> HIDE DEF audit
  <2>6. audit.labels \in Labels(Terms(problem)) BY <2>4 DEF Rests
  <2>7. \A t \in Terms(problem) : audit.labels[t] = Representative(state, FindIn(state, t))
        BY <2>2, <2>3, <2>4, <2>6, LeastOfClass
  <2>8. \A t \in Terms(problem) : audit.domains[audit.labels[t]] = state.domain[FindIn(state, t)]
        BY <2>4 DEF SameAsAudit
  <2> QED BY <2>4, <2>5, <2>7, <2>8
<1>3. ASSUME pc = "conflict" PROVE audit.conflict
  <2>1. Running BY <1>3 DEF Running
  <2> QED BY <1>3, <2>1, RunningNode DEF NodeIsRight
<1> QED BY <1>1, <1>2, <1>3 DEF StateIsOfThePath

LEMMA ForgeriesFollow ==
    ASSUME SearchInv
    PROVE  ForgeriesAreRefused
<1> SUFFICES ASSUME outcome.kind = "Sat", NEW style \in {"cut", "close"},
                    Accepted(problem, caps.certificate, caps.depth, Forgery(style))
             PROVE  FALSE
    BY DEF ForgeriesAreRefused
<1>1. Valid(problem) /\ HasModel(problem) BY DEF SearchInv, AnswerIsRight, OutcomeIsRight
<1>2. problem \in Problems /\ caps \in Caps BY DEF SearchInv, SearchBasics
<1>3. WellFormed(problem) /\ caps.depth \in Nat BY <1>1, <1>2, ProblemFacts
<1>4. ~HasModel(problem) BY <1>3, CheckerIsSound
<1> QED BY <1>1, <1>4

(* The types of the search, whatever the problem and the caps.             *)
THEOREM SearchTypeCorrect == SearchSpec => []SearchTypeOK
<1>1. SearchInv => SearchTypeOK BY TypesFollow
<1> QED BY <1>1, SearchIsInvariant, PTL

(* The state that is changed and undone is always that of the path.        *)
THEOREM SearchFollowsThePath == SearchSpec => []StateIsOfThePath
<1>1. SearchInv => StateIsOfThePath BY PathFollows
<1> QED BY <1>1, SearchIsInvariant, PTL

(* Every answer of the search is right, and it never contradicts itself.   *)
THEOREM AnswersAreRight == SearchSpec => []OutcomeIsRight
<1>1. SearchInv => OutcomeIsRight BY DEF SearchInv, AnswerIsRight
<1> QED BY <1>1, SearchIsInvariant, PTL

(* The checker refuses a refutation of a problem that has a model.         *)
THEOREM NoForgeryIsAccepted == SearchSpec => []ForgeriesAreRefused
<1>1. SearchInv => ForgeriesAreRefused BY ForgeriesFollow
<1> QED BY <1>1, SearchIsInvariant, PTL
=============================================================================
