--------------------------- MODULE UnionFindProofs ---------------------------
(***************************************************************************)
(* Theorems about UnionFind, for any set of terms too small to saturate a  *)
(* rank.  Lookups recurse along the parents; since ranks grow on the way   *)
(* up and are bounded, what holds of the roots and is handed down from     *)
(* parent to child holds of all terms.                                     *)
(***************************************************************************)
EXTENDS UnionFind, FiniteSetTheorems, NumberInduction, TLAPS

-----------------------------------------------------------------------------
(* The recursions of root_const and find are functions.                    *)
Upward(p, k) ==
    /\ p \in [Term -> Term] /\ k \in [Term -> 0..MaxRank]
    /\ \A t \in Term : p[t] # t => k[t] < k[p[t]]

Depth(k, t) == MaxRank - k[t]

(* How far a rank is below the largest is a number, smaller for the parent. *)
LEMMA Depths ==
    ASSUME NEW p, NEW k, Upward(p, k)
    PROVE  \A t \in Term : /\ Depth(k, t) \in Nat /\ Depth(k, t) <= MaxRank /\ p[t] \in Term
                           /\ p[t] # t => Depth(k, p[t]) < Depth(k, t)
<1> SUFFICES ASSUME NEW t \in Term
             PROVE  /\ Depth(k, t) \in Nat /\ Depth(k, t) <= MaxRank /\ p[t] \in Term
                    /\ p[t] # t => Depth(k, p[t]) < Depth(k, t)
    OBVIOUS
<1>1. p[t] \in Term /\ k[t] \in 0..255 BY DEF Upward, MaxRank
<1>2. k[p[t]] \in 0..255 BY <1>1 DEF Upward, MaxRank
<1>3. p[t] # t => k[t] < k[p[t]] BY DEF Upward
<1>4. Depth(k, t) = 255 - k[t] /\ Depth(k, p[t]) = 255 - k[p[t]] BY DEF Depth, MaxRank
<1>5. 255 - k[t] \in Nat /\ 255 - k[t] <= 255 BY <1>1
<1>6. k[t] < k[p[t]] => 255 - k[p[t]] < 255 - k[t]
  <2>1. \A a, b \in 0..255 : a < b => 255 - b < 255 - a OBVIOUS
  <2> QED BY <1>1, <1>2, <2>1
<1> QED BY <1>1, <1>3, <1>4, <1>5, <1>6 DEF MaxRank

(* What every root has, and a parent hands to its children, all terms have. *)
LEMMA UpwardInduction ==
    ASSUME NEW p, NEW k, Upward(p, k), NEW S,
           \A t \in Term : p[t] = t => t \in S,
           \A t \in Term : p[t] \in S => t \in S
    PROVE  \A t \in Term : t \in S
<1> DEFINE N == {n \in Nat : \A t \in Term : Depth(k, t) <= n => t \in S}
<1>1. 0 \in N
  <2> SUFFICES ASSUME NEW t \in Term, Depth(k, t) <= 0 PROVE t \in S OBVIOUS
  <2>1. p[t] = t BY Depths
  <2> QED BY <2>1
<1>2. ASSUME NEW n \in N PROVE n + 1 \in N
  <2> SUFFICES ASSUME NEW t \in Term, Depth(k, t) <= n + 1 PROVE t \in S OBVIOUS
  <2>1. CASE p[t] = t BY <2>1
  <2>2. CASE p[t] # t
    <3>1. Depth(k, p[t]) < Depth(k, t) /\ Depth(k, p[t]) \in Nat /\ Depth(k, t) \in Nat
          /\ p[t] \in Term
          BY <2>2, Depths
    <3>2. Depth(k, p[t]) <= n BY <3>1
    <3> QED BY <3>1, <3>2
  <2> QED BY <2>1, <2>2
<1>3. N = Nat BY <1>1, <1>2, Induction
<1>4. MaxRank \in N BY <1>3 DEF MaxRank
<1> QED BY <1>4, Depths

(* The recursion of root_const ends: there is a function it describes.     *)
LEMMA RootsExist ==
    ASSUME NEW p, NEW k, Upward(p, k)
    PROVE  \E f : f = [y \in Term |-> IF p[y] = y THEN y ELSE f[p[y]]]
<1> DEFINE Good(f, n) == \A y \in Term :
               Depth(k, y) <= n => f[y] = IF p[y] = y THEN y ELSE f[p[y]]
           N == {n \in Nat : \E f : Good(f, n)}
<1>1. 0 \in N
  <2> DEFINE f == [y \in Term |-> y]
  <2>1. Good(f, 0) BY Depths
  <2> HIDE DEF f
  <2> QED BY <2>1
<1>2. ASSUME NEW n \in N PROVE n + 1 \in N
  <2>1. PICK f : Good(f, n) OBVIOUS
  <2> DEFINE g == [y \in Term |-> IF Depth(k, y) <= n THEN f[y]
                                 ELSE IF p[y] = y THEN y ELSE f[p[y]]]
  <2>2. Good(g, n + 1)
    <3> SUFFICES ASSUME NEW y \in Term, Depth(k, y) <= n + 1
                 PROVE  g[y] = IF p[y] = y THEN y ELSE g[p[y]]
        OBVIOUS
    <3>1. CASE p[y] = y BY <2>1, <3>1
    <3>2. CASE p[y] # y
      <4>1. /\ p[y] \in Term /\ Depth(k, p[y]) \in Nat /\ Depth(k, y) \in Nat
            /\ Depth(k, p[y]) < Depth(k, y)
            BY <3>2, Depths
      <4>2. Depth(k, p[y]) <= n BY <4>1
      <4>3. g[p[y]] = f[p[y]] BY <4>1, <4>2
      <4>4. g[y] = f[p[y]] BY <2>1, <3>2
      <4> QED BY <3>2, <4>3, <4>4
    <3> QED BY <3>1, <3>2
  <2> HIDE DEF g
  <2>3. \E h : Good(h, n + 1) BY <2>2
  <2> QED BY <2>3
<1>3. N = Nat BY <1>1, <1>2, Induction
<1>4. PICK f : Good(f, MaxRank) BY <1>3 DEF MaxRank
<1> DEFINE g == [y \in Term |-> f[y]]
<1>5. g = [y \in Term |-> IF p[y] = y THEN y ELSE g[p[y]]]
  <2>1. \A y \in Term : p[y] \in Term /\ f[y] = IF p[y] = y THEN y ELSE f[p[y]]
        BY <1>4, Depths
  <2>2. \A y \in Term : g[y] = IF p[y] = y THEN y ELSE g[p[y]] BY <2>1
  <2> QED BY <2>2
<1> HIDE DEF g
<1> QED BY <1>5

(* Roots is that function.                                                 *)
LEMMA RootsRecursion ==
    ASSUME NEW p, NEW k, Upward(p, k)
    PROVE  Roots(p) = [y \in Term |-> IF p[y] = y THEN y ELSE Roots(p)[p[y]]]
<1> DEFINE r == Roots(p)
<1>1. r = CHOOSE f : f = [y \in Term |-> IF p[y] = y THEN y ELSE f[p[y]]] BY DEF Roots
<1> HIDE DEF r
<1>2. r = [y \in Term |-> IF p[y] = y THEN y ELSE r[p[y]]] BY <1>1, RootsExist
<1> QED BY <1>2 DEF r

(* A root is a term that is its own parent, and of no lower rank.          *)
LEMMA RootFacts ==
    ASSUME NEW p, NEW k, Upward(p, k), NEW x \in Term
    PROVE  /\ Roots(p)[x] \in Term /\ p[Roots(p)[x]] = Roots(p)[x]
           /\ Roots(p)[Roots(p)[x]] = Roots(p)[x]
           /\ x = Roots(p)[x] \/ k[x] < k[Roots(p)[x]]
           /\ Roots(p)[p[x]] = Roots(p)[x]
           /\ p[x] = x <=> Roots(p)[x] = x
<1> DEFINE r == Roots(p)
           S == {t \in Term : r[t] \in Term /\ p[r[t]] = r[t] /\ (t = r[t] \/ k[t] < k[r[t]])}
<1>1. \A y \in Term : r[y] = IF p[y] = y THEN y ELSE r[p[y]] BY RootsRecursion
<1> HIDE DEF r
<1>2. \A t \in Term : p[t] = t => t \in S BY <1>1
<1>3. ASSUME NEW t \in Term, p[t] \in S PROVE t \in S
  <2>1. CASE p[t] = t BY <2>1, <1>2
  <2>2. CASE p[t] # t
    <3>1. r[t] = r[p[t]] /\ k[t] < k[p[t]] /\ p[t] \in Term BY <1>1, <2>2 DEF Upward
    <3>2. k[t] \in 0..255 /\ k[p[t]] \in 0..255 /\ k[r[t]] \in 0..255
          BY <1>3, <3>1 DEF Upward, MaxRank
    <3>3. p[t] = r[t] \/ k[p[t]] < k[r[t]] BY <1>3, <3>1
    <3>4. k[t] < k[r[t]]
      <4>1. CASE p[t] = r[t] BY <3>1, <4>1
      <4>2. CASE k[p[t]] < k[r[t]]
        <5>1. \A a, b, c \in 0..255 : a < b /\ b < c => a < c OBVIOUS
        <5> QED BY <3>1, <3>2, <4>2, <5>1
      <4> QED BY <3>3, <4>1, <4>2
    <3> QED BY <1>3, <3>1, <3>4
  <2> QED BY <2>1, <2>2
<1>4. \A t \in Term : t \in S BY <1>2, <1>3, UpwardInduction
<1>5. x \in S /\ r[x] \in Term BY <1>4
<1>6. r[r[x]] = r[x] BY <1>1, <1>5
<1>7. r[p[x]] = r[x] BY <1>1
<1>8. p[x] = x <=> r[x] = x BY <1>1, <1>5
<1> QED BY <1>5, <1>6, <1>7, <1>8 DEF r

(* The roots are the only function with that recursion.                    *)
LEMMA RootsUnique ==
    ASSUME NEW p, NEW k, Upward(p, k), NEW g,
           \A y \in Term : g[y] = IF p[y] = y THEN y ELSE g[p[y]]
    PROVE  \A y \in Term : Roots(p)[y] = g[y]
<1> DEFINE r == Roots(p)
           S == {t \in Term : r[t] = g[t]}
<1>1. \A y \in Term : r[y] = IF p[y] = y THEN y ELSE r[p[y]] BY RootsRecursion
<1> HIDE DEF r
<1>2. \A t \in Term : p[t] = t => t \in S BY <1>1
<1>3. \A t \in Term : p[t] \in S => t \in S BY <1>1
<1>4. \A t \in Term : t \in S BY <1>2, <1>3, UpwardInduction
<1> QED BY <1>4 DEF r

(* The recursion of find ends, too.                                        *)
LEMMA PathsExist ==
    ASSUME NEW p, NEW k, Upward(p, k)
    PROVE  \E f : f = [y \in Term |-> IF p[y] = y THEN {y} ELSE {y} \cup f[p[y]]]
<1> DEFINE Good(f, n) == \A y \in Term :
               Depth(k, y) <= n => f[y] = IF p[y] = y THEN {y} ELSE {y} \cup f[p[y]]
           N == {n \in Nat : \E f : Good(f, n)}
<1>1. 0 \in N
  <2> DEFINE f == [y \in Term |-> {y}]
  <2>1. Good(f, 0) BY Depths
  <2> HIDE DEF f
  <2> QED BY <2>1
<1>2. ASSUME NEW n \in N PROVE n + 1 \in N
  <2>1. PICK f : Good(f, n) OBVIOUS
  <2> DEFINE g == [y \in Term |-> IF Depth(k, y) <= n THEN f[y]
                                 ELSE IF p[y] = y THEN {y} ELSE {y} \cup f[p[y]]]
  <2>2. Good(g, n + 1)
    <3> SUFFICES ASSUME NEW y \in Term, Depth(k, y) <= n + 1
                 PROVE  g[y] = IF p[y] = y THEN {y} ELSE {y} \cup g[p[y]]
        OBVIOUS
    <3>1. CASE p[y] = y BY <2>1, <3>1
    <3>2. CASE p[y] # y
      <4>1. /\ p[y] \in Term /\ Depth(k, p[y]) \in Nat /\ Depth(k, y) \in Nat
            /\ Depth(k, p[y]) < Depth(k, y)
            BY <3>2, Depths
      <4>2. Depth(k, p[y]) <= n BY <4>1
      <4>3. g[p[y]] = f[p[y]] BY <4>1, <4>2
      <4>4. g[y] = {y} \cup f[p[y]] BY <2>1, <3>2
      <4> QED BY <3>2, <4>3, <4>4
    <3> QED BY <3>1, <3>2
  <2> HIDE DEF g
  <2> HIDE DEF Good
  <2>3. \E h : Good(h, n + 1) BY <2>2
  <2> QED BY <2>3
<1>3. N = Nat BY <1>1, <1>2, Induction
<1>4. PICK f : Good(f, MaxRank) BY <1>3 DEF MaxRank
<1> DEFINE g == [y \in Term |-> f[y]]
<1>5. g = [y \in Term |-> IF p[y] = y THEN {y} ELSE {y} \cup g[p[y]]]
  <2>1. \A y \in Term : p[y] \in Term /\ f[y] = IF p[y] = y THEN {y} ELSE {y} \cup f[p[y]]
        BY <1>4, Depths
  <2>2. \A y \in Term : g[y] = IF p[y] = y THEN {y} ELSE {y} \cup g[p[y]] BY <2>1
  <2> QED BY <2>2
<1> HIDE DEF g
<1> QED BY <1>5

(* The path of a term stays in its class and ends at its root.             *)
LEMMA PathFacts ==
    ASSUME NEW p, NEW k, Upward(p, k), NEW x \in Term
    PROVE  Paths(p)[x] \subseteq {y \in Term : Roots(p)[y] = Roots(p)[x]}
<1> DEFINE u == Paths(p)
           r == Roots(p)
           S == {t \in Term : u[t] \subseteq {y \in Term : r[y] = r[t]}}
<1>1. u = CHOOSE f : f = [y \in Term |-> IF p[y] = y THEN {y} ELSE {y} \cup f[p[y]]]
      BY DEF Paths
<1>2. \A y \in Term : r[p[y]] = r[y] BY RootFacts
<1> HIDE DEF u, r
<1>3. u = [y \in Term |-> IF p[y] = y THEN {y} ELSE {y} \cup u[p[y]]] BY <1>1, PathsExist
<1>4. \A y \in Term : u[y] = IF p[y] = y THEN {y} ELSE {y} \cup u[p[y]] BY <1>3
<1>5. ASSUME NEW t \in Term, p[t] = t PROVE t \in S
  <2>1. u[t] = {t} BY <1>4, <1>5
  <2> QED BY <2>1
<1>6. ASSUME NEW t \in Term, p[t] \in S PROVE t \in S
  <2>1. r[p[t]] = r[t] /\ u[t] \subseteq {t} \cup u[p[t]] BY <1>2, <1>4
  <2>2. u[p[t]] \subseteq {y \in Term : r[y] = r[t]} BY <1>6, <2>1
  <2> QED BY <2>1, <2>2
<1>7. \A t \in Term : t \in S BY <1>5, <1>6, UpwardInduction
<1> QED BY <1>7 DEF u, r

(* find moves terms to their roots and nothing else.                       *)
LEMMA CompressFacts ==
    ASSUME NEW p, NEW k, Upward(p, k), NEW x \in Term
    PROVE  /\ Upward(Compress(p, x), k)
           /\ \A y \in Term : Roots(Compress(p, x))[y] = Roots(p)[y]
<1> DEFINE q == Compress(p, x)
           r == Roots(p)
<1>1. \A y \in Term : q[y] \in {p[y], r[y]}
  <2>1. \A y \in Paths(p)[x] : r[y] = r[x] BY PathFacts
  <2> QED BY <2>1 DEF Compress, Path, RootConst
<1>2. q = [y \in Term |-> q[y]] BY DEF Compress
<1>3. \A y \in Term : /\ r[y] \in Term /\ p[y] \in Term /\ r[r[y]] = r[y] /\ r[p[y]] = r[y]
                      /\ y = r[y] \/ k[y] < k[r[y]]
                      /\ p[y] = y <=> r[y] = y
                      /\ p[y] # y => k[y] < k[p[y]]
      BY RootFacts DEF Upward
<1> HIDE DEF q, r
<1>4. Upward(q, k)
  <2>1. q \in [Term -> Term] BY <1>1, <1>2, <1>3
  <2>2. \A y \in Term : q[y] # y => k[y] < k[q[y]] BY <1>1, <1>3
  <2> QED BY <2>1, <2>2 DEF Upward
<1>5. \A y \in Term : r[y] = IF q[y] = y THEN y ELSE r[q[y]] BY <1>1, <1>3
<1>6. \A y \in Term : Roots(q)[y] = r[y] BY <1>4, <1>5, RootsUnique
<1> QED BY <1>4, <1>6 DEF q, r

(* q is p with one root linked below another, j are ranks that may have    *)
(* grown at the winner.                                                    *)
Links(p, k, winner, loser, q, j) ==
    /\ Upward(p, k)
    /\ winner \in Term /\ loser \in Term /\ winner # loser
    /\ p[winner] = winner /\ p[loser] = loser
    /\ q \in [Term -> Term]
    /\ \A y \in Term : q[y] = IF y = loser THEN winner ELSE p[y]
    /\ j \in [Term -> 0..MaxRank]
    /\ \A t \in Term : t # winner => j[t] = k[t]
    /\ k[winner] <= j[winner] /\ k[loser] < j[winner]

(* Stated alone, for leaves whose context is too large for arithmetic.     *)
LEMMA RankOrder == \A a, b, c \in 0..MaxRank : a < b /\ b <= c => a < c
BY DEF MaxRank

(* Linking one root below another joins their classes.                     *)
LEMMA LinkFacts ==
    ASSUME NEW p, NEW k, NEW winner, NEW loser, NEW q, NEW j,
           Links(p, k, winner, loser, q, j)
    PROVE  /\ Upward(q, j)
           /\ \A y \in Term : Roots(q)[y] =
                  IF Roots(p)[y] = loser THEN winner ELSE Roots(p)[y]
<1> DEFINE r == Roots(p)
           g == [y \in Term |-> IF r[y] = loser THEN winner ELSE r[y]]
<1>0. /\ Upward(p, k)
      /\ winner \in Term /\ loser \in Term /\ winner # loser
      /\ p[winner] = winner /\ p[loser] = loser
      /\ j \in [Term -> 0..MaxRank]
      /\ \A t \in Term : t # winner => j[t] = k[t]
      /\ k[winner] <= j[winner] /\ k[loser] < j[winner]
      BY DEF Links
<1>1. q \in [Term -> Term] /\ \A y \in Term : q[y] = IF y = loser THEN winner ELSE p[y]
      BY DEF Links
<1>2. \A y \in Term : /\ r[y] \in Term /\ p[y] \in Term /\ r[p[y]] = r[y]
                      /\ p[y] = y <=> r[y] = y
      BY <1>0, RootFacts DEF Upward
<1> HIDE DEF r
<1>3. Upward(q, j)
  <2> SUFFICES ASSUME NEW t \in Term, q[t] # t PROVE j[t] < j[q[t]]
      BY <1>0, <1>1 DEF Upward
  <2>1. t # winner BY <1>0, <1>1
  <2>2. j[t] = k[t] BY <1>0, <2>1
  <2>3. CASE t = loser BY <1>0, <1>1, <2>2, <2>3
  <2>4. CASE t # loser
    <3>1. q[t] = p[t] /\ p[t] # t BY <1>1, <2>4
    <3>2. k[t] < k[p[t]] BY <1>0, <3>1 DEF Upward
    <3>3. CASE p[t] = winner
      <4>1. k[t] \in 0..MaxRank /\ k[winner] \in 0..MaxRank /\ j[winner] \in 0..MaxRank
            BY <1>0 DEF Upward
      <4>2. k[t] < j[winner] BY <1>0, <3>2, <3>3, <4>1, RankOrder
      <4> QED BY <2>2, <3>1, <3>3, <4>2
    <3>4. CASE p[t] # winner
      <4>1. j[p[t]] = k[p[t]] BY <1>0, <1>2, <3>4
      <4> QED BY <2>2, <3>1, <3>2, <4>1
    <3> QED BY <3>3, <3>4
  <2> QED BY <2>3, <2>4
<1>4. \A y \in Term : g[y] = IF q[y] = y THEN y ELSE g[q[y]]
  <2> SUFFICES ASSUME NEW y \in Term PROVE g[y] = IF q[y] = y THEN y ELSE g[q[y]]
      OBVIOUS
  <2>1. r[loser] = loser /\ r[winner] = winner BY <1>0, <1>2
  <2>2. CASE y = loser BY <1>0, <1>1, <2>1, <2>2
  <2>3. CASE y # loser
    <3>1. q[y] = p[y] /\ q[y] \in Term BY <1>1, <2>3
    <3>2. r[p[y]] = r[y] BY <1>2
    <3>3. CASE p[y] = y BY <1>2, <2>3, <3>1, <3>3
    <3>4. CASE p[y] # y BY <3>1, <3>2, <3>4
    <3> QED BY <3>3, <3>4
  <2> QED BY <2>2, <2>3
<1> HIDE DEF g
<1>5. \A y \in Term : Roots(q)[y] = g[y] BY <1>3, <1>4, RootsUnique
<1> QED BY <1>3, <1>5 DEF r, g

-----------------------------------------------------------------------------
(* Powers of two.                                                          *)
LEMMA Powers ==
    /\ PowerOfTwo[0] = 1
    /\ \A n \in 0..MaxRank : PowerOfTwo[n] \in Nat /\ PowerOfTwo[n + 1] = 2 * PowerOfTwo[n]
<1> DEFINE N == {n \in Nat : \E f : f = [i \in 0..n |-> IF i = 0 THEN 1 ELSE 2 * f[i - 1]]}
<1>1. 0 \in N
  <2> DEFINE f == [i \in 0..0 |-> 1]
  <2>1. f = [i \in 0..0 |-> IF i = 0 THEN 1 ELSE 2 * f[i - 1]] OBVIOUS
  <2> HIDE DEF f
  <2> QED BY <2>1
<1>2. ASSUME NEW n \in N PROVE n + 1 \in N
  <2>1. PICK f : f = [i \in 0..n |-> IF i = 0 THEN 1 ELSE 2 * f[i - 1]] OBVIOUS
  <2> DEFINE g == [i \in 0..(n + 1) |-> IF i = n + 1 THEN 2 * f[n] ELSE f[i]]
  <2>2. \A i \in 0..(n + 1) : g[i] = IF i = 0 THEN 1 ELSE 2 * g[i - 1]
    <3> SUFFICES ASSUME NEW i \in 0..(n + 1) PROVE g[i] = IF i = 0 THEN 1 ELSE 2 * g[i - 1]
        OBVIOUS
    <3>1. CASE i = 0 BY <3>1, <2>1
    <3>2. CASE i \in 1..n
      <4>1. i \in 0..n /\ i - 1 \in 0..n /\ i # 0 /\ i # n + 1 /\ i - 1 # n + 1 BY <3>2
      <4>2. f[i] = 2 * f[i - 1] BY <2>1, <4>1
      <4> QED BY <4>1, <4>2
    <3>3. CASE i = n + 1
      <4>1. i - 1 = n /\ n \in 0..(n + 1) /\ n # n + 1 /\ i # 0 BY <3>3
      <4> QED BY <3>3, <4>1
    <3> QED BY <3>1, <3>2, <3>3
  <2>3. g = [i \in 0..(n + 1) |-> IF i = 0 THEN 1 ELSE 2 * g[i - 1]] BY <2>2
  <2> HIDE DEF g
  <2>4. \E h : h = [i \in 0..(n + 1) |-> IF i = 0 THEN 1 ELSE 2 * h[i - 1]] BY <2>3
  <2>5. n + 1 \in Nat OBVIOUS
  <2> QED BY <2>4, <2>5
<1>3. N = Nat BY <1>1, <1>2, Induction
<1> DEFINE w == PowerOfTwo
<1>4. w = CHOOSE f : f = [i \in 0..(MaxRank + 1) |-> IF i = 0 THEN 1 ELSE 2 * f[i - 1]]
      BY DEF PowerOfTwo
<1> HIDE DEF w
<1>5. MaxRank + 1 \in N
  <2>1. MaxRank + 1 \in Nat BY DEF MaxRank
  <2> HIDE DEF N
  <2> QED BY <1>3, <2>1
<1>6. w = [i \in 0..(MaxRank + 1) |-> IF i = 0 THEN 1 ELSE 2 * w[i - 1]] BY <1>4, <1>5
<1>7. w[0] = 1 BY <1>6 DEF MaxRank
<1>8. \A n \in 0..MaxRank : w[n + 1] = 2 * w[n]
  <2> SUFFICES ASSUME NEW n \in 0..255 PROVE w[n + 1] = 2 * w[n] BY DEF MaxRank
  <2>1. n + 1 \in 0..(MaxRank + 1) /\ n + 1 # 0 /\ (n + 1) - 1 = n BY DEF MaxRank
  <2> QED BY <1>6, <2>1
<1> DEFINE T == {n \in Nat : n <= MaxRank => w[n] \in Nat}
<1>9. 0 \in T BY <1>7
<1>10. ASSUME NEW n \in T PROVE n + 1 \in T
  <2> SUFFICES ASSUME n + 1 <= MaxRank PROVE w[n + 1] \in Nat OBVIOUS
  <2>1. n \in 0..MaxRank /\ w[n] \in Nat BY DEF MaxRank
  <2> QED BY <1>8, <2>1
<1>11. T = Nat BY <1>9, <1>10, Induction
<1>12. \A n \in 0..MaxRank : w[n] \in Nat
  <2> SUFFICES ASSUME NEW n \in 0..MaxRank PROVE w[n] \in Nat OBVIOUS
  <2>1. n \in T BY <1>11 DEF MaxRank
  <2>2. n <= MaxRank BY DEF MaxRank
  <2> QED BY <2>1, <2>2
<1> QED BY <1>7, <1>8, <1>12 DEF w

-----------------------------------------------------------------------------
(* RankDiscipline, for any parents and ranks.                              *)
Class(p, r) == {t \in Term : Roots(p)[t] = r}

Sound(p, k) ==
    /\ Upward(p, k)
    /\ \A r \in Term : Roots(p)[r] = r => Cardinality(Class(p, r)) >= PowerOfTwo[k[r]]

Small == IsFiniteSet(Term) /\ Cardinality(Term) < PowerOfTwo[MaxRank + 1]

(* Classes are finite, and two of them have no term in common.             *)
LEMMA ClassSizes ==
    ASSUME Small, NEW p
    PROVE  /\ \A r : IsFiniteSet(Class(p, r)) /\ Cardinality(Class(p, r)) \in Nat
           /\ \A r, s : r # s =>
                  /\ Cardinality(Class(p, r) \cup Class(p, s)) =
                         Cardinality(Class(p, r)) + Cardinality(Class(p, s))
                  /\ Cardinality(Class(p, r) \cup Class(p, s)) <= Cardinality(Term)
           /\ Cardinality(Term) \in Nat
<1>1. ASSUME NEW r PROVE IsFiniteSet(Class(p, r)) /\ Cardinality(Class(p, r)) \in Nat
  <2>1. Class(p, r) \subseteq Term BY DEF Class
  <2> QED BY <2>1, FS_Subset, FS_CardinalityType DEF Small
<1>2. ASSUME NEW r, NEW s, r # s
      PROVE  /\ Cardinality(Class(p, r) \cup Class(p, s)) =
                    Cardinality(Class(p, r)) + Cardinality(Class(p, s))
             /\ Cardinality(Class(p, r) \cup Class(p, s)) <= Cardinality(Term)
  <2> DEFINE A == Class(p, r)
             B == Class(p, s)
  <2>1. A \cap B = {} /\ A \cup B \subseteq Term BY <1>2 DEF Class
  <2>2. /\ IsFiniteSet(A) /\ IsFiniteSet(B)
        /\ Cardinality(A) \in Nat /\ Cardinality(B) \in Nat
        BY <1>1
  <2> HIDE DEF A, B
  <2>3. Cardinality(A \cup B) = Cardinality(A) + Cardinality(B) - Cardinality(A \cap B)
        BY <2>2, FS_Union
  <2>4. Cardinality(A \cap B) = 0 BY <2>1, FS_EmptySet
  <2>5. Cardinality(A \cup B) <= Cardinality(Term) BY <2>1, FS_Subset DEF Small
  <2> QED BY <2>2, <2>3, <2>4, <2>5 DEF A, B
<1> QED BY <1>1, <1>2, FS_CardinalityType DEF Small

(* A find keeps the discipline and every root.                             *)
LEMMA CompressSound ==
    ASSUME NEW p, NEW k, Sound(p, k), NEW x \in Term
    PROVE  /\ Sound(Compress(p, x), k)
           /\ \A y \in Term : Roots(Compress(p, x))[y] = Roots(p)[y]
<1>1. /\ Upward(Compress(p, x), k)
      /\ \A y \in Term : Roots(Compress(p, x))[y] = Roots(p)[y]
      BY CompressFacts DEF Sound
<1>2. \A r : Class(Compress(p, x), r) = Class(p, r) BY <1>1 DEF Class
<1> QED BY <1>1, <1>2 DEF Sound

Linked(p, winner, loser) == [p EXCEPT ![loser] = winner]

Raised(k, winner, loser) ==
    IF k[winner] = k[loser] THEN [k EXCEPT ![winner] = SaturatingSucc(k[winner])] ELSE k

(* The root that gains a rank has a class that has doubled, and so has not *)
(* reached the largest rank.                                               *)
LEMMA LinkSound ==
    ASSUME Small, NEW p, NEW k, Sound(p, k), NEW winner \in Term, NEW loser \in Term,
           winner # loser, Roots(p)[winner] = winner, Roots(p)[loser] = loser,
           k[loser] <= k[winner]
    PROVE  /\ Sound(Linked(p, winner, loser), Raised(k, winner, loser))
           /\ \A y \in Term : Roots(Linked(p, winner, loser))[y] =
                  IF Roots(p)[y] = loser THEN winner ELSE Roots(p)[y]
<1> DEFINE q == [p EXCEPT ![loser] = winner]
           j == IF k[winner] = k[loser]
                THEN [k EXCEPT ![winner] = SaturatingSucc(k[winner])] ELSE k
           A == Class(p, winner)
           B == Class(p, loser)
           n == k[winner]
<1>1. Upward(p, k) /\ k \in [Term -> 0..MaxRank] /\ n \in 0..255 /\ k[loser] \in 0..255
      BY DEF Sound, Upward, MaxRank
<1>2. p[winner] = winner /\ p[loser] = loser BY <1>1, RootFacts
<1>3. Cardinality(A) >= PowerOfTwo[n] /\ Cardinality(B) >= PowerOfTwo[k[loser]]
      BY DEF Sound
<1>4. /\ Cardinality(A) \in Nat /\ Cardinality(B) \in Nat /\ Cardinality(Term) \in Nat
      /\ Cardinality(A \cup B) = Cardinality(A) + Cardinality(B)
      /\ Cardinality(A \cup B) <= Cardinality(Term)
      BY ClassSizes
<1>5. /\ PowerOfTwo[n] \in Nat /\ PowerOfTwo[k[loser]] \in Nat
      /\ PowerOfTwo[n + 1] = 2 * PowerOfTwo[n]
      BY <1>1, Powers DEF MaxRank
<1>6. n = k[loser] => PowerOfTwo[n + 1] <= Cardinality(A \cup B) /\ n < 255
  <2> SUFFICES ASSUME n = k[loser]
               PROVE  PowerOfTwo[n + 1] <= Cardinality(A \cup B) /\ n < 255
      OBVIOUS
  <2>1. PowerOfTwo[n + 1] <= Cardinality(A \cup B) BY <1>3, <1>4, <1>5
  <2>2. PowerOfTwo[n + 1] < PowerOfTwo[256]
    <3>1. Cardinality(Term) < PowerOfTwo[256] BY DEF Small, MaxRank
    <3>2. PowerOfTwo[256] \in Nat
      <4>1. PowerOfTwo[255] \in Nat /\ PowerOfTwo[255 + 1] = 2 * PowerOfTwo[255]
            BY Powers DEF MaxRank
      <4> QED BY <4>1
    <3>3. PowerOfTwo[n + 1] \in Nat BY <1>5
    <3> QED BY <1>4, <2>1, <3>1, <3>2, <3>3
  <2>3. n # 255
    <3> SUFFICES ASSUME n = 255 PROVE FALSE OBVIOUS
    <3>1. n + 1 = 256 OBVIOUS
    <3>2. PowerOfTwo[n + 1] \in Nat BY <1>5
    <3> QED BY <2>2, <3>1, <3>2
  <2> QED BY <1>1, <2>1, <2>3
<1> HIDE DEF q, A, B, n
<1>7. /\ j \in [Term -> 0..MaxRank]
      /\ \A t \in Term : t # winner => j[t] = k[t]
      /\ j[winner] = IF n = k[loser] THEN n + 1 ELSE n
  <2>1. n = k[loser] => SaturatingSucc(n) = n + 1 /\ n + 1 \in 0..MaxRank
        BY <1>1, <1>6 DEF SaturatingSucc, MaxRank
  <2> QED BY <1>1, <2>1 DEF n
<1> HIDE DEF j
<1>8. k[winner] <= j[winner] /\ k[loser] < j[winner] BY <1>1, <1>7 DEF n
<1>9. /\ Upward(q, j)
      /\ \A y \in Term : Roots(q)[y] = IF Roots(p)[y] = loser THEN winner ELSE Roots(p)[y]
  <2>1. Upward(p, k) /\ j \in [Term -> 0..MaxRank] BY <1>1, <1>7
  <2>2. \A t \in Term : t # winner => j[t] = k[t] BY <1>7
  <2>3. q \in [Term -> Term] /\ \A y \in Term : q[y] = IF y = loser THEN winner ELSE p[y]
        BY <1>1 DEF q, Upward
  <2>4. Links(p, k, winner, loser, q, j) BY <1>2, <1>8, <2>1, <2>2, <2>3 DEF Links
  <2> QED BY <2>4, LinkFacts
<1>10. ASSUME NEW r \in Term, Roots(q)[r] = r
       PROVE  Cardinality(Class(q, r)) >= PowerOfTwo[j[r]]
  <2>1. r # loser BY <1>9, <1>10
  <2>2. CASE r = winner
    <3>1. Class(q, r) = A \cup B BY <1>9, <2>2 DEF Class, A, B
    <3>2. CASE n = k[loser]
      <4>1. j[r] = n + 1 BY <1>7, <2>2, <3>2
      <4>2. PowerOfTwo[n + 1] <= Cardinality(A \cup B) BY <1>6, <3>2
      <4>3. PowerOfTwo[n + 1] \in Nat /\ Cardinality(A \cup B) \in Nat BY <1>4, <1>5
      <4> QED BY <3>1, <4>1, <4>2, <4>3
    <3>3. CASE n # k[loser] BY <1>3, <1>4, <1>5, <1>7, <2>2, <3>1, <3>3
    <3> QED BY <3>2, <3>3
  <2>3. CASE r # winner
    <3>1. Class(q, r) = Class(p, r) BY <1>9, <2>1, <2>3 DEF Class
    <3>2. Roots(p)[r] = r /\ j[r] = k[r] BY <1>7, <1>9, <1>10, <2>3
    <3> QED BY <3>1, <3>2 DEF Sound
  <2> QED BY <2>2, <2>3
<1>11. Sound(q, j) BY <1>9, <1>10 DEF Sound
<1> QED BY <1>9, <1>11 DEF q, j, Linked, Raised

-----------------------------------------------------------------------------
(* What the runs check is Sound of the state's parents and ranks.          *)
LEMMA DisciplineIsSound == RankDiscipline <=> Sound(parent, rank)
<1>1. TypeOK /\ RanksGrowUpward <=> Upward(parent, rank)
      BY DEF TypeOK, RanksGrowUpward, Upward
<1>2. ASSUME Upward(parent, rank)
      PROVE  ClassesOutgrowRanks <=> \A r \in Term : Roots(parent)[r] = r =>
                 Cardinality(Class(parent, r)) >= PowerOfTwo[rank[r]]
  <2>1. \A r \in Term : parent[r] = r <=> Roots(parent)[r] = r BY <1>2, RootFacts
  <2>2. \A r \in Term : {t \in Term : Root[t] = r} = Class(parent, r)
        BY DEF Class, Root, RootConst
  <2> QED BY <2>1, <2>2 DEF ClassesOutgrowRanks
<1> QED BY <1>1, <1>2 DEF RankDiscipline, Sound

(* The same for the next state.                                            *)
LEMMA DisciplineIsSoundNext == RankDiscipline' <=> Sound(parent', rank')
<1>1. (TypeOK /\ RanksGrowUpward)' <=> Upward(parent', rank')
      BY DEF TypeOK, RanksGrowUpward, Upward
<1>2. ASSUME Upward(parent', rank')
      PROVE  ClassesOutgrowRanks' <=> \A r \in Term : Roots(parent')[r] = r =>
                 Cardinality(Class(parent', r)) >= PowerOfTwo[rank'[r]]
  <2>1. \A r \in Term : parent'[r] = r <=> Roots(parent')[r] = r BY <1>2, RootFacts
  <2>2. \A r \in Term : {t \in Term : Root[t] = r}' = Class(parent', r)
        BY DEF Class, Root, RootConst
  <2> QED BY <2>1, <2>2 DEF ClassesOutgrowRanks
<1> QED BY <1>1, <1>2 DEF RankDiscipline, Sound

(* At the start every term is its own root, alone in its class.            *)
LEMMA StartSound == ASSUME Small, Init PROVE RankDiscipline
<1>1. /\ parent \in [Term -> Term] /\ rank \in [Term -> 0..MaxRank]
      /\ \A t \in Term : parent[t] = t /\ rank[t] = 0
      BY DEF Init, MaxRank
<1>2. Upward(parent, rank) BY <1>1 DEF Upward
<1>3. \A t \in Term : Roots(parent)[t] = t BY <1>1, <1>2, RootFacts
<1>4. ASSUME NEW r \in Term PROVE Cardinality(Class(parent, r)) >= PowerOfTwo[rank[r]]
  <2>1. Class(parent, r) = {r} BY <1>3 DEF Class
  <2>2. Cardinality({r}) = 1 BY FS_Singleton
  <2>3. PowerOfTwo[rank[r]] = 1 BY <1>1, Powers
  <2> QED BY <2>1, <2>2, <2>3
<1> QED BY <1>2, <1>4, DisciplineIsSound DEF Sound

(* Seen through the roots, a find is a stutter and a union a join.         *)
LEMMA FindStep ==
    ASSUME RankDiscipline, NEW x \in Term, Find(x)
    PROVE  RankDiscipline' /\ Root' = Root
<1>1. parent' = Compress(parent, x) /\ rank' = rank BY DEF Find
<1>2. Sound(parent, rank) BY DisciplineIsSound
<1>3. /\ Sound(parent', rank')
      /\ \A y \in Term : Roots(parent')[y] = Roots(parent)[y]
      BY <1>1, <1>2, CompressSound
<1>4. Root' = Root BY <1>3 DEF Root, RootConst
<1> QED BY <1>3, <1>4, DisciplineIsSoundNext

(* A union compresses two paths, which nobody sees, and links the roots.   *)
LEMMA UnionStep ==
    ASSUME Small, RankDiscipline, NEW a \in Term, NEW b \in Term, Union(a, b)
    PROVE  RankDiscipline' /\ (Root' = Root \/ P!Join(a, b))
<1> DEFINE p == Compress(Compress(parent, a), b)
           ra == RootConst(parent, a)
           rb == RootConst(parent, b)
           winner == IF rank[ra] < rank[rb] THEN rb ELSE ra
           loser == IF winner = ra THEN rb ELSE ra
<1>1. Sound(parent, rank) BY DisciplineIsSound
<1>2. /\ Sound(Compress(parent, a), rank)
      /\ \A y \in Term : Roots(Compress(parent, a))[y] = Roots(parent)[y]
      BY <1>1, CompressSound
<1>3. Sound(p, rank) /\ \A y \in Term : Roots(p)[y] = Roots(Compress(parent, a))[y]
      BY <1>2, CompressSound
<1>4. \A y \in Term : Roots(p)[y] = Roots(parent)[y] BY <1>2, <1>3
<1>5. /\ ra \in Term /\ rb \in Term
      /\ Roots(parent)[ra] = ra /\ Roots(parent)[rb] = rb
  <2>1. Upward(parent, rank) BY <1>1 DEF Sound
  <2> QED BY <2>1, RootFacts DEF RootConst
<1>6. \A t \in Term : Root[t] = Roots(parent)[t] /\ Root'[t] = Roots(parent')[t]
      BY DEF Root, RootConst
<1>7. CASE ra = rb
  <2>1. parent' = p /\ rank' = rank BY <1>7 DEF Union
  <2>2. Sound(parent', rank') BY <1>3, <2>1
  <2>3. \A y \in Term : Roots(parent')[y] = Roots(parent)[y] BY <1>4, <2>1
  <2>4. Root' = Root BY <2>3 DEF Root, RootConst
  <2> QED BY <2>2, <2>4, DisciplineIsSoundNext
<1>8. CASE ra # rb
  <2>1. /\ winner \in Term /\ loser \in Term /\ winner # loser
        /\ {winner, loser} = {ra, rb}
        BY <1>5, <1>8
  <2>2. rank[loser] <= rank[winner]
    <3>1. rank[ra] \in 0..255 /\ rank[rb] \in 0..255
          BY <1>1, <1>5 DEF Sound, Upward, MaxRank
    <3>2. CASE rank[ra] < rank[rb]
      <4>1. winner = rb /\ loser = ra BY <1>8, <3>2
      <4>2. \A m, n \in 0..255 : m < n => m <= n OBVIOUS
      <4>3. rank[ra] <= rank[rb] BY <3>1, <3>2, <4>2
      <4> HIDE DEF winner, loser
      <4> QED BY <4>1, <4>3
    <3>3. CASE ~(rank[ra] < rank[rb])
      <4>1. winner = ra /\ loser = rb BY <3>3
      <4>2. \A m, n \in 0..255 : ~(m < n) => n <= m OBVIOUS
      <4>3. rank[rb] <= rank[ra] BY <3>1, <3>3, <4>2
      <4> HIDE DEF winner, loser
      <4> QED BY <4>1, <4>3
    <3> QED BY <3>2, <3>3
  <2>3. /\ parent' = [p EXCEPT ![loser] = winner]
        /\ rank' = IF rank[winner] = rank[loser]
                   THEN [rank EXCEPT ![winner] = SaturatingSucc(rank[winner])]
                   ELSE rank
        BY <1>8 DEF Union
  <2>9. parent' = Linked(p, winner, loser) /\ rank' = Raised(rank, winner, loser)
        BY <2>3 DEF Linked, Raised
  <2>4. Roots(p)[winner] = winner /\ Roots(p)[loser] = loser BY <1>4, <1>5, <2>1
  <2> HIDE DEF p, winner, loser
  <2>5. /\ Sound(parent', rank')
        /\ \A y \in Term : Roots(parent')[y] =
               IF Roots(p)[y] = loser THEN winner ELSE Roots(p)[y]
        BY <1>3, <2>1, <2>2, <2>4, <2>9, LinkSound
  <2>6. Root' = [t \in Term |-> IF Root[t] = loser THEN winner ELSE Root[t]]
        BY <1>4, <1>6, <2>5 DEF Root, RootConst
  <2>7. Root[a] = ra /\ Root[b] = rb BY <1>6 DEF RootConst
  <2>8. P!Join(a, b)
        BY <1>8, <2>1, <2>6, <2>7 DEF P!Join, P!Same, P!Absorb
  <2> QED BY <2>5, <2>8, DisciplineIsSoundNext
<1> QED BY <1>7, <1>8

(* A step of another component changes nothing.                            *)
LEMMA StutterStep ==
    ASSUME RankDiscipline, UNCHANGED vars
    PROVE  RankDiscipline' /\ Root' = Root
<1>1. parent' = parent /\ rank' = rank BY DEF vars
<1>2. Sound(parent', rank') BY <1>1, DisciplineIsSound
<1>3. Root' = Root BY <1>1 DEF Root, RootConst
<1> QED BY <1>2, <1>3, DisciplineIsSoundNext

(* Every step keeps the discipline, and is a stutter or a join.            *)
LEMMA Step ==
    ASSUME Small, RankDiscipline, [Next]_vars
    PROVE  /\ RankDiscipline'
           /\ Root' = Root \/ \E a, b \in Term : P!Join(a, b)
<1>1. ASSUME NEW x \in Term, Find(x)
      PROVE  RankDiscipline' /\ Root' = Root
      BY <1>1, FindStep
<1>2. ASSUME NEW a \in Term, NEW b \in Term, Union(a, b)
      PROVE  /\ RankDiscipline'
             /\ Root' = Root \/ \E c, d \in Term : P!Join(c, d)
      BY <1>2, UnionStep
<1>3. CASE UNCHANGED vars BY <1>3, StutterStep
<1> QED BY <1>1, <1>2, <1>3 DEF Next

(* No chain of finds and unions makes a cycle of parents, a rank that does *)
(* not grow on the way up, or a rank so large that the u8 addition of      *)
(* union saturates, however many terms below 2^256 there are.              *)
THEOREM RanksAreSound == ASSUME Small PROVE Spec => []RankDiscipline
<1>1. Init => RankDiscipline BY StartSound
<1>2. RankDiscipline /\ [Next]_vars => RankDiscipline' BY Step
<1> QED BY <1>1, <1>2, PTL DEF Spec

(* Seen through root_const, the arrays are a partition that only unions    *)
(* coarsen: find's path compression is invisible to every caller.          *)
THEOREM ArraysImplementPartition == ASSUME Small PROVE Spec => ImplementsPartition
<1>1. Init => P!Singletons
  <2> SUFFICES ASSUME Init PROVE P!Singletons OBVIOUS
  <2>1. /\ parent \in [Term -> Term] /\ rank \in [Term -> 0..MaxRank]
        /\ \A t \in Term : parent[t] = t
        BY DEF Init, MaxRank
  <2>2. Upward(parent, rank) BY <2>1 DEF Upward
  <2>3. \A t \in Term : Roots(parent)[t] = t BY <2>1, <2>2, RootFacts
  <2> QED BY <2>3 DEF P!Singletons, Root, RootConst
<1>2. RankDiscipline /\ [Next]_vars => [\E a, b \in Term : P!Join(a, b)]_Root
      BY Step
<1> QED BY <1>1, <1>2, RanksAreSound, PTL DEF Spec, ImplementsPartition, P!PartitionSpec
=============================================================================
