------------------------ MODULE LockedCampaignProofs ------------------------
(***************************************************************************)
(* Theorems about LockedCampaign, for any number of runners, jobs and      *)
(* artifacts, and for any number of stops, power losses and replacements.  *)
(*                                                                         *)
(* First what collecting the records of a journal yields, by induction on  *)
(* their number; then what _load accepts; then the inductive invariant,    *)
(* action by action.                                                       *)
(***************************************************************************)
EXTENDS LockedCampaign, SequenceTheorems, NumberInduction, TLAPS

-----------------------------------------------------------------------------
(* What one step of the collection does.                                   *)
Collects(f, kind, records, n) ==
    IF n = 0 THEN << >>
    ELSE IF records[n].kind = kind THEN Append(f[n - 1], records[n]) ELSE f[n - 1]

(* The function that Collected chooses exists, for journals of any length. *)
LEMMA CollectedExists ==
    ASSUME NEW kind, NEW records
    PROVE  \A n \in Nat : \E f : f = [i \in 0..n |-> Collects(f, kind, records, i)]
<1> DEFINE P == {n \in Nat : \E f : f = [i \in 0..n |-> Collects(f, kind, records, i)]}
<1>1. 0 \in P
  <2> DEFINE f == [i \in 0..0 |-> << >>]
  <2>1. f = [i \in 0..0 |-> Collects(f, kind, records, i)] BY DEF Collects
  <2> QED BY <2>1
<1>2. ASSUME NEW n \in P PROVE n + 1 \in P
  <2>1. PICK f : f = [i \in 0..n |-> Collects(f, kind, records, i)] OBVIOUS
  <2> DEFINE g == [i \in 0..(n + 1) |->
                      IF i = n + 1 THEN Collects(f, kind, records, i) ELSE f[i]]
  <2>2. \A i \in 0..(n + 1) : g[i] = Collects(g, kind, records, i)
    <3> SUFFICES ASSUME NEW i \in 0..(n + 1) PROVE g[i] = Collects(g, kind, records, i)
        OBVIOUS
    <3>1. CASE i = 0 BY <3>1, <2>1 DEF Collects
    <3>2. CASE i > 0
      <4>1. i - 1 \in 0..n /\ g[i - 1] = f[i - 1] BY <3>2
      <4>2. g[i] = Collects(f, kind, records, i) BY <2>1
      <4> QED BY <3>2, <4>1, <4>2 DEF Collects
    <3> QED BY <3>1, <3>2
  <2>3. g = [i \in 0..(n + 1) |-> Collects(g, kind, records, i)] BY <2>2
  <2> HIDE DEF g
  <2>4. \E h : h = [i \in 0..(n + 1) |-> Collects(h, kind, records, i)] BY <2>3
  <2>5. n + 1 \in Nat OBVIOUS
  <2> QED BY <2>4, <2>5
<1>3. P = Nat BY <1>1, <1>2, Induction
<1> QED BY <1>3

(* So Collected is what its recursion says.                                *)
LEMMA CollectedStep ==
    ASSUME NEW kind, NEW records, Len(records) \in Nat
    PROVE  /\ Collected(kind, records) = [i \in 0..Len(records) |->
                  Collects(Collected(kind, records), kind, records, i)]
           /\ Collected(kind, records)[0] = << >>
           /\ \A i \in 1..Len(records) : Collected(kind, records)[i] =
                  IF records[i].kind = kind
                  THEN Append(Collected(kind, records)[i - 1], records[i])
                  ELSE Collected(kind, records)[i - 1]
<1>0. PICK n \in Nat : n = Len(records) OBVIOUS
<1> DEFINE c == Collected(kind, records)
<1>1. \E f : f = [i \in 0..n |-> Collects(f, kind, records, i)]
      BY CollectedExists
<1>2. c = CHOOSE f : f = [i \in 0..n |-> Collects(f, kind, records, i)]
      BY <1>0 DEF Collected, Collects
<1>3. c = [i \in 0..n |-> Collects(c, kind, records, i)]
      BY <1>1, <1>2
<1> HIDE DEF c
<1>4. c[0] = << >> BY <1>3 DEF Collects
<1>5. \A i \in 1..n : c[i] =
          IF records[i].kind = kind THEN Append(c[i - 1], records[i]) ELSE c[i - 1]
  <2> SUFFICES ASSUME NEW i \in 1..n
               PROVE  c[i] = IF records[i].kind = kind
                             THEN Append(c[i - 1], records[i]) ELSE c[i - 1]
      OBVIOUS
  <2>1. i \in 0..n /\ i # 0 OBVIOUS
  <2>2. c[i] = Collects(c, kind, records, i) BY <1>3, <2>1
  <2> QED BY <2>1, <2>2 DEF Collects
<1> QED BY <1>0, <1>3, <1>4, <1>5 DEF c

(* Journals that agree up to a record collect the same up to it.           *)
LEMMA CollectedAgrees ==
    ASSUME NEW kind, NEW s, NEW t, NEW k \in Nat,
           Len(s) \in Nat, Len(t) \in Nat, k <= Len(s), k <= Len(t),
           \A i \in 1..k : s[i] = t[i]
    PROVE  \A i \in 0..k : Collected(kind, s)[i] = Collected(kind, t)[i]
<1> DEFINE c == Collected(kind, s)
           d == Collected(kind, t)
           P == {n \in Nat : n <= k => c[n] = d[n]}
<1>1. /\ c[0] = << >>
      /\ \A i \in 1..Len(s) : c[i] = IF s[i].kind = kind
                                     THEN Append(c[i - 1], s[i]) ELSE c[i - 1]
      BY CollectedStep
<1>2. /\ d[0] = << >>
      /\ \A i \in 1..Len(t) : d[i] = IF t[i].kind = kind
                                     THEN Append(d[i - 1], t[i]) ELSE d[i - 1]
      BY CollectedStep
<1> HIDE DEF c, d
<1>3. 0 \in P BY <1>1, <1>2
<1>4. ASSUME NEW n \in P PROVE n + 1 \in P
  <2> SUFFICES ASSUME n + 1 <= k PROVE c[n + 1] = d[n + 1] OBVIOUS
  <2>1. n + 1 \in 1..Len(s) /\ n + 1 \in 1..Len(t) /\ n + 1 \in 1..k OBVIOUS
  <2>2. c[n] = d[n] /\ (n + 1) - 1 = n OBVIOUS
  <2> QED BY <1>1, <1>2, <2>1, <2>2
<1>5. P = Nat BY <1>3, <1>4, Induction
<1> QED BY <1>5 DEF c, d

(* What is collected are records.                                          *)
LEMMA CollectedType ==
    ASSUME NEW kind, NEW s \in Seq(Record)
    PROVE  \A i \in 0..Len(s) : Collected(kind, s)[i] \in Seq(Record)
<1> DEFINE c == Collected(kind, s)
           P == {n \in Nat : n <= Len(s) => c[n] \in Seq(Record)}
<1>1. /\ c[0] = << >>
      /\ \A i \in 1..Len(s) : c[i] = IF s[i].kind = kind
                                     THEN Append(c[i - 1], s[i]) ELSE c[i - 1]
      BY CollectedStep
<1> HIDE DEF c
<1>2. 0 \in P BY <1>1, EmptySeq
<1>3. ASSUME NEW n \in P PROVE n + 1 \in P
  <2> SUFFICES ASSUME n + 1 <= Len(s) PROVE c[n + 1] \in Seq(Record) OBVIOUS
  <2>1. n + 1 \in 1..Len(s) /\ s[n + 1] \in Record /\ c[n] \in Seq(Record)
        /\ (n + 1) - 1 = n
        BY ElementOfSeq
  <2>2. Append(c[n], s[n + 1]) \in Seq(Record) BY <2>1, AppendProperties
  <2>3. c[n + 1] \in {c[n], Append(c[n], s[n + 1])} BY <1>1, <2>1
  <2> QED BY <2>1, <2>2, <2>3
<1>4. P = Nat BY <1>2, <1>3, Induction
<1> QED BY <1>4 DEF c

(* A prefix is a shorter sequence with the same elements.                  *)
LEMMA PrefixIsAgreement ==
    ASSUME NEW S, NEW s \in Seq(S), NEW t \in Seq(S)
    PROVE  IsPrefix(s, t) <=> Len(s) <= Len(t) /\ \A i \in 1..Len(s) : s[i] = t[i]
<1>1. ASSUME Len(s) <= Len(t)
      PROVE  /\ SubSeq(s, 1, Len(s)) = s
             /\ SubSeq(t, 1, Len(s)) \in Seq(S)
             /\ Len(SubSeq(t, 1, Len(s))) = Len(s)
             /\ \A i \in 1..Len(s) : SubSeq(t, 1, Len(s))[i] = t[i]
      BY <1>1
<1> QED BY <1>1, SeqEqual DEF IsPrefix

(* What the first records give is a prefix of what all of them give.       *)
LEMMA CollectedGrows ==
    ASSUME NEW kind, NEW s \in Seq(Record), NEW i \in 0..Len(s)
    PROVE  IsPrefix(Collected(kind, s)[i], Collected(kind, s)[Len(s)])
<1> DEFINE c == Collected(kind, s)
           P == {n \in Nat : i + n <= Len(s) =>
                    /\ Len(c[i]) <= Len(c[i + n])
                    /\ \A k \in 1..Len(c[i]) : c[i][k] = c[i + n][k]}
<1>1. \A k \in 1..Len(s) : c[k] = IF s[k].kind = kind
                                 THEN Append(c[k - 1], s[k]) ELSE c[k - 1]
      BY CollectedStep
<1>2. \A k \in 0..Len(s) : c[k] \in Seq(Record) BY CollectedType
<1> HIDE DEF c
<1>3. 0 \in P BY <1>2
<1>4. ASSUME NEW n \in P PROVE n + 1 \in P
  <2> SUFFICES ASSUME i + (n + 1) <= Len(s)
               PROVE  /\ Len(c[i]) <= Len(c[i + (n + 1)])
                      /\ \A k \in 1..Len(c[i]) : c[i][k] = c[i + (n + 1)][k]
      OBVIOUS
  <2> DEFINE m == i + (n + 1)
  <2>1. m \in 1..Len(s) /\ m - 1 = i + n /\ m - 1 \in 0..Len(s) OBVIOUS
  <2>2. s[m] \in Record BY <2>1, ElementOfSeq
  <2>3. c[m] \in {c[m - 1], Append(c[m - 1], s[m])} BY <1>1, <2>1
  <2>4. /\ Len(c[i]) <= Len(c[m - 1])
        /\ \A k \in 1..Len(c[i]) : c[i][k] = c[m - 1][k]
        BY <2>1
  <2>5. c[i] \in Seq(Record) /\ c[m - 1] \in Seq(Record) BY <1>2, <2>1
  <2> HIDE DEF m
  <2>6. /\ Len(c[m - 1]) <= Len(c[m])
        /\ \A k \in 1..Len(c[m - 1]) : c[m - 1][k] = c[m][k]
        BY <2>2, <2>3, <2>5
  <2>7. /\ Len(c[i]) <= Len(c[m])
        /\ \A k \in 1..Len(c[i]) : c[i][k] = c[m][k]
        BY <2>3, <2>4, <2>5, <2>6, <2>2
  <2> QED BY <2>7 DEF m
<1>5. P = Nat BY <1>3, <1>4, Induction
<1>6. /\ Len(c[i]) <= Len(c[Len(s)])
      /\ \A k \in 1..Len(c[i]) : c[i][k] = c[Len(s)][k]
  <2> DEFINE m == Len(s) - i
  <2>1. m \in Nat /\ i + m = Len(s) /\ i + m <= Len(s) BY LenProperties
  <2> HIDE DEF m
  <2>2. m \in P BY <1>5, <2>1
  <2> QED BY <2>1, <2>2
<1>7. c[i] \in Seq(Record) /\ c[Len(s)] \in Seq(Record) BY <1>2
<1>8. IsPrefix(c[i], c[Len(s)]) BY <1>6, <1>7, PrefixIsAgreement
<1> QED BY <1>8 DEF c

-----------------------------------------------------------------------------
(* All records of a kind: Runs and Invocations.                            *)
Of(kind, records) == Collected(kind, records)[Len(records)]

(* All records of a kind are a sequence of records.                        *)
LEMMA OfType ==
    ASSUME NEW kind, NEW s \in Seq(Record)
    PROVE  Of(kind, s) \in Seq(Record) /\ Len(Of(kind, s)) \in Nat
<1>1. Len(s) \in 0..Len(s) BY LenProperties
<1>2. Of(kind, s) \in Seq(Record) BY <1>1, CollectedType DEF Of
<1> QED BY <1>2, LenProperties

(* An empty journal holds none.                                            *)
LEMMA OfEmpty ==
    ASSUME NEW kind
    PROVE  Of(kind, << >>) = << >>
<1>1. Len(<< >>) = 0 OBVIOUS
<1>2. Collected(kind, << >>)[0] = << >> BY <1>1, CollectedStep
<1> QED BY <1>1, <1>2 DEF Of

(* An append leaves the records before it, and what they collect.          *)
LEMMA AppendAgrees ==
    ASSUME NEW s \in Seq(Record), NEW e \in Record
    PROVE  /\ Append(s, e) \in Seq(Record)
           /\ Len(s) \in Nat /\ Len(Append(s, e)) = Len(s) + 1
           /\ \A i \in 1..Len(s) : Append(s, e)[i] = s[i]
           /\ Append(s, e)[Len(s) + 1] = e
           /\ \A kind : \A i \in 0..Len(s) :
                  Collected(kind, Append(s, e))[i] = Collected(kind, s)[i]
<1> DEFINE t == Append(s, e)
<1>1. /\ t \in Seq(Record)
      /\ Len(s) \in Nat /\ Len(t) = Len(s) + 1
      /\ \A i \in 1..Len(s) : t[i] = s[i]
      /\ t[Len(s) + 1] = e
      BY AppendProperties, LenProperties
<1> HIDE DEF t
<1>2. ASSUME NEW kind
      PROVE  \A i \in 0..Len(s) : Collected(kind, t)[i] = Collected(kind, s)[i]
  <2>1. Len(t) \in Nat /\ Len(s) <= Len(t) /\ Len(s) <= Len(s) BY <1>1
  <2> QED BY <1>1, <2>1, CollectedAgrees
<1> QED BY <1>1, <1>2 DEF t

(* A record is added to those of its kind.                                 *)
LEMMA OfAppend ==
    ASSUME NEW kind, NEW s \in Seq(Record), NEW e \in Record
    PROVE  Of(kind, Append(s, e)) =
               IF e.kind = kind THEN Append(Of(kind, s), e) ELSE Of(kind, s)
<1> DEFINE t == Append(s, e)
           n == Len(s)
<1>1. /\ n \in Nat /\ Len(t) = n + 1 /\ t[n + 1] = e
      /\ Collected(kind, t)[n] = Collected(kind, s)[n]
      BY AppendAgrees
<1> HIDE DEF t, n
<1>2. Len(t) \in Nat /\ n + 1 \in 1..Len(t) /\ (n + 1) - 1 = n BY <1>1
<1>3. Collected(kind, t)[n + 1] =
          IF t[n + 1].kind = kind
          THEN Append(Collected(kind, t)[(n + 1) - 1], t[n + 1])
          ELSE Collected(kind, t)[(n + 1) - 1]
      BY <1>2, CollectedStep
<1>4. Collected(kind, t)[Len(t)] =
          IF e.kind = kind THEN Append(Collected(kind, s)[n], e) ELSE Collected(kind, s)[n]
      BY <1>1, <1>2, <1>3
<1> QED BY <1>4 DEF Of, t, n

(* A truncated journal is the journal up to its end.                       *)
LEMMA PrefixAgrees ==
    ASSUME NEW s \in Seq(Record), NEW k \in 0..Len(s)
    PROVE  LET p == SubSeq(s, 1, k)
           IN  /\ p \in Seq(Record) /\ Len(p) = k /\ k \in Nat /\ Len(s) \in Nat
               /\ \A i \in 1..k : p[i] = s[i]
               /\ \A kind : \A i \in 0..k : Collected(kind, p)[i] = Collected(kind, s)[i]
<1> DEFINE p == SubSeq(s, 1, k)
<1>1. /\ p \in Seq(Record) /\ Len(p) = k /\ k \in Nat /\ Len(s) \in Nat
      /\ \A i \in 1..k : p[i] = s[i]
  <2>1. k \in Nat /\ Len(s) \in Nat /\ k <= Len(s) BY LenProperties
  <2> QED BY <2>1
<1> HIDE DEF p
<1>2. ASSUME NEW kind
      PROVE  \A i \in 0..k : Collected(kind, p)[i] = Collected(kind, s)[i]
  <2>1. Len(p) \in Nat /\ k <= Len(p) /\ k <= Len(s) BY <1>1
  <2> QED BY <1>1, <2>1, CollectedAgrees
<1> QED BY <1>1, <1>2 DEF p

(* A truncated journal holds a prefix of the records of a kind.            *)
LEMMA OfPrefix ==
    ASSUME NEW kind, NEW s \in Seq(Record), NEW k \in 0..Len(s)
    PROVE  IsPrefix(Of(kind, SubSeq(s, 1, k)), Of(kind, s))
<1>1. Of(kind, SubSeq(s, 1, k)) = Collected(kind, s)[k] BY PrefixAgrees DEF Of
<1> QED BY <1>1, CollectedGrows DEF Of

-----------------------------------------------------------------------------
(* What _load asks of one record after those before it.                    *)
Fits(s, e) ==
    /\ e.previous = Len(s)
    /\ e.kind = "invocation" => e.invocation = Len(Of("invocation", s))
    /\ e.kind = "run" =>
           /\ e.sequence = Len(Of("run", s))
           /\ e.sequence < JobCount
           /\ e.invocation < Len(Of("invocation", s))

(* _load accepts an empty journal,                                         *)
LEMMA LoadsEmpty == Loads(<< >>)
<1>1. Len(<< >>) = 0 OBVIOUS
<1> QED BY <1>1 DEF Loads

(* a record that fits after a journal it accepts,                          *)
LEMMA LoadsAppend ==
    ASSUME NEW s \in Seq(Record), NEW e \in Record, Loads(s), Fits(s, e)
    PROVE  Loads(Append(s, e))
<1> DEFINE t == Append(s, e)
           n == Len(s)
<1>1. /\ n \in Nat /\ Len(t) = n + 1 /\ t[n + 1] = e
      /\ \A i \in 1..n : t[i] = s[i]
      /\ \A kind : \A i \in 0..n : Collected(kind, t)[i] = Collected(kind, s)[i]
      BY AppendAgrees
<1>2. Of("run", s) = Collected("run", s)[n] /\ Of("invocation", s) = Collected("invocation", s)[n]
      BY DEF Of
<1> HIDE DEF t
<1>3. SUFFICES ASSUME NEW i \in 1..(n + 1)
      PROVE  /\ t[i].previous = i - 1
             /\ t[i].kind = "invocation" =>
                    t[i].invocation = Len(Collected("invocation", t)[i - 1])
             /\ t[i].kind = "run" =>
                    /\ t[i].sequence = Len(Collected("run", t)[i - 1])
                    /\ t[i].sequence < JobCount
                    /\ t[i].invocation < Len(Collected("invocation", t)[i - 1])
      BY <1>1 DEF Loads, t
<1>4. i - 1 \in 0..n BY <1>1
<1>5. CASE i \in 1..n
  <2>1. t[i] = s[i] BY <1>1, <1>5
  <2>2. \A kind : Collected(kind, t)[i - 1] = Collected(kind, s)[i - 1] BY <1>1, <1>4
  <2> QED BY <1>5, <2>1, <2>2 DEF Loads
<1>6. CASE i = n + 1
  <2>1. t[i] = e /\ i - 1 = n BY <1>1, <1>6
  <2>2. \A kind : Collected(kind, t)[i - 1] = Collected(kind, s)[n] BY <1>1, <1>4, <2>1
  <2> QED BY <1>2, <2>1, <2>2 DEF Fits
<1> QED BY <1>1, <1>5, <1>6

(* and what is left of such a journal after its end is gone.               *)
LEMMA LoadsPrefix ==
    ASSUME NEW s \in Seq(Record), NEW k \in 0..Len(s), Loads(s)
    PROVE  Loads(SubSeq(s, 1, k))
<1> DEFINE p == SubSeq(s, 1, k)
<1>1. /\ Len(p) = k /\ k \in Nat /\ Len(s) \in Nat
      /\ \A i \in 1..k : p[i] = s[i]
      /\ \A kind : \A i \in 0..k : Collected(kind, p)[i] = Collected(kind, s)[i]
      BY PrefixAgrees
<1> HIDE DEF p
<1>2. SUFFICES ASSUME NEW i \in 1..k
      PROVE  /\ p[i].previous = i - 1
             /\ p[i].kind = "invocation" =>
                    p[i].invocation = Len(Collected("invocation", p)[i - 1])
             /\ p[i].kind = "run" =>
                    /\ p[i].sequence = Len(Collected("run", p)[i - 1])
                    /\ p[i].sequence < JobCount
                    /\ p[i].invocation < Len(Collected("invocation", p)[i - 1])
      BY <1>1 DEF Loads, p
<1>3. i \in 1..Len(s) /\ i - 1 \in 0..k BY <1>1
<1>4. \A kind : Collected(kind, p)[i - 1] = Collected(kind, s)[i - 1] BY <1>1, <1>3
<1> QED BY <1>1, <1>3, <1>4 DEF Loads

(* A journal that loads holds no more runs than there are jobs, and its    *)
(* runs are of invocations it holds.                                       *)
LEMMA LoadedRuns ==
    ASSUME NEW s \in Seq(Record), Loads(s)
    PROVE  /\ Len(Runs(s)) <= JobCount
           /\ \A i \in 1..Len(Runs(s)) : Runs(s)[i].invocation < Len(Invocations(s))
<1> DEFINE runs == Collected("run", s)
           invocations == Collected("invocation", s)
           Good(n) == /\ Len(runs[n]) <= JobCount
                      /\ \A k \in 1..Len(runs[n]) :
                             runs[n][k].invocation < Len(invocations[n])
           P == {n \in Nat : n <= Len(s) => Good(n)}
<1>1. /\ runs[0] = << >> /\ invocations[0] = << >>
      /\ \A i \in 1..Len(s) :
             /\ runs[i] = IF s[i].kind = "run" THEN Append(runs[i - 1], s[i]) ELSE runs[i - 1]
             /\ invocations[i] = IF s[i].kind = "invocation"
                                 THEN Append(invocations[i - 1], s[i]) ELSE invocations[i - 1]
      BY CollectedStep
<1>2. \A i \in 0..Len(s) : runs[i] \in Seq(Record) /\ invocations[i] \in Seq(Record)
      BY CollectedType
<1>3. \A i \in 1..Len(s) : s[i].kind = "run" =>
          /\ s[i].sequence = Len(runs[i - 1])
          /\ s[i].sequence < JobCount
          /\ s[i].invocation < Len(invocations[i - 1])
      BY DEF Loads
<1> HIDE DEF runs, invocations
<1>4. 0 \in P
  <2>1. Len(runs[0]) = 0 BY <1>1
  <2> QED BY <2>1, CampaignAssumption
<1>5. ASSUME NEW n \in P PROVE n + 1 \in P
  <2> SUFFICES ASSUME n + 1 <= Len(s) PROVE Good(n + 1) OBVIOUS
  <2> DEFINE m == n + 1
  <2>1. /\ m \in 1..Len(s) /\ m - 1 = n /\ n \in 0..Len(s) /\ m \in 0..Len(s)
        /\ Good(n)
        BY LenProperties
  <2>2. s[m] \in Record BY <2>1, ElementOfSeq
  <2>3. /\ runs[n] \in Seq(Record) /\ invocations[n] \in Seq(Record)
        /\ Len(runs[n]) \in Nat /\ Len(invocations[n]) \in Nat
        BY <1>2, <2>1, LenProperties
  <2>4. invocations[m] \in {invocations[n], Append(invocations[n], s[m])} BY <1>1, <2>1
  <2>5. Len(invocations[n]) <= Len(invocations[m]) /\ Len(invocations[m]) \in Nat
        BY <2>2, <2>3, <2>4, AppendProperties
  <2>6. \A k \in 1..Len(runs[n]) : runs[n][k] \in Record BY <2>3, ElementOfSeq
  <2>7. CASE s[m].kind = "run"
    <3>1. runs[m] = Append(runs[n], s[m]) BY <1>1, <2>1, <2>7
    <3>2. /\ Len(runs[m]) = Len(runs[n]) + 1
          /\ runs[m][Len(runs[n]) + 1] = s[m]
          /\ \A k \in 1..Len(runs[n]) : runs[m][k] = runs[n][k]
          BY <2>2, <2>3, <3>1, AppendProperties
    <3>3. /\ Len(runs[n]) < JobCount
          /\ s[m].invocation < Len(invocations[n])
          BY <1>3, <2>1, <2>7
    <3>4. s[m].invocation \in Nat BY <2>2 DEF Record
    <3>5. \A k \in 1..Len(runs[n]) : runs[n][k].invocation \in Nat BY <2>6 DEF Record
    <3>6. \A k \in 1..Len(runs[m]) : runs[m][k].invocation < Len(invocations[m])
      <4> SUFFICES ASSUME NEW k \in 1..Len(runs[m])
                   PROVE  runs[m][k].invocation < Len(invocations[m])
          OBVIOUS
      <4>1. CASE k = Len(runs[n]) + 1
        <5>1. s[m].invocation < Len(invocations[m]) BY <3>3, <3>4, <2>3, <2>5
        <5>2. runs[m][k] = s[m] BY <4>1, <3>2
        <5> QED BY <5>1, <5>2
      <4>2. CASE k \in 1..Len(runs[n])
        <5>1. runs[m][k] = runs[n][k] /\ runs[n][k].invocation \in Nat
              BY <4>2, <3>2, <3>5
        <5>2. runs[n][k].invocation < Len(invocations[n]) BY <4>2, <2>1
        <5> QED BY <5>1, <5>2, <2>3, <2>5
      <4> QED BY <4>1, <4>2, <3>2, <2>3
    <3>7. Len(runs[m]) <= JobCount BY <2>3, <3>2, <3>3, CampaignAssumption
    <3> QED BY <3>6, <3>7
  <2>8. CASE s[m].kind # "run"
    <3>1. runs[m] = runs[n] BY <1>1, <2>1, <2>8
    <3>2. \A k \in 1..Len(runs[n]) : runs[n][k].invocation \in Nat BY <2>6 DEF Record
    <3> QED BY <3>1, <3>2, <2>1, <2>3, <2>5
  <2> QED BY <2>7, <2>8
<1>6. P = Nat BY <1>4, <1>5, Induction
<1>7. Len(s) \in P /\ Len(s) <= Len(s) BY <1>6, LenProperties
<1> QED BY <1>7 DEF Runs, Invocations, runs, invocations

-----------------------------------------------------------------------------
(* The inductive invariant.  The lock is held by the runner that is past   *)
(* Open; its copy is the journal, up to the record it has just written.    *)
Past(r) == pc[r] \notin {"off", "verified"}

LockInv == \A r \in Runner : Past(r) <=> holder = r

(* What the holder is about to write fits what it knows, nothing is        *)
(* published while it has jobs to run, and it publishes only what is       *)
(* complete.                                                               *)
Prepared(r) ==
    /\ pending[r] \in Record /\ Fits(view[r], pending[r])
    /\ own[r] < Len(Invocations(Append(view[r], pending[r])))

AtWork(r) ==
    /\ IF pc[r] = "syncing" THEN journal = Append(view[r], pending[r]) ELSE journal = view[r]
    /\ pc[r] \in {"ready", "checked", "running", "appending", "syncing"} =>
           own[r] \in Nat /\ raw = NoFile /\ summary = NoFile
    /\ pc[r] \in {"ready", "checked"} =>
           ~Complete(view[r]) /\ own[r] < Len(Invocations(view[r]))
    /\ pc[r] \in {"running", "appending", "syncing"} => Prepared(r)
    /\ pc[r] \in {"finishing", "raw renamed", "raw published", "summary renamed"} =>
           Complete(view[r])
    /\ pc[r] \in {"raw renamed", "raw published", "summary renamed"} => raw = Runs(view[r])

HolderInv == \A r \in Runner : holder = r => AtWork(r)

RenamesInOrder == summary # NoFile /\ "raw" \in unsynced => "summary" \in unsynced

Inv ==
    /\ TypeOK /\ LockInv /\ HolderInv /\ Loads(journal)
    /\ RawIsTheJournal /\ SummaryIsOfTheJournal /\ RenamesInOrder

(* The invariant holds before the first runner.                            *)
LEMMA InitInv == Init => Inv
<1> SUFFICES ASSUME Init PROVE Inv OBVIOUS
<1>1. TypeOK
  <2>1. << >> \in Seq(Record) /\ Len(<< >>) = 0 BY EmptySeq
  <2>2. durable \in 0..Len(journal) /\ journal \in Seq(Record) BY <2>1 DEF Init
  <2>3. /\ view \in [Runner -> Seq(Record)]
        /\ pending \in [Runner -> Record \cup {NoRecord}]
        /\ own \in [Runner -> Nat \cup {NoInvocation}]
        BY <2>1 DEF Init
  <2>4. /\ content \in [Artifact -> Content] /\ stamp \in [Artifact -> Nat]
        /\ pc \in [Runner -> Place]
        /\ snapshot \in [Runner -> [Artifact -> Nat]]
        BY DEF Init, Content, Place
  <2> QED BY <2>2, <2>3, <2>4 DEF Init, TypeOK
<1>2. LockInv BY CampaignAssumption DEF Init, LockInv, Past
<1>3. HolderInv BY CampaignAssumption DEF Init, HolderInv
<1>4. Loads(journal) BY LoadsEmpty DEF Init
<1>5. RawIsTheJournal /\ SummaryIsOfTheJournal /\ RenamesInOrder
      BY DEF Init, RawIsTheJournal, SummaryIsOfTheJournal, RenamesInOrder
<1> QED BY <1>1, <1>2, <1>3, <1>4, <1>5 DEF Inv

(* A step that leaves the file and the outputs as they are keeps what is   *)
(* said of them.                                                           *)
LEMMA SameFiles ==
    ASSUME Inv, UNCHANGED <<journal, raw, summary, unsynced, losses>>
    PROVE  (Loads(journal) /\ RawIsTheJournal /\ SummaryIsOfTheJournal /\ RenamesInOrder)'
BY DEF Inv, RawIsTheJournal, SummaryIsOfTheJournal, RenamesInOrder

(* A process that ends leaves the rest as it is.                           *)
LEMMA ExitKeeps ==
    ASSUME Inv, NEW r \in Runner, Exit(r),
           UNCHANGED <<content, stamp, journal, durable, raw, summary, unsynced, losses>>,
           torn' \in BOOLEAN, stops' \in Nat
    PROVE  Inv'
<1> USE DEF Inv
<1>1. TypeOK' BY EmptySeq DEF TypeOK, Exit, Goto, Place, NoInvocation
<1>2. LockInv'
  <2> SUFFICES ASSUME NEW t \in Runner PROVE (Past(t) <=> holder = t)' BY DEF LockInv
  <2>1. CASE t = r BY <2>1, CampaignAssumption DEF TypeOK, Exit, Goto, Past, LockInv
  <2>2. CASE t # r
    <3>1. pc'[t] = pc[t] BY <2>2 DEF TypeOK, Exit, Goto
    <3>2. holder' = t <=> holder = t BY <2>2, CampaignAssumption DEF Exit
    <3> QED BY <3>1, <3>2 DEF LockInv, Past
  <2> QED BY <2>1, <2>2
<1>3. HolderInv'
  <2> SUFFICES ASSUME NEW t \in Runner, holder' = t PROVE AtWork(t)' BY DEF HolderInv
  <2>1. t # r /\ holder = t BY CampaignAssumption DEF Exit
  <2>2. UNCHANGED <<pc[t], own[t], view[t], pending[t]>> BY <2>1 DEF TypeOK, Exit, Goto
  <2> QED BY <2>1, <2>2 DEF HolderInv, AtWork, Prepared
<1> QED BY <1>1, <1>2, <1>3, SameFiles

(* A step of the holder is looked at for the holder alone.                 *)
LEMMA HolderSteps ==
    ASSUME Inv, NEW r \in Runner, holder = r, holder' = r,
           NEW place \in Place \ {"off", "verified"}, Goto(r, place), AtWork(r)'
    PROVE  LockInv' /\ HolderInv'
<1> USE DEF Inv
<1>1. \A t \in Runner : pc'[t] = IF t = r THEN place ELSE pc[t] BY DEF Goto, TypeOK
<1>2. LockInv' BY <1>1 DEF LockInv, Past
<1>3. HolderInv' BY DEF HolderInv
<1> QED BY <1>2, <1>3

(* Whoever is past Open holds the lock.                                    *)
LEMMA ActorIsHolder ==
    ASSUME Inv, NEW r \in Runner, pc[r] \notin {"off", "verified"}
    PROVE  holder = r /\ AtWork(r)
BY DEF Inv, LockInv, Past, HolderInv

(* Every action keeps the invariant.                                       *)
LEMMA LaunchStep ==
    ASSUME Inv, NEW r \in Runner, Launch(r)
    PROVE  Inv'
<1> USE DEF Inv, Launch, shared, budget
<1>1. TypeOK' BY DEF TypeOK, Goto, Place
<1>2. \A t \in Runner : pc'[t] = IF t = r THEN "verified" ELSE pc[t] BY DEF Goto, TypeOK
<1>3. holder # r BY DEF LockInv, Past
<1>4. LockInv' BY <1>2 DEF LockInv, Past
<1>5. HolderInv'
  <2> SUFFICES ASSUME NEW t \in Runner, holder' = t PROVE AtWork(t)' BY DEF HolderInv
  <2>1. t # r /\ AtWork(t) BY <1>3 DEF HolderInv
  <2> QED BY <2>1, <1>2 DEF AtWork, Prepared
<1> QED BY <1>1, <1>4, <1>5, SameFiles

(* Journal.__enter__: the holder of the lock starts with the journal as    *)
(* it is.                                                                  *)
LEMMA OpenStep ==
    ASSUME Inv, NEW r \in Runner, Open(r)
    PROVE  Inv'
<1> USE DEF Inv, Open, artifacts, file, outputs, budget
<1>1. CASE Exit(r) BY <1>1, ExitKeeps DEF TypeOK
<1>2. CASE /\ holder = NoRunner /\ ~torn /\ Loads(journal)
           /\ holder' = r
           /\ view' = [view EXCEPT ![r] = journal]
           /\ Goto(r, "loaded")
           /\ UNCHANGED <<snapshot, own, pending>>
  <2>1. TypeOK' BY <1>2 DEF TypeOK, Goto, Place
  <2>2. \A t \in Runner : pc'[t] = IF t = r THEN "loaded" ELSE pc[t]
        BY <1>2 DEF Goto, TypeOK
  <2>3. \A t \in Runner : holder # t BY <1>2, CampaignAssumption
  <2>4. LockInv' BY <1>2, <2>2, <2>3 DEF LockInv, Past
  <2>5. view'[r] = journal BY <1>2 DEF TypeOK
  <2>6. HolderInv' BY <1>2, <2>2, <2>5 DEF HolderInv, AtWork
  <2> QED BY <2>1, <2>4, <2>6, <1>2, SameFiles
<1> QED BY <1>1, <1>2

(* The records that an invocation makes fit what it knows.                 *)
LEMMA NewInvocationFits ==
    ASSUME NEW s \in Seq(Record)
    PROVE  /\ NewInvocation(s) \in Record /\ Fits(s, NewInvocation(s))
           /\ Len(Invocations(s)) \in Nat
           /\ Len(Invocations(s)) < Len(Invocations(Append(s, NewInvocation(s))))
<1> DEFINE e == NewInvocation(s)
<1>1. Invocations(s) = Of("invocation", s) BY DEF Invocations, Of
<1>2. Len(Of("invocation", s)) \in Nat /\ Of("invocation", s) \in Seq(Record) BY OfType
<1>3. e \in Record BY <1>1, <1>2, LenProperties DEF NewInvocation, Record, Content
<1>4. e.kind = "invocation" /\ Fits(s, e) BY <1>1 DEF NewInvocation, Fits
<1> HIDE DEF e
<1>5. Of("invocation", Append(s, e)) = Append(Of("invocation", s), e)
      BY <1>3, <1>4, OfAppend
<1>6. Len(Append(Of("invocation", s), e)) = Len(Of("invocation", s)) + 1
      BY <1>2, <1>3, AppendProperties
<1>7. Invocations(Append(s, e)) = Of("invocation", Append(s, e)) BY DEF Invocations, Of
<1> QED BY <1>1, <1>2, <1>3, <1>4, <1>5, <1>6, <1>7 DEF e

(* The record of a finished run is the next of the schedule.               *)
LEMMA NewRunFits ==
    ASSUME NEW s \in Seq(Record), Loads(s), ~Complete(s),
           NEW k \in Nat, k < Len(Invocations(s)), NEW with \in Content
    PROVE  LET e == NewRun(s, k, with)
           IN  /\ e \in Record /\ Fits(s, e)
               /\ k < Len(Invocations(Append(s, e)))
<1> DEFINE e == NewRun(s, k, with)
<1>1. Invocations(s) = Of("invocation", s) /\ Runs(s) = Of("run", s)
      BY DEF Invocations, Runs, Of
<1>2. Len(Of("invocation", s)) \in Nat /\ Len(Of("run", s)) \in Nat BY OfType
<1>3. e \in Record BY <1>1, <1>2, LenProperties DEF NewRun, Record
<1>4. Len(Of("run", s)) < JobCount
      BY <1>1, <1>2, LoadedRuns, CampaignAssumption DEF Complete
<1>5. e.kind = "run" /\ Fits(s, e) BY <1>1, <1>4 DEF NewRun, Fits
<1> HIDE DEF e
<1>6. Of("invocation", Append(s, e)) = Of("invocation", s) BY <1>3, <1>5, OfAppend
<1>7. Invocations(Append(s, e)) = Of("invocation", Append(s, e)) BY DEF Invocations, Of
<1> QED BY <1>1, <1>3, <1>5, <1>6, <1>7 DEF e

(* run_campaign prepares the record of an invocation, goes on to publish,  *)
(* or refuses.                                                             *)
LEMMA BeginStep ==
    ASSUME Inv, NEW r \in Runner, Begin(r)
    PROVE  Inv'
<1> USE DEF Inv, Begin, artifacts, file, outputs, budget
<1>1. holder = r /\ AtWork(r) BY ActorIsHolder
<1>2. view[r] = journal /\ view[r] \in Seq(Record) BY <1>1 DEF AtWork, TypeOK
<1>3. CASE Exit(r) BY <1>3, ExitKeeps DEF TypeOK
<1>4. CASE /\ Complete(view[r])
           /\ Goto(r, "finishing")
           /\ UNCHANGED <<holder, snapshot, own, view, pending>>
  <2>1. TypeOK' BY <1>4 DEF TypeOK, Goto, Place
  <2>2. pc'[r] = "finishing" BY <1>4 DEF Goto, TypeOK
  <2>3. AtWork(r)' BY <1>2, <1>4, <2>2 DEF AtWork
  <2>4. LockInv' /\ HolderInv' BY <1>1, <1>4, <2>3, HolderSteps DEF Place
  <2> QED BY <2>1, <2>4, SameFiles, <1>4
<1>5. CASE /\ ~Complete(view[r]) /\ raw = NoFile /\ summary = NoFile
           /\ Goto(r, "appending")
           /\ own' = [own EXCEPT ![r] = Len(Invocations(view[r]))]
           /\ pending' = [pending EXCEPT ![r] = NewInvocation(view[r])]
           /\ UNCHANGED <<holder, snapshot, view>>
  <2>1. /\ NewInvocation(view[r]) \in Record /\ Fits(view[r], NewInvocation(view[r]))
        /\ Len(Invocations(view[r])) \in Nat
        /\ Len(Invocations(view[r])) < Len(Invocations(Append(view[r], NewInvocation(view[r]))))
        BY <1>2, NewInvocationFits
  <2>2. /\ pc'[r] = "appending" /\ own'[r] = Len(Invocations(view[r]))
        /\ pending'[r] = NewInvocation(view[r]) /\ view'[r] = view[r]
        BY <1>5 DEF Goto, TypeOK
  <2>3. TypeOK' BY <1>5, <2>1 DEF TypeOK, Goto, Place
  <2>4. Prepared(r)' BY <2>1, <2>2 DEF Prepared, Fits
  <2>5. AtWork(r)' BY <1>2, <1>5, <2>1, <2>2, <2>4 DEF AtWork
  <2>6. LockInv' /\ HolderInv' BY <1>1, <1>5, <2>5, HolderSteps DEF Place
  <2> QED BY <2>3, <2>6, SameFiles, <1>5
<1> QED BY <1>3, <1>4, <1>5

(* The check before a job changes only the position of the runner.         *)
LEMMA CheckJobStep ==
    ASSUME Inv, NEW r \in Runner, CheckJob(r)
    PROVE  Inv'
<1> USE DEF Inv, CheckJob, artifacts, file, outputs, budget
<1>1. holder = r /\ AtWork(r) BY ActorIsHolder
<1>2. CASE Exit(r) BY <1>2, ExitKeeps DEF TypeOK
<1>3. CASE Goto(r, "checked") /\ UNCHANGED <<holder, snapshot, own, view, pending>>
  <2>1. TypeOK' BY <1>3 DEF TypeOK, Goto, Place
  <2>2. pc'[r] = "checked" BY <1>3 DEF Goto, TypeOK
  <2>3. AtWork(r)' BY <1>1, <1>3, <2>2 DEF AtWork
  <2>4. LockInv' /\ HolderInv' BY <1>1, <1>3, <2>3, HolderSteps DEF Place
  <2> QED BY <2>1, <2>4, SameFiles, <1>3
<1> QED BY <1>2, <1>3

(* The record prepared when a job starts fits the journal.                 *)
LEMMA SpawnJobStep ==
    ASSUME Inv, NEW r \in Runner, SpawnJob(r)
    PROVE  Inv'
<1> USE DEF Inv, shared, budget
<1>1. pc[r] = "checked" /\ Goto(r, "running") /\ UNCHANGED <<shared, snapshot, own, view, budget>>
      BY DEF SpawnJob
<1>2. holder = r /\ AtWork(r) BY <1>1, ActorIsHolder
<1>3. PICK with \in Content : pending' = [pending EXCEPT ![r] = NewRun(view[r], own[r], with)]
      BY DEF SpawnJob, Content
<1>4. /\ view[r] = journal /\ view[r] \in Seq(Record) /\ Loads(view[r])
      /\ ~Complete(view[r]) /\ own[r] \in Nat /\ own[r] < Len(Invocations(view[r]))
      BY <1>1, <1>2 DEF AtWork, TypeOK
<1> DEFINE e == NewRun(view[r], own[r], with)
<1>5. e \in Record /\ Fits(view[r], e) /\ own[r] < Len(Invocations(Append(view[r], e)))
      BY <1>4, NewRunFits
<1> HIDE DEF e
<1>6. pending' = [pending EXCEPT ![r] = e] BY <1>3 DEF e
<1>7. TypeOK' BY <1>1, <1>5, <1>6 DEF TypeOK, Goto, Place
<1>8. pc'[r] = "running" /\ pending'[r] = e BY <1>1, <1>6 DEF Goto, TypeOK
<1>9. Prepared(r)' BY <1>1, <1>5, <1>8 DEF Prepared, Fits
<1>10. AtWork(r)' BY <1>1, <1>2, <1>4, <1>8, <1>9 DEF AtWork
<1>11. LockInv' /\ HolderInv' BY <1>1, <1>2, <1>10, HolderSteps DEF Place
<1> QED BY <1>1, <1>7, <1>11, SameFiles

(* The end of a job leaves its record prepared.                            *)
LEMMA EndJobStep ==
    ASSUME Inv, NEW r \in Runner, EndJob(r)
    PROVE  Inv'
<1> USE DEF Inv, EndJob, shared, budget
<1>1. holder = r /\ AtWork(r) BY ActorIsHolder
<1>2. TypeOK' BY DEF TypeOK, Goto, Place
<1>3. pc'[r] = "appending" BY DEF Goto, TypeOK
<1>4. AtWork(r)' BY <1>1, <1>3 DEF AtWork, Prepared
<1>5. LockInv' /\ HolderInv' BY <1>1, <1>4, HolderSteps DEF Place
<1> QED BY <1>2, <1>5, SameFiles

(* Journal.append: the prepared record extends the chain.                  *)
LEMMA WriteRecordStep ==
    ASSUME Inv, NEW r \in Runner, WriteRecord(r)
    PROVE  Inv'
<1> USE DEF Inv, WriteRecord, artifacts, outputs, budget
<1>1. holder = r /\ AtWork(r) BY ActorIsHolder
<1>2. /\ journal = view[r] /\ raw = NoFile /\ summary = NoFile /\ Prepared(r)
      BY <1>1 DEF AtWork
<1>3. /\ pending[r] \in Record /\ Fits(journal, pending[r])
      /\ journal \in Seq(Record) /\ journal' = Append(journal, pending[r])
      BY <1>2 DEF Prepared, TypeOK
<1>4. journal' \in Seq(Record) /\ Len(journal') = Len(journal) + 1 BY <1>3, AppendProperties
<1>5. durable' \in 0..Len(journal') BY <1>3, <1>4, LenProperties DEF TypeOK
<1>6. TypeOK' BY <1>4, <1>5 DEF TypeOK, Goto, Place
<1>7. pc'[r] = "syncing" BY DEF Goto, TypeOK
<1>8. AtWork(r)' BY <1>1, <1>2, <1>3, <1>7 DEF AtWork, Prepared
<1>9. LockInv' /\ HolderInv' BY <1>1, <1>8, HolderSteps DEF Place
<1>10. Loads(journal)' BY <1>3, LoadsAppend
<1>11. (RawIsTheJournal /\ SummaryIsOfTheJournal /\ RenamesInOrder)'
       BY <1>2 DEF RawIsTheJournal, SummaryIsOfTheJournal, RenamesInOrder
<1> QED BY <1>6, <1>9, <1>10, <1>11

(* After the fsync the record is durable, and in the copy of its writer.   *)
LEMMA SyncRecordStep ==
    ASSUME Inv, NEW r \in Runner, SyncRecord(r)
    PROVE  Inv'
<1> USE DEF Inv, SyncRecord, artifacts, outputs, budget
<1>1. holder = r /\ AtWork(r) BY ActorIsHolder
<1>2. /\ journal = Append(view[r], pending[r]) /\ raw = NoFile /\ summary = NoFile
      /\ Prepared(r) /\ own[r] \in Nat
      BY <1>1 DEF AtWork
<1>3. view'[r] = journal BY <1>2 DEF TypeOK
<1> DEFINE place == IF Complete(view'[r]) THEN "finishing" ELSE "ready"
<1>4. Goto(r, place) /\ pc'[r] = place BY DEF Goto, TypeOK
<1>5. TypeOK'
  <2>1. journal \in Seq(Record) /\ Len(journal) \in Nat BY LenProperties DEF TypeOK
  <2>2. view' \in [Runner -> Seq(Record)] BY <1>2, <2>1 DEF TypeOK
  <2>3. durable' \in 0..Len(journal)' BY <2>1
  <2> QED BY <1>4, <2>2, <2>3 DEF TypeOK, Goto, Place
<1>6. AtWork(r)' BY <1>2, <1>3, <1>4 DEF AtWork, Prepared
<1>7. LockInv' /\ HolderInv' BY <1>1, <1>4, <1>6, HolderSteps DEF Place
<1> QED BY <1>5, <1>7, SameFiles

(* A partial line is no record.                                            *)
LEMMA ShortWriteStep ==
    ASSUME Inv, NEW r \in Runner, ShortWrite(r)
    PROVE  Inv'
BY ExitKeeps DEF ShortWrite, artifacts, outputs, Inv, TypeOK

(* A killed runner loses its memory and the lock.                          *)
LEMMA StopStep ==
    ASSUME Inv, NEW r \in Runner, Stop(r)
    PROVE  Inv'
BY ExitKeeps DEF Stop, artifacts, file, outputs, Inv, TypeOK

(* The runs of a journal are a sequence, and so no missing file.           *)
LEMMA RunsType ==
    ASSUME NEW s \in Seq(Record)
    PROVE  Runs(s) \in Seq(Record) /\ Runs(s) # NoFile /\ IsPrefix(Runs(s), Runs(s))
<1>1. Runs(s) \in Seq(Record) BY OfType DEF Runs, Of
<1>2. Len(Runs(s)) \in Nat BY <1>1, LenProperties
<1> QED BY <1>1, <1>2, PrefixIsAgreement, CampaignAssumption

(* A prefix of a prefix is a prefix.                                       *)
LEMMA PrefixTransitive ==
    ASSUME NEW s \in Seq(Record), NEW t \in Seq(Record), NEW u \in Seq(Record),
           IsPrefix(s, t), IsPrefix(t, u)
    PROVE  IsPrefix(s, u)
<1>1. Len(s) \in Nat /\ Len(t) \in Nat /\ Len(u) \in Nat BY LenProperties
<1>2. /\ Len(s) <= Len(t) /\ \A i \in 1..Len(s) : s[i] = t[i]
      /\ Len(t) <= Len(u) /\ \A i \in 1..Len(t) : t[i] = u[i]
      BY PrefixIsAgreement
<1>3. Len(s) <= Len(u) /\ \A i \in 1..Len(s) : s[i] = u[i] BY <1>1, <1>2
<1> QED BY <1>3, PrefixIsAgreement

(* The outputs are written from a complete journal under the lock.         *)
LEMMA PublishRawStep ==
    ASSUME Inv, NEW r \in Runner, PublishRaw(r)
    PROVE  Inv'
<1> USE DEF Inv, PublishRaw, artifacts, file, budget
<1>1. holder = r /\ AtWork(r) BY ActorIsHolder
<1>2. /\ journal = view[r] /\ Complete(view[r]) /\ view[r] \in Seq(Record)
      BY <1>1 DEF AtWork, TypeOK
<1>3. CASE Exit(r) /\ UNCHANGED <<raw, unsynced>> BY <1>3, ExitKeeps DEF TypeOK
<1>4. CASE /\ raw = Runs(view[r])
           /\ Goto(r, "raw published")
           /\ UNCHANGED <<raw, unsynced, holder, snapshot, own, view, pending>>
  <2>1. TypeOK' BY <1>4 DEF TypeOK, Goto, Place
  <2>2. pc'[r] = "raw published" BY <1>4 DEF Goto, TypeOK
  <2>3. AtWork(r)' BY <1>2, <1>4, <2>2 DEF AtWork
  <2>4. LockInv' /\ HolderInv' BY <1>1, <1>4, <2>3, HolderSteps DEF Place
  <2> QED BY <2>1, <2>4, SameFiles, <1>4
<1>5. CASE /\ raw = NoFile
           /\ raw' = Runs(view[r])
           /\ unsynced' = unsynced \cup {"raw"}
           /\ Goto(r, "raw renamed")
           /\ UNCHANGED <<holder, snapshot, own, view, pending>>
  <2>1. Runs(view[r]) \in Seq(Record) /\ IsPrefix(Runs(view[r]), Runs(view[r]))
        BY <1>2, RunsType
  <2>2. TypeOK' BY <1>5, <2>1 DEF TypeOK, Goto, Place
  <2>3. pc'[r] = "raw renamed" BY <1>5 DEF Goto, TypeOK
  <2>4. AtWork(r)' BY <1>2, <1>5, <2>3 DEF AtWork
  <2>5. LockInv' /\ HolderInv' BY <1>1, <1>5, <2>4, HolderSteps DEF Place
  <2>6. summary = NoFile BY <1>5 DEF SummaryIsOfTheJournal
  <2>7. RawIsTheJournal' BY <1>2, <1>5, <2>1 DEF RawIsTheJournal, Complete
  <2>8. (SummaryIsOfTheJournal /\ RenamesInOrder)'
        BY <1>5, <2>6 DEF SummaryIsOfTheJournal, RenamesInOrder
  <2> QED BY <2>2, <2>5, <2>7, <2>8
<1> QED BY <1>3, <1>4, <1>5

(* The directory entry of the raw output is durable.                       *)
LEMMA SyncRawStep ==
    ASSUME Inv, NEW r \in Runner, SyncRaw(r)
    PROVE  Inv'
<1> USE DEF Inv, SyncRaw, artifacts, file, budget
<1>1. holder = r /\ AtWork(r) BY ActorIsHolder
<1>2. TypeOK' BY DEF TypeOK, Goto, Place
<1>3. pc'[r] = "raw published" BY DEF Goto, TypeOK
<1>4. AtWork(r)' BY <1>1, <1>3 DEF AtWork
<1>5. LockInv' /\ HolderInv' BY <1>1, <1>4, HolderSteps DEF Place
<1>6. (RawIsTheJournal /\ SummaryIsOfTheJournal /\ RenamesInOrder)'
      BY DEF RawIsTheJournal, SummaryIsOfTheJournal, RenamesInOrder
<1> QED BY <1>2, <1>5, <1>6

(* The summary is made from the journal the raw output was made from.      *)
LEMMA PublishSummaryStep ==
    ASSUME Inv, NEW r \in Runner, PublishSummary(r)
    PROVE  Inv'
<1> USE DEF Inv, PublishSummary, artifacts, file, budget
<1>1. holder = r /\ AtWork(r) BY ActorIsHolder
<1>2. /\ journal = view[r] /\ Complete(view[r]) /\ raw = Runs(view[r])
      /\ view[r] \in Seq(Record)
      BY <1>1 DEF AtWork, TypeOK
<1>3. CASE Exit(r) /\ UNCHANGED <<summary, unsynced>> BY <1>3, ExitKeeps DEF TypeOK
<1>4. CASE /\ summary' = journal
           /\ unsynced' = unsynced \cup {"summary"}
           /\ Goto(r, "summary renamed")
           /\ UNCHANGED <<holder, snapshot, own, view, pending>>
  <2>1. TypeOK' BY <1>4 DEF TypeOK, Goto, Place
  <2>2. pc'[r] = "summary renamed" BY <1>4 DEF Goto, TypeOK
  <2>3. AtWork(r)' BY <1>2, <1>4, <2>2 DEF AtWork
  <2>4. LockInv' /\ HolderInv' BY <1>1, <1>4, <2>3, HolderSteps DEF Place
  <2>5. raw # NoFile BY <1>2, RunsType
  <2>6. (SummaryIsOfTheJournal /\ RenamesInOrder)'
        BY <1>2, <1>4, <2>5 DEF SummaryIsOfTheJournal, RenamesInOrder
  <2>7. RawIsTheJournal' BY DEF RawIsTheJournal
  <2> QED BY <2>1, <2>4, <2>6, <2>7
<1> QED BY <1>3, <1>4

(* The directory entry of the summary is durable.                          *)
LEMMA SyncSummaryStep ==
    ASSUME Inv, NEW r \in Runner, SyncSummary(r)
    PROVE  Inv'
<1> USE DEF Inv, SyncSummary, artifacts, file, budget
<1>1. holder = r BY ActorIsHolder
<1>2. TypeOK' BY EmptySeq DEF TypeOK, Exit, Goto, Place, NoInvocation
<1>3. LockInv'
  <2> SUFFICES ASSUME NEW t \in Runner PROVE (Past(t) <=> holder = t)' BY DEF LockInv
  <2>1. CASE t = r BY <2>1, <1>1, CampaignAssumption DEF TypeOK, Exit, Goto, Past
  <2>2. CASE t # r
        BY <2>2, <1>1, CampaignAssumption DEF TypeOK, Exit, Goto, Past, LockInv
  <2> QED BY <2>1, <2>2
<1>4. HolderInv' BY <1>1, CampaignAssumption DEF HolderInv, Exit
<1>5. (RawIsTheJournal /\ SummaryIsOfTheJournal /\ RenamesInOrder)'
      BY DEF RawIsTheJournal, SummaryIsOfTheJournal, RenamesInOrder
<1> QED BY <1>2, <1>3, <1>4, <1>5

(* A power loss shortens the journal and takes renames back in order.      *)
LEMMA PowerLossStep ==
    ASSUME Inv, PowerLoss
    PROVE  Inv'
<1> USE DEF Inv, artifacts
<1>1. /\ losses' = losses + 1 /\ unsynced' = {} /\ holder' = NoRunner
      /\ pc' = [r \in Runner |-> "off"]
      /\ snapshot' = [r \in Runner |-> [x \in Artifact |-> 0]]
      /\ own' = [r \in Runner |-> NoInvocation]
      /\ view' = [r \in Runner |-> << >>]
      /\ pending' = [r \in Runner |-> NoRecord]
      /\ UNCHANGED <<artifacts, stops>>
      BY DEF PowerLoss
<1>2. PICK kept \in durable..Len(journal) :
          /\ journal' = SubSeq(journal, 1, kept)
          /\ durable' = kept
          /\ torn' \in {torn, torn \/ kept < Len(journal)}
      BY DEF PowerLoss
<1>3. PICK lost \in {{}, {"summary"}, {"raw", "summary"}} :
          /\ raw' = IF "raw" \in unsynced \cap lost THEN NoFile ELSE raw
          /\ summary' = IF "summary" \in unsynced \cap lost THEN NoFile ELSE summary
      BY DEF PowerLoss
<1>4. journal \in Seq(Record) /\ kept \in 0..Len(journal) /\ Len(journal) \in Nat
      BY LenProperties DEF TypeOK
<1>5. journal' \in Seq(Record) /\ Len(journal') = kept /\ kept \in Nat
      BY <1>2, <1>4, PrefixAgrees
<1>6. TypeOK'
  <2>1. durable' \in 0..Len(journal') BY <1>2, <1>5
  <2>2. torn' \in BOOLEAN BY <1>2 DEF TypeOK
  <2>3. raw' = NoFile \/ raw' \in Seq(Record) BY <1>3 DEF TypeOK
  <2>4. summary' = NoFile \/ summary' \in Seq(Record) BY <1>3 DEF TypeOK
  <2>5. view' \in [Runner -> Seq(Record)] BY <1>1, EmptySeq
  <2>6. /\ pc' \in [Runner -> Place] /\ own' \in [Runner -> Nat \cup {NoInvocation}]
        /\ pending' \in [Runner -> Record \cup {NoRecord}]
        /\ snapshot' \in [Runner -> [Artifact -> Nat]]
        BY <1>1 DEF Place
  <2> QED BY <1>1, <1>5, <2>1, <2>2, <2>3, <2>4, <2>5, <2>6 DEF TypeOK
<1>7. LockInv' /\ HolderInv'
      BY <1>1, CampaignAssumption DEF LockInv, Past, HolderInv
<1>8. Loads(journal)' BY <1>2, <1>4, LoadsPrefix
<1>9. losses' # 0 BY <1>1 DEF TypeOK
<1>10. RawIsTheJournal'
  <2> SUFFICES ASSUME raw' # NoFile
               PROVE  Len(raw') = JobCount /\ IsPrefix(Runs(journal'), raw')
      BY <1>9 DEF RawIsTheJournal
  <2>1. raw' = raw /\ raw # NoFile BY <1>3
  <2>2. raw \in Seq(Record) /\ IsPrefix(Runs(journal), raw) /\ Len(raw) = JobCount
        BY <2>1 DEF RawIsTheJournal, TypeOK
  <2>3. IsPrefix(Runs(journal'), Runs(journal)) BY <1>2, <1>4, OfPrefix DEF Runs, Of
  <2>4. Runs(journal) \in Seq(Record) /\ Runs(journal') \in Seq(Record)
        BY <1>4, <1>5, RunsType
  <2> QED BY <2>1, <2>2, <2>3, <2>4, PrefixTransitive
<1>11. SummaryIsOfTheJournal'
  <2> SUFFICES ASSUME summary' # NoFile
               PROVE  raw' # NoFile /\ raw' = Runs(summary')
      BY <1>9 DEF SummaryIsOfTheJournal
  <2>1. summary' = summary /\ summary # NoFile /\ ~("summary" \in unsynced \cap lost)
        BY <1>3
  <2>2. raw # NoFile /\ raw = Runs(summary) BY <2>1 DEF SummaryIsOfTheJournal
  <2>3. "raw" \notin unsynced \cap lost
    <3> SUFFICES ASSUME "raw" \in unsynced \cap lost PROVE FALSE OBVIOUS
    <3>1. "summary" \in unsynced BY <2>1 DEF RenamesInOrder
    <3>2. "summary" \in lost OBVIOUS
    <3> QED BY <2>1, <3>1, <3>2
  <2> QED BY <1>3, <2>1, <2>2, <2>3
<1>12. RenamesInOrder' BY <1>1 DEF RenamesInOrder
<1> QED BY <1>6, <1>7, <1>8, <1>10, <1>11, <1>12

(* Artifacts are neither journal nor output.                               *)
LEMMA DriftStep ==
    ASSUME Inv, NEW x \in Artifact, Drift(x)
    PROVE  Inv'
<1> USE DEF Inv, Drift, file, outputs, budget
<1>1. TypeOK' BY DEF TypeOK, Content
<1>2. LockInv' /\ HolderInv' BY DEF LockInv, Past, HolderInv, AtWork, Prepared
<1> QED BY <1>1, <1>2, SameFiles

(* The invariant is inductive.                                             *)
LEMMA NextInv == Inv /\ [Next]_vars => Inv'
<1> SUFFICES ASSUME Inv, [Next]_vars PROVE Inv' OBVIOUS
<1>1. CASE UNCHANGED vars
  <2>1. TypeOK' /\ LockInv' /\ HolderInv'
        BY <1>1 DEF Inv, vars, shared, budget, TypeOK, LockInv, Past, HolderInv, AtWork, Prepared
  <2> QED BY <1>1, <2>1, SameFiles DEF Inv, vars, shared, budget
<1>2. ASSUME NEW r \in Runner, Launch(r) \/ Run(r) \/ ShortWrite(r) \/ Stop(r)
      PROVE  Inv'
      BY <1>2, LaunchStep, OpenStep, BeginStep, CheckJobStep, SpawnJobStep, EndJobStep,
         WriteRecordStep, SyncRecordStep, PublishRawStep, SyncRawStep, PublishSummaryStep,
         SyncSummaryStep, ShortWriteStep, StopStep
      DEF Run
<1>3. CASE PowerLoss BY <1>3, PowerLossStep
<1>4. ASSUME NEW x \in Artifact, Drift(x) PROVE Inv' BY <1>4, DriftStep
<1> QED BY <1>1, <1>2, <1>3, <1>4 DEF Next

(* It holds in every reachable state.                                      *)
THEOREM SpecInv == Spec => []Inv
BY InitInv, NextInv, PTL DEF Spec

(* JournalLoads: whatever is interrupted, killed or crossed, Journal._load *)
(* accepts the complete records of the file.                               *)
THEOREM JournalAlwaysLoads == Spec => []JournalLoads
<1>1. Inv => JournalLoads BY DEF Inv, JournalLoads
<1> QED BY <1>1, SpecInv, PTL

(* PublishedIsTheJournal: the raw output and the summary written by        *)
(* atomic_write_immutable are those of the journal, in all crashes.        *)
THEOREM PublishedAlwaysTheJournal == Spec => []PublishedIsTheJournal
<1>1. Inv => PublishedIsTheJournal BY DEF Inv, PublishedIsTheJournal
<1> QED BY <1>1, SpecInv, PTL

-----------------------------------------------------------------------------
(* Only an append changes the journal, only a publication an output, and   *)
(* only a power loss takes something away.                                 *)
LEMMA WhatAStepWrites ==
    ASSUME [Next]_vars
    PROVE  \/ UNCHANGED <<journal, raw, summary>>
           \/ \E r \in Runner : WriteRecord(r)
           \/ UNCHANGED <<journal, summary>> /\ raw = NoFile
           \/ UNCHANGED <<journal, raw>> /\ summary = NoFile
           \/ PowerLoss
<1> USE DEF file, outputs, shared
<1>1. CASE UNCHANGED vars BY <1>1 DEF vars
<1>2. ASSUME NEW r \in Runner, Launch(r) \/ Open(r) \/ Begin(r) \/ CheckJob(r) \/ SpawnJob(r)
      PROVE  UNCHANGED <<journal, raw, summary>>
      BY <1>2 DEF Launch, Open, Begin, CheckJob, SpawnJob
<1>3. ASSUME NEW r \in Runner, EndJob(r) \/ SyncRecord(r) \/ SyncRaw(r) \/ SyncSummary(r)
                               \/ ShortWrite(r) \/ Stop(r)
      PROVE  UNCHANGED <<journal, raw, summary>>
      BY <1>3 DEF EndJob, SyncRecord, SyncRaw, SyncSummary, ShortWrite, Stop
<1>4. ASSUME NEW r \in Runner, PublishRaw(r)
      PROVE  \/ UNCHANGED <<journal, raw, summary>>
             \/ UNCHANGED <<journal, summary>> /\ raw = NoFile
      BY <1>4 DEF PublishRaw
<1>5. ASSUME NEW r \in Runner, PublishSummary(r)
      PROVE  \/ UNCHANGED <<journal, raw, summary>>
             \/ UNCHANGED <<journal, raw>> /\ summary = NoFile
      BY <1>5 DEF PublishSummary
<1>6. ASSUME NEW x \in Artifact, Drift(x) PROVE UNCHANGED <<journal, raw, summary>>
      BY <1>6 DEF Drift
<1> QED BY <1>1, <1>2, <1>3, <1>4, <1>5, <1>6 DEF Next, Run

(* What the steps do to journal and outputs.                               *)
LEMMA StepsAreImmutable ==
    ASSUME Inv, [Next]_vars
    PROVE  /\ losses' = losses => /\ IsPrefix(journal, journal')
                                  /\ raw \in {NoFile, raw'}
                                  /\ summary \in {NoFile, summary'}
           /\ IsPrefix(journal', journal) \/ IsPrefix(journal, journal')
           /\ raw = raw' \/ NoFile \in {raw, raw'}
           /\ summary = summary' \/ NoFile \in {summary, summary'}
<1>1. /\ journal \in Seq(Record) /\ Len(journal) \in Nat
      /\ \A r \in Runner : pc[r] = "appending" => pending[r] \in Record
  <2>1. \A r \in Runner : pc[r] = "appending" => AtWork(r)
        BY ActorIsHolder
  <2> QED BY <2>1, LenProperties DEF Inv, TypeOK, AtWork, Prepared
<1>2. IsPrefix(journal, journal) BY <1>1, PrefixIsAgreement
<1>3. CASE UNCHANGED journal /\ raw \in {NoFile, raw'} /\ summary \in {NoFile, summary'}
      BY <1>2, <1>3
<1>4. ASSUME NEW r \in Runner, WriteRecord(r)
      PROVE  IsPrefix(journal, journal') /\ UNCHANGED <<raw, summary>>
  <2>1. pending[r] \in Record /\ journal' = Append(journal, pending[r])
        BY <1>1, <1>4 DEF WriteRecord
  <2>2. /\ journal' \in Seq(Record) /\ Len(journal') = Len(journal) + 1
        /\ \A i \in 1..Len(journal) : journal'[i] = journal[i]
        BY <1>1, <2>1, AppendProperties
  <2>3. Len(journal) <= Len(journal') BY <1>1, <2>2
  <2>4. IsPrefix(journal, journal') BY <1>1, <2>2, <2>3, PrefixIsAgreement
  <2> QED BY <1>4, <2>4 DEF WriteRecord, outputs
<1>5. CASE PowerLoss
  <2>1. losses' # losses BY <1>5 DEF PowerLoss, Inv, TypeOK
  <2>2. PICK kept \in durable..Len(journal) : journal' = SubSeq(journal, 1, kept)
        BY <1>5 DEF PowerLoss
  <2>3. kept \in 0..Len(journal) BY <1>1 DEF Inv, TypeOK
  <2>4. /\ journal' \in Seq(Record) /\ Len(journal') = kept /\ kept \in Nat
        /\ \A i \in 1..kept : journal'[i] = journal[i]
        BY <1>1, <2>2, <2>3, PrefixAgrees
  <2>5. IsPrefix(journal', journal) BY <1>1, <2>3, <2>4, PrefixIsAgreement
  <2>6. raw' \in {NoFile, raw} /\ summary' \in {NoFile, summary} BY <1>5 DEF PowerLoss
  <2> QED BY <2>1, <2>5, <2>6
<1> QED BY <1>3, <1>4, <1>5, WhatAStepWrites

(* Immutable: records and published files are never rewritten.             *)
THEOREM AlwaysImmutable == Spec => Immutable
<1>1. Inv /\ [Next]_vars =>
          [/\ losses' = losses => /\ IsPrefix(journal, journal')
                                 /\ raw \in {NoFile, raw'}
                                 /\ summary \in {NoFile, summary'}
           /\ IsPrefix(journal', journal) \/ IsPrefix(journal, journal')
           /\ raw = raw' \/ NoFile \in {raw, raw'}
           /\ summary = summary' \/ NoFile \in {summary, summary'}]_vars
      BY StepsAreImmutable
<1> QED BY <1>1, SpecInv, PTL DEF Spec, Immutable

-----------------------------------------------------------------------------
(* Replacements of artifacts.  Runner r sees x replaced as long as its     *)
(* snapshot of x is not the stamp of x.  A replacement is never unseen,    *)
(* since stamps grow; a run with other bytes has an artifact that its      *)
(* runner sees replaced from then on.                                      *)
Replaced(r, x) == stamp[x] # snapshot[r][x]

Foreign(run, r) == run.used = "other" /\ run.invocation = own[r]

Fingerprints ==
    \A r \in Runner : \A x \in Artifact :
        pc[r] # "off" =>
            /\ snapshot[r][x] <= stamp[x]
            /\ ~Replaced(r, x) => content[x] = "frozen"

LastOfItsKind(runs) ==
    \A i, k \in 1..Len(runs) :
        /\ i < k /\ runs[i].used = "other" /\ runs[i].invocation = runs[k].invocation
        => ~(Uses[i - 1] \subseteq Uses[k - 1])

Watched(r, runs) ==
    /\ \A i \in 1..Len(runs) : Foreign(runs[i], r) => \E x \in Uses[i - 1] : Replaced(r, x)
    /\ \/ pc[r] \in {"checked", "running"}
       \/ pc[r] = "appending" /\ pending[r].kind = "run"
       => \A i \in 1..Len(runs) : Foreign(runs[i], r) => ~(Uses[i - 1] \subseteq Uses[Len(runs)])
    /\ pc[r] = "running" => pending[r].kind = "run"
    /\ pc[r] \in {"running", "appending"} /\ pending[r].kind = "run" =>
           /\ pending[r].invocation = own[r]
           /\ pending[r].used = "other" => \E x \in Uses[Len(runs)] : Replaced(r, x)
    /\ pc[r] \in {"raw renamed", "raw published", "summary renamed"} =>
           \A i \in 1..Len(runs) : ~Foreign(runs[i], r)

Unnumbered ==
    \A r \in Runner : pc[r] \in {"off", "verified", "loaded"} => own[r] = NoInvocation

DriftInv ==
    /\ Fingerprints /\ Unnumbered
    /\ LastOfItsKind(Runs(journal))
    /\ \A r \in Runner : holder = r => Watched(r, Runs(journal))

(* What is known of the runs in the journal.                               *)
LEMMA JournalRuns ==
    ASSUME Inv
    PROVE  /\ Runs(journal) \in Seq(Record) /\ Len(Runs(journal)) \in Nat
           /\ Len(Runs(journal)) <= JobCount
           /\ \A i \in 1..Len(Runs(journal)) :
                  /\ Runs(journal)[i] \in Record
                  /\ Runs(journal)[i].invocation \in Nat
                  /\ Runs(journal)[i].invocation # NoInvocation
                  /\ Uses[i - 1] \subseteq Artifact
                  /\ Runs(journal)[i].invocation < Len(Invocations(journal))
           /\ Len(Runs(journal)) < JobCount => Uses[Len(Runs(journal))] \subseteq Artifact
<1>1. journal \in Seq(Record) /\ Loads(journal) BY DEF Inv, TypeOK
<1>2. Runs(journal) \in Seq(Record) /\ Len(Runs(journal)) \in Nat
      BY <1>1, RunsType, LenProperties
<1>3. /\ Len(Runs(journal)) <= JobCount
      /\ \A i \in 1..Len(Runs(journal)) : Runs(journal)[i].invocation < Len(Invocations(journal))
      BY <1>1, LoadedRuns
<1>4. \A i \in 1..Len(Runs(journal)) : Runs(journal)[i] \in Record BY <1>2, ElementOfSeq
<1>5. \A e \in Record : e.invocation \in Nat /\ e.invocation # NoInvocation
      BY DEF Record, NoInvocation
<1>6. \A n \in Nat : n < JobCount => Uses[n] \subseteq Artifact
      BY CampaignAssumption
<1>7. \A i \in 1..Len(Runs(journal)) : Uses[i - 1] \subseteq Artifact
      BY <1>2, <1>3, <1>6, CampaignAssumption
<1> QED BY <1>2, <1>3, <1>4, <1>5, <1>6, <1>7

(* DriftInv holds before the first runner.                                 *)
LEMMA InitDrift == Init => DriftInv
<1> SUFFICES ASSUME Init PROVE DriftInv OBVIOUS
<1>1. Fingerprints BY DEF Init, Fingerprints
<1>2. Runs(journal) = << >> BY OfEmpty DEF Init, Runs, Of
<1>3. LastOfItsKind(Runs(journal)) BY <1>2 DEF LastOfItsKind
<1>4. \A r \in Runner : holder # r BY CampaignAssumption DEF Init
<1>5. Unnumbered BY DEF Init, Unnumbered
<1> QED BY <1>1, <1>3, <1>4, <1>5 DEF DriftInv

(* A process that ends, and whose memory goes with it.                     *)
LEMMA ExitDrift ==
    ASSUME Inv, DriftInv, NEW r \in Runner, Exit(r), UNCHANGED <<content, stamp, journal>>
    PROVE  DriftInv'
<1>1. \A t \in Runner : t # r => UNCHANGED <<pc[t], snapshot[t], own[t], pending[t]>>
      BY DEF Exit, Goto, Inv, TypeOK
<1>2. pc'[r] = "off" BY DEF Exit, Goto, Inv, TypeOK
<1>3. Fingerprints'
  <2> SUFFICES ASSUME NEW t \in Runner, NEW x \in Artifact, pc'[t] # "off"
               PROVE  /\ snapshot'[t][x] <= stamp'[x]
                      /\ stamp'[x] = snapshot'[t][x] => content'[x] = "frozen"
      BY DEF Fingerprints, Replaced
  <2>1. t # r BY <1>2
  <2> QED BY <1>1, <2>1 DEF DriftInv, Fingerprints, Replaced
<1>4. LastOfItsKind(Runs(journal))' BY DEF DriftInv, LastOfItsKind
<1>5. \A t \in Runner : holder' = t => Watched(t, Runs(journal))'
  <2> SUFFICES ASSUME NEW t \in Runner, holder' = t PROVE Watched(t, Runs(journal))'
      OBVIOUS
  <2>1. t # r /\ holder = t BY CampaignAssumption DEF Exit
  <2>2. Watched(t, Runs(journal)) BY <2>1 DEF DriftInv
  <2>3. UNCHANGED <<pc[t], snapshot[t], own[t], pending[t], stamp, Runs(journal)>>
        BY <1>1, <2>1
  <2> QED BY <2>2, <2>3 DEF Watched, Foreign, Replaced
<1>6. Unnumbered'
  <2>1. own'[r] = NoInvocation BY DEF Exit, Inv, TypeOK
  <2> QED BY <1>1, <2>1 DEF DriftInv, Unnumbered
<1> QED BY <1>3, <1>4, <1>5, <1>6 DEF DriftInv

(* A step of the holder that touches neither artifacts nor journal.        *)
LEMMA HolderDrift ==
    ASSUME Inv, DriftInv, NEW r \in Runner, holder = r, holder' = r,
           NEW place \in Place \ {"off", "verified", "loaded"}, Goto(r, place),
           UNCHANGED <<content, stamp, snapshot, journal>>,
           \A t \in Runner : t # r => own'[t] = own[t],
           Watched(r, Runs(journal))'
    PROVE  DriftInv'
<1>1. Fingerprints'
  <2> SUFFICES ASSUME NEW t \in Runner, NEW x \in Artifact, pc'[t] # "off"
               PROVE  /\ snapshot[t][x] <= stamp[x]
                      /\ stamp[x] = snapshot[t][x] => content[x] = "frozen"
      BY DEF Fingerprints, Replaced
  <2>1. pc[r] # "off" BY DEF Inv, LockInv, Past
  <2>2. t # r => pc'[t] = pc[t] BY DEF Goto, Inv, TypeOK
  <2> QED BY <2>1, <2>2 DEF DriftInv, Fingerprints, Replaced
<1>2. LastOfItsKind(Runs(journal))' BY DEF DriftInv, LastOfItsKind
<1>3. Unnumbered'
  <2>1. \A t \in Runner : pc'[t] = IF t = r THEN place ELSE pc[t] BY DEF Goto, Inv, TypeOK
  <2> QED BY <2>1 DEF DriftInv, Unnumbered
<1> QED BY <1>1, <1>2, <1>3 DEF DriftInv

(* Every action keeps it.                                                  *)
LEMMA LaunchDrift ==
    ASSUME Inv, DriftInv, NEW r \in Runner, Launch(r)
    PROVE  DriftInv'
<1> USE DEF Launch, shared
<1>1. /\ \A t \in Runner : pc'[t] = IF t = r THEN "verified" ELSE pc[t]
      /\ \A t \in Runner : snapshot'[t] = IF t = r THEN stamp ELSE snapshot[t]
      BY DEF Goto, Inv, TypeOK
<1>2. holder # r BY DEF Inv, LockInv, Past
<1>3. Fingerprints'
  <2> SUFFICES ASSUME NEW t \in Runner, NEW x \in Artifact, pc'[t] # "off"
               PROVE  /\ snapshot'[t][x] <= stamp[x]
                      /\ stamp[x] = snapshot'[t][x] => content[x] = "frozen"
      BY DEF Fingerprints, Replaced
  <2>1. CASE t = r
    <3>1. snapshot'[t][x] = stamp[x] /\ stamp[x] \in Nat BY <1>1, <2>1 DEF Inv, TypeOK
    <3> QED BY <3>1
  <2>2. CASE t # r BY <1>1, <2>2 DEF DriftInv, Fingerprints, Replaced
  <2> QED BY <2>1, <2>2
<1>4. LastOfItsKind(Runs(journal))' BY DEF DriftInv, LastOfItsKind
<1>5. \A t \in Runner : holder' = t => Watched(t, Runs(journal))'
  <2> SUFFICES ASSUME NEW t \in Runner, holder' = t PROVE Watched(t, Runs(journal))'
      OBVIOUS
  <2>1. t # r /\ Watched(t, Runs(journal)) BY <1>2 DEF DriftInv
  <2>2. UNCHANGED <<pc[t], snapshot[t], own[t], pending[t], stamp, Runs(journal)>>
        BY <1>1, <2>1
  <2> QED BY <2>1, <2>2 DEF Watched, Foreign, Replaced
<1>6. Unnumbered' BY <1>1 DEF DriftInv, Unnumbered
<1> QED BY <1>3, <1>4, <1>5, <1>6 DEF DriftInv

(* Opening the journal runs nothing.                                       *)
LEMMA OpenDrift ==
    ASSUME Inv, DriftInv, NEW r \in Runner, Open(r)
    PROVE  DriftInv'
<1> USE DEF Open, artifacts, file
<1>1. CASE Exit(r) BY <1>1, ExitDrift
<1>2. CASE holder' = r /\ Goto(r, "loaded") /\ UNCHANGED <<snapshot, own, pending>>
  <2>1. \A t \in Runner : pc'[t] = IF t = r THEN "loaded" ELSE pc[t]
        BY <1>2 DEF Goto, Inv, TypeOK
  <2>2. Fingerprints' BY <1>2, <2>1 DEF DriftInv, Fingerprints, Replaced
  <2>3. Unnumbered' BY <1>2, <2>1 DEF DriftInv, Unnumbered
  <2>4. LastOfItsKind(Runs(journal))' BY DEF DriftInv, LastOfItsKind
  <2>5. own'[r] = NoInvocation BY <1>2 DEF DriftInv, Unnumbered
  <2>6. \A i \in 1..Len(Runs(journal)) : Runs(journal)[i].invocation # NoInvocation
        BY JournalRuns
  <2>7. Watched(r, Runs(journal))' BY <2>1, <2>5, <2>6 DEF Watched, Foreign
  <2> QED BY <1>2, <2>2, <2>3, <2>4, <2>7 DEF DriftInv
<1> QED BY <1>1, <1>2

(* A new invocation has no run yet.                                        *)
LEMMA BeginDrift ==
    ASSUME Inv, DriftInv, NEW r \in Runner, Begin(r)
    PROVE  DriftInv'
<1> USE DEF Begin, artifacts, file
<1>1. holder = r /\ AtWork(r) /\ journal = view[r] BY ActorIsHolder DEF AtWork
<1>2. CASE Exit(r) BY <1>2, ExitDrift
<1>3. CASE Goto(r, "finishing") /\ UNCHANGED <<holder, snapshot, own, view, pending>>
  <2>1. pc'[r] = "finishing" /\ own'[r] = NoInvocation
        BY <1>3 DEF Goto, Inv, TypeOK, DriftInv, Unnumbered
  <2>2. \A i \in 1..Len(Runs(journal)) : Runs(journal)[i].invocation # NoInvocation
        BY JournalRuns
  <2>3. Watched(r, Runs(journal))' BY <2>1, <2>2 DEF Watched, Foreign
  <2> QED BY <1>1, <1>3, <2>3, HolderDrift DEF Place
<1>4. CASE /\ Goto(r, "appending")
           /\ own' = [own EXCEPT ![r] = Len(Invocations(view[r]))]
           /\ pending' = [pending EXCEPT ![r] = NewInvocation(view[r])]
           /\ UNCHANGED <<holder, snapshot, view>>
  <2>1. /\ pc'[r] = "appending" /\ own'[r] = Len(Invocations(journal))
        /\ pending'[r].kind = "invocation"
        /\ \A t \in Runner : t # r => own'[t] = own[t]
        BY <1>1, <1>4 DEF Goto, Inv, TypeOK, NewInvocation
  <2>2. \A i \in 1..Len(Runs(journal)) :
            Runs(journal)[i].invocation # Len(Invocations(journal))
    <3>1. \A i \in 1..Len(Runs(journal)) : Runs(journal)[i].invocation \in Nat
          BY JournalRuns
    <3>2. Len(Invocations(journal)) \in Nat BY OfType DEF Invocations, Of, Inv, TypeOK
    <3> QED BY <3>1, <3>2, JournalRuns
  <2>3. Watched(r, Runs(journal))' BY <2>1, <2>2 DEF Watched, Foreign
  <2> QED BY <1>1, <1>4, <2>1, <2>3, HolderDrift DEF Place
<1> QED BY <1>2, <1>3, <1>4

(* A job is started only if its artifacts are not seen replaced.           *)
LEMMA CheckJobDrift ==
    ASSUME Inv, DriftInv, NEW r \in Runner, CheckJob(r)
    PROVE  DriftInv'
<1> USE DEF CheckJob, artifacts, file
<1>1. holder = r /\ AtWork(r) /\ journal = view[r] /\ Watched(r, Runs(journal))
      BY ActorIsHolder DEF AtWork, DriftInv
<1>2. CASE Exit(r) BY <1>2, ExitDrift
<1>3. CASE /\ \A x \in NextUses(r) : stamp[x] = snapshot[r][x]
           /\ Goto(r, "checked")
           /\ UNCHANGED <<holder, snapshot, own, view, pending>>
  <2>1. pc'[r] = "checked" BY <1>3 DEF Goto, Inv, TypeOK
  <2>2. \A x \in Uses[Len(Runs(journal))] : ~Replaced(r, x)
        BY <1>1, <1>3 DEF NextUses, Replaced
  <2>3. \A i \in 1..Len(Runs(journal)) : Foreign(Runs(journal)[i], r) =>
            ~(Uses[i - 1] \subseteq Uses[Len(Runs(journal))])
        BY <1>1, <2>2 DEF Watched
  <2>4. UNCHANGED <<snapshot, own, pending, stamp, Runs(journal)>> BY <1>3
  <2>5. Watched(r, Runs(journal))' BY <1>1, <2>1, <2>3, <2>4 DEF Watched, Foreign, Replaced
  <2> QED BY <1>1, <1>3, <2>5, HolderDrift DEF Place
<1> QED BY <1>2, <1>3

(* A run with other bytes has an artifact that its runner sees replaced.   *)
LEMMA SpawnJobDrift ==
    ASSUME Inv, DriftInv, NEW r \in Runner, SpawnJob(r)
    PROVE  DriftInv'
<1> USE DEF SpawnJob, shared
<1>1. holder = r /\ AtWork(r) /\ journal = view[r] /\ Watched(r, Runs(journal))
      BY ActorIsHolder DEF AtWork, DriftInv
<1>2. PICK with \in Content :
          /\ pending' = [pending EXCEPT ![r] = NewRun(view[r], own[r], with)]
          /\ with = "other" => \E x \in NextUses(r) : content[x] # "frozen"
      BY DEF Content
<1>3. /\ pc'[r] = "running" /\ pending'[r].kind = "run" /\ pending'[r].invocation = own[r]
      /\ pending'[r].used = with
      BY <1>2 DEF Goto, Inv, TypeOK, NewRun
<1>4. with = "other" => \E x \in Uses[Len(Runs(journal))] : Replaced(r, x)
  <2>1. Len(Runs(journal)) < JobCount
        BY <1>1, JournalRuns, CampaignAssumption DEF AtWork, Complete
  <2>2. Uses[Len(Runs(journal))] \subseteq Artifact BY <2>1, JournalRuns
  <2>3. \A x \in Artifact : content[x] # "frozen" => Replaced(r, x)
        BY DEF DriftInv, Fingerprints
  <2> QED BY <1>1, <1>2, <2>2, <2>3 DEF NextUses
<1>5. UNCHANGED <<snapshot, own, stamp, Runs(journal)>> OBVIOUS
<1>6. Watched(r, Runs(journal))'
      BY <1>1, <1>3, <1>4, <1>5 DEF Watched, Foreign, Replaced
<1> QED BY <1>1, <1>6, HolderDrift DEF Place

(* The record says what the job was run with.                              *)
LEMMA EndJobDrift ==
    ASSUME Inv, DriftInv, NEW r \in Runner, EndJob(r)
    PROVE  DriftInv'
<1> USE DEF EndJob, shared
<1>1. holder = r /\ Watched(r, Runs(journal)) BY ActorIsHolder DEF DriftInv
<1>2. pc'[r] = "appending" BY DEF Goto, Inv, TypeOK
<1>3. UNCHANGED <<snapshot, own, pending, stamp, Runs(journal)>> OBVIOUS
<1>4. Watched(r, Runs(journal))' BY <1>1, <1>2, <1>3 DEF Watched, Foreign, Replaced
<1> QED BY <1>1, <1>4, HolderDrift DEF Place

(* A run is recorded: if it is foreign its runner sees an artifact replaced,*)
(* and it used none of those that an earlier foreign run was made with.    *)
LEMMA WriteRecordDrift ==
    ASSUME Inv, DriftInv, NEW r \in Runner, WriteRecord(r)
    PROVE  DriftInv'
<1> USE DEF WriteRecord, artifacts
<1>1. /\ holder = r /\ journal = view[r] /\ Watched(r, Runs(journal))
      /\ pending[r] \in Record /\ journal \in Seq(Record)
      BY ActorIsHolder DEF AtWork, Prepared, DriftInv, Inv, TypeOK
<1> DEFINE old == Runs(journal)
           new == Runs(journal)'
           n == Len(old)
<1>2. new = IF pending[r].kind = "run" THEN Append(old, pending[r]) ELSE old
      BY <1>1, OfAppend DEF Runs, Of
<1>3. /\ old \in Seq(Record) /\ n \in Nat /\ LastOfItsKind(old)
      /\ \A i \in 1..n : old[i].invocation \in Nat
      BY JournalRuns DEF DriftInv
<1>4. \A t \in Runner : pc'[t] = IF t = r THEN "syncing" ELSE pc[t] BY DEF Goto, Inv, TypeOK
<1>5. Fingerprints' /\ Unnumbered'
      BY <1>4 DEF DriftInv, Fingerprints, Unnumbered, Replaced
<1> HIDE DEF new
<1>6. LastOfItsKind(new) /\ \A i \in 1..Len(new) :
          Foreign(new[i], r) => \E x \in Uses[i - 1] : Replaced(r, x)
  <2>1. \A i \in 1..n : Foreign(old[i], r) => \E x \in Uses[i - 1] : Replaced(r, x)
        BY <1>1 DEF Watched
  <2>2. CASE pending[r].kind # "run" BY <2>1, <2>2, <1>2, <1>3
  <2>3. CASE pending[r].kind = "run"
    <3>1. /\ Len(new) = n + 1 /\ new[n + 1] = pending[r]
          /\ \A i \in 1..n : new[i] = old[i]
          BY <1>1, <1>2, <1>3, <2>3, AppendProperties
    <3>2. /\ pending[r].invocation = own[r]
          /\ pending[r].used = "other" => \E x \in Uses[n] : Replaced(r, x)
          /\ \A i \in 1..n : Foreign(old[i], r) => ~(Uses[i - 1] \subseteq Uses[n])
          BY <1>1, <2>3 DEF Watched
    <3> HIDE DEF old, n
    <3>3. ASSUME NEW i \in 1..Len(new), Foreign(new[i], r)
          PROVE  \E x \in Uses[i - 1] : Replaced(r, x)
      <4>1. CASE i = n + 1 BY <4>1, <3>1, <3>2, <3>3, <1>3 DEF Foreign
      <4>2. CASE i \in 1..n BY <4>2, <3>1, <3>3, <2>1
      <4> QED BY <4>1, <4>2, <3>1, <1>3
    <3>4. ASSUME NEW i \in 1..Len(new), NEW k \in 1..Len(new),
                 i < k, new[i].used = "other", new[i].invocation = new[k].invocation
          PROVE  ~(Uses[i - 1] \subseteq Uses[k - 1])
      <4>1. i \in 1..n /\ new[i] = old[i] BY <3>1, <3>4, <1>3
      <4>2. CASE k = n + 1
        <5>1. Foreign(old[i], r) BY <4>1, <4>2, <3>1, <3>2, <3>4 DEF Foreign
        <5>2. k - 1 = n BY <4>2, <1>3
        <5> QED BY <4>1, <5>1, <5>2, <3>2
      <4>3. CASE k \in 1..n
        <5>1. new[k] = old[k] BY <4>3, <3>1
        <5> QED BY <4>1, <4>3, <5>1, <3>4, <1>3 DEF LastOfItsKind, n
      <4> QED BY <4>2, <4>3, <3>1, <1>3
    <3> QED BY <3>3, <3>4 DEF LastOfItsKind
  <2> QED BY <2>2, <2>3
<1>7. pc'[r] = "syncing" /\ UNCHANGED <<stamp, snapshot, own, pending, holder>> BY <1>4
<1>8. Watched(r, Runs(journal))' BY <1>6, <1>7 DEF new, Watched, Foreign, Replaced
<1>9. LastOfItsKind(Runs(journal))' BY <1>6 DEF new, LastOfItsKind
<1> QED BY <1>1, <1>5, <1>7, <1>8, <1>9 DEF DriftInv

(* The record becomes the last of its invocation.                          *)
LEMMA SyncRecordDrift ==
    ASSUME Inv, DriftInv, NEW r \in Runner, SyncRecord(r)
    PROVE  DriftInv'
<1> USE DEF SyncRecord, artifacts
<1>1. holder = r /\ Watched(r, Runs(journal)) BY ActorIsHolder DEF DriftInv
<1> DEFINE place == IF Complete(view'[r]) THEN "finishing" ELSE "ready"
<1>2. Goto(r, place) /\ pc'[r] = place BY DEF Goto, Inv, TypeOK
<1>3. place \in {"finishing", "ready"} OBVIOUS
<1> HIDE DEF place
<1>4. UNCHANGED <<snapshot, own, stamp, Runs(journal)>> OBVIOUS
<1>5. Watched(r, Runs(journal))' BY <1>1, <1>2, <1>3, <1>4 DEF Watched, Foreign, Replaced
<1> QED BY <1>1, <1>2, <1>3, <1>5, HolderDrift DEF Place

(* assert_all_unchanged passes only if no run of this invocation is foreign.*)
LEMMA PublishRawDrift ==
    ASSUME Inv, DriftInv, NEW r \in Runner, PublishRaw(r)
    PROVE  DriftInv'
<1> USE DEF PublishRaw, artifacts, file
<1>1. holder = r /\ Watched(r, Runs(journal)) BY ActorIsHolder DEF DriftInv
<1>2. CASE Exit(r) BY <1>2, ExitDrift
<1>3. ASSUME NEW place \in {"raw renamed", "raw published"}, Goto(r, place),
             stamp = snapshot[r], UNCHANGED <<holder, snapshot, own, view, pending>>
      PROVE  DriftInv'
  <2>1. pc'[r] = place BY <1>3 DEF Goto, Inv, TypeOK
  <2>2. \A i \in 1..Len(Runs(journal)) : ~Foreign(Runs(journal)[i], r)
        BY <1>1, <1>3 DEF Watched, Replaced
  <2>3. UNCHANGED <<snapshot, own, stamp, Runs(journal)>> BY <1>3
  <2>4. Watched(r, Runs(journal))' BY <1>3, <2>1, <2>2, <2>3 DEF Watched, Foreign
  <2> QED BY <1>1, <1>3, <2>4, HolderDrift DEF Place
<1>4. CASE ~Exit(r)
  <2>1. \/ Goto(r, "raw renamed") \/ Goto(r, "raw published") BY <1>4
  <2>2. stamp = snapshot[r] /\ UNCHANGED <<holder, snapshot, own, view, pending>> BY <1>4
  <2> QED BY <1>3, <2>1, <2>2
<1> QED BY <1>2, <1>4

(* The publication goes on.                                                *)
LEMMA SyncRawDrift ==
    ASSUME Inv, DriftInv, NEW r \in Runner, SyncRaw(r)
    PROVE  DriftInv'
<1> USE DEF SyncRaw, artifacts, file
<1>1. holder = r /\ Watched(r, Runs(journal)) BY ActorIsHolder DEF DriftInv
<1>2. pc'[r] = "raw published" BY DEF Goto, Inv, TypeOK
<1>3. UNCHANGED <<snapshot, own, pending, stamp, Runs(journal)>> OBVIOUS
<1>4. Watched(r, Runs(journal))' BY <1>1, <1>2, <1>3 DEF Watched, Foreign, Replaced
<1> QED BY <1>1, <1>4, HolderDrift DEF Place

(* The publication goes on.                                                *)
LEMMA PublishSummaryDrift ==
    ASSUME Inv, DriftInv, NEW r \in Runner, PublishSummary(r)
    PROVE  DriftInv'
<1> USE DEF PublishSummary, artifacts, file
<1>1. holder = r /\ Watched(r, Runs(journal)) BY ActorIsHolder DEF DriftInv
<1>2. CASE Exit(r) BY <1>2, ExitDrift
<1>3. CASE Goto(r, "summary renamed") /\ UNCHANGED <<holder, snapshot, own, view, pending>>
  <2>1. pc'[r] = "summary renamed" BY <1>3 DEF Goto, Inv, TypeOK
  <2>2. UNCHANGED <<snapshot, own, pending, stamp, Runs(journal)>> BY <1>3
  <2>3. Watched(r, Runs(journal))' BY <1>1, <2>1, <2>2 DEF Watched, Foreign, Replaced
  <2> QED BY <1>1, <1>3, <2>3, HolderDrift DEF Place
<1> QED BY <1>2, <1>3

(* A runner that ends is no longer watched.                                *)
LEMMA EndDrift ==
    ASSUME Inv, DriftInv, NEW r \in Runner, SyncSummary(r) \/ ShortWrite(r) \/ Stop(r)
    PROVE  DriftInv'
BY ExitDrift DEF SyncSummary, ShortWrite, Stop, artifacts, file

(* A power loss ends every runner and shortens the journal.                *)
LEMMA PowerLossDrift ==
    ASSUME Inv, DriftInv, PowerLoss
    PROVE  DriftInv'
<1>1. /\ holder' = NoRunner /\ pc' = [r \in Runner |-> "off"]
      /\ own' = [r \in Runner |-> NoInvocation]
      BY DEF PowerLoss
<1>2. PICK kept \in durable..Len(journal) : journal' = SubSeq(journal, 1, kept)
      BY DEF PowerLoss
<1>3. journal \in Seq(Record) /\ kept \in 0..Len(journal)
      BY LenProperties DEF Inv, TypeOK
<1>4. journal' \in Seq(Record) BY <1>2, <1>3, PrefixAgrees
<1>5. IsPrefix(Runs(journal'), Runs(journal)) BY <1>2, <1>3, OfPrefix DEF Runs, Of
<1>6. Runs(journal') \in Seq(Record) /\ Runs(journal) \in Seq(Record) BY <1>3, <1>4, RunsType
<1>7. /\ Len(Runs(journal')) <= Len(Runs(journal))
      /\ Len(Runs(journal')) \in Nat /\ Len(Runs(journal)) \in Nat
      /\ \A i \in 1..Len(Runs(journal')) : Runs(journal')[i] = Runs(journal)[i]
      BY <1>5, <1>6, PrefixIsAgreement, LenProperties
<1>8. LastOfItsKind(Runs(journal')) BY <1>7 DEF DriftInv, LastOfItsKind
<1>9. Fingerprints' /\ Unnumbered' BY <1>1 DEF Fingerprints, Unnumbered
<1> QED BY <1>1, <1>8, <1>9, CampaignAssumption DEF DriftInv

(* Stamps grow, so a replacement that is seen stays seen.                  *)
LEMMA DriftDrift ==
    ASSUME Inv, DriftInv, NEW y \in Artifact, Drift(y)
    PROVE  DriftInv'
<1> USE DEF Drift, file
<1>1. \A x \in Artifact :
          /\ stamp'[x] = IF x = y THEN stamp[x] + 1 ELSE stamp[x]
          /\ x # y => content'[x] = content[x]
          /\ stamp[x] \in Nat
      BY DEF Inv, TypeOK
<1>2. \A r \in Runner : \A x \in Artifact : snapshot[r][x] \in Nat BY DEF Inv, TypeOK
<1>3. Fingerprints'
  <2> SUFFICES ASSUME NEW r \in Runner, NEW x \in Artifact, pc[r] # "off"
               PROVE  /\ snapshot[r][x] <= stamp'[x]
                      /\ stamp'[x] = snapshot[r][x] => content'[x] = "frozen"
      BY DEF Fingerprints, Replaced
  <2>1. /\ snapshot[r][x] <= stamp[x]
        /\ stamp[x] = snapshot[r][x] => content[x] = "frozen"
        BY DEF DriftInv, Fingerprints, Replaced
  <2>2. snapshot[r][x] \in Nat /\ stamp[x] \in Nat BY <1>1, <1>2
  <2>3. CASE x = y
    <3>1. stamp'[x] = stamp[x] + 1 BY <1>1, <2>3
    <3> QED BY <2>1, <2>2, <3>1
  <2>4. CASE x # y
    <3>1. stamp'[x] = stamp[x] /\ content'[x] = content[x] BY <1>1, <2>4
    <3> QED BY <2>1, <3>1
  <2> QED BY <2>3, <2>4
<1>4. \A r \in Runner : \A x \in Artifact : holder = r /\ Replaced(r, x) => Replaced(r, x)'
  <2> SUFFICES ASSUME NEW r \in Runner, NEW x \in Artifact, holder = r, Replaced(r, x)
               PROVE  stamp'[x] # snapshot[r][x]
      BY DEF Replaced
  <2>1. snapshot[r][x] <= stamp[x] BY DEF DriftInv, Fingerprints, Inv, LockInv, Past
  <2>2. snapshot[r][x] \in Nat /\ stamp[x] \in Nat /\ stamp[x] # snapshot[r][x]
        BY <1>1, <1>2 DEF Replaced
  <2>3. stamp'[x] \in {stamp[x], stamp[x] + 1} BY <1>1
  <2> QED BY <2>1, <2>2, <2>3
<1>5. Unnumbered' /\ LastOfItsKind(Runs(journal))'
      BY DEF DriftInv, Unnumbered, LastOfItsKind
<1>6. ASSUME NEW r \in Runner, holder = r PROVE Watched(r, Runs(journal))'
  <2> DEFINE runs == Runs(journal)
  <2>1. Watched(r, runs) BY <1>6 DEF DriftInv
  <2>2. \A i \in 1..Len(runs) : Uses[i - 1] \subseteq Artifact BY JournalRuns
  <2>3. \A i \in 1..Len(runs) : Foreign(runs[i], r) => \E x \in Uses[i - 1] : Replaced(r, x)'
        BY <1>4, <1>6, <2>1, <2>2 DEF Watched
  <2>4. /\ pc[r] \in {"running", "appending"} /\ pending[r].kind = "run"
           /\ pending[r].used = "other"
        => \E x \in Uses[Len(runs)] : Replaced(r, x)'
    <3> SUFFICES ASSUME pc[r] \in {"running", "appending"}, pending[r].kind = "run",
                        pending[r].used = "other"
                 PROVE  \E x \in Uses[Len(runs)] : Replaced(r, x)'
        OBVIOUS
    <3>1. AtWork(r) /\ Prepared(r) /\ journal = view[r] BY <1>6 DEF Inv, HolderInv, AtWork
    <3>2. Len(runs) < JobCount
      <4>1. Len(Of("run", view[r])) = Len(runs) BY <3>1 DEF Runs, Of
      <4>2. pending[r].sequence = Len(runs) /\ pending[r].sequence < JobCount
            BY <3>1, <4>1 DEF Prepared, Fits
      <4> QED BY <4>2
    <3>3. Uses[Len(runs)] \subseteq Artifact BY <3>2, JournalRuns
    <3>4. \E x \in Uses[Len(runs)] : Replaced(r, x) BY <2>1 DEF Watched
    <3> QED BY <1>4, <1>6, <3>3, <3>4
  <2>5. UNCHANGED <<pc, own, pending, runs>> OBVIOUS
  <2> HIDE DEF runs
  <2>6. Watched(r, runs)' BY <2>1, <2>3, <2>4, <2>5 DEF Watched, Foreign
  <2> QED BY <2>6 DEF runs
<1> QED BY <1>3, <1>5, <1>6 DEF DriftInv

(* DriftInv is inductive relative to Inv.                                  *)
LEMMA NextDrift == Inv /\ DriftInv /\ [Next]_vars => DriftInv'
<1> SUFFICES ASSUME Inv, DriftInv, [Next]_vars PROVE DriftInv' OBVIOUS
<1>1. CASE UNCHANGED vars
  <2>1. UNCHANGED <<pc, own, pending, stamp, snapshot, content, holder, Runs(journal)>>
        BY <1>1 DEF vars, shared
  <2>2. Fingerprints' /\ Unnumbered' /\ LastOfItsKind(Runs(journal))'
        BY <2>1 DEF DriftInv, Fingerprints, Unnumbered, LastOfItsKind, Replaced
  <2>3. ASSUME NEW r \in Runner, holder' = r PROVE Watched(r, Runs(journal))'
    <3>1. Watched(r, Runs(journal)) BY <2>1, <2>3 DEF DriftInv
    <3> QED BY <2>1, <3>1 DEF Watched, Foreign, Replaced
  <2> QED BY <2>2, <2>3 DEF DriftInv
<1>2. ASSUME NEW r \in Runner, Launch(r) \/ Run(r) \/ ShortWrite(r) \/ Stop(r)
      PROVE  DriftInv'
      BY <1>2, LaunchDrift, OpenDrift, BeginDrift, CheckJobDrift, SpawnJobDrift, EndJobDrift,
         WriteRecordDrift, SyncRecordDrift, PublishRawDrift, SyncRawDrift,
         PublishSummaryDrift, EndDrift
      DEF Run
<1>3. CASE PowerLoss BY <1>3, PowerLossDrift
<1>4. ASSUME NEW x \in Artifact, Drift(x) PROVE DriftInv' BY <1>4, DriftDrift
<1> QED BY <1>1, <1>2, <1>3, <1>4 DEF Next

(* DriftIsCaught: a replaced artifact is run with at most once in an       *)
(* invocation, which publishes nothing after it.                           *)
THEOREM DriftAlwaysCaught == Spec => []DriftIsCaught
<1>1. Inv /\ DriftInv => DriftIsCaught
  <2> SUFFICES ASSUME Inv, DriftInv PROVE DriftIsCaught OBVIOUS
  <2>1. LastOfItsKind(Runs(journal)) /\ DOMAIN Runs(journal) = 1..Len(Runs(journal))
        BY JournalRuns, LenProperties DEF DriftInv
  <2>2. ASSUME NEW r \in Runner, NEW i \in 1..Len(Runs(journal)),
               pc[r] \in {"raw renamed", "raw published", "summary renamed"}
        PROVE  ~Foreign(Runs(journal)[i], r)
    <3>1. Watched(r, Runs(journal)) BY <2>2, ActorIsHolder DEF DriftInv
    <3> QED BY <2>2, <3>1 DEF Watched
  <2> QED BY <2>1, <2>2 DEF DriftIsCaught, LastOfItsKind, Foreign
<1>2. Spec => []DriftInv
  <2>1. Init /\ Inv => DriftInv BY InitDrift
  <2> QED BY <2>1, InitDrift, NextDrift, SpecInv, PTL DEF Spec
<1> QED BY <1>1, <1>2, SpecInv, PTL
=============================================================================
