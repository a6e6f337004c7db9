---------------------------- MODULE DpllProofs ----------------------------
(***************************************************************************)
(* For every arena, table of atoms, list of clauses and node limit: the    *)
(* search loses no solution (NoSolutionIsLost), propagation ends only when *)
(* the clauses and the theory have both had the last word                  *)
(* (PropagationIsComplete), and the answers sat and unsat are the truth    *)
(* (ImplementsDecision).                                                   *)
(*                                                                         *)
(* The first and the last of these meet at a leaf: an assignment that      *)
(* satisfies every clause and decides every atom is extended to a          *)
(* solution, because the classes of the equalities it asserts are an       *)
(* interpretation of its own making (ClassesAreAModel).  What the theory   *)
(* has settled must still be settled after a unit or a branch on a         *)
(* variable that is no atom, for which the theory is not asked again; and  *)
(* after its own propagation, which adds no consequence (ImpliedIsClosed). *)
(***************************************************************************)
EXTENDS Dpll, FiniteSetTheorems, TLAPS

(* The parts of the invariant speak of one assignment or stack, so that    *)
(* they can be used of the running call and of its callers.                *)
Settled(a, clause) == Sat(a, clause) \/ Cardinality(Open(a, clause)) > 1

TheoryIsDone(a) == ~TheoryRefutes(a) /\ Implied(a) = a

Complete(a, cnf) == TheoryIsDone(a) /\ \A i \in DOMAIN cnf : Settled(a, cnf[i])

Within(a, m) == \A v \in Var : a[v] \in {0, m[v]}

Obeys(m, stack, n) == \A j \in 1..n : m[stack[j].var] = stack[j].value

Occurs(v, clause) == \E k \in DOMAIN clause : VarOf(clause[k]) = v

-----------------------------------------------------------------------------
(* No clause is overlooked: one that is false or unit is still to be       *)
(* looked at, or contains a variable that is.                              *)
Watched ==
    \A i \in DOMAIN clauses :
        \/ Settled(assignment, clauses[i])
        \/ i \in todo
        \/ \E v \in pending : Occurs(v, clauses[i])

Running == pc \in {"enter", "propagate", "choose"}

RunningInv ==
    /\ Running => Watched /\ (~dirty => TheoryIsDone(assignment))
    /\ pc = "choose" => pending = {} /\ todo = {} /\ ~dirty

CallersInv == \A k \in DOMAIN callers : Complete(callers[k].assignment, clauses)

SolutionInv ==
    \A m \in Solutions(clauses) :
        /\ pc # "refuted" /\ Obeys(m, callers, Len(callers)) => Within(assignment, m)
        /\ pc = "refuted" => ~Obeys(m, callers, Len(callers))
        /\ \A k \in DOMAIN callers : Obeys(m, callers, k - 1) =>
               /\ Within(callers[k].assignment, m)
               /\ callers[k].value = -1 => m[callers[k].var] # 1

StartInv ==
    /\ pc = "start" => callers = <<>> /\ todo = {} /\ dirty
    /\ pc # "done" => result = "none" /\ nodes <= NodeLimit

Inv == TypeOK /\ StartInv /\ RunningInv /\ CallersInv /\ SolutionInv

-----------------------------------------------------------------------------
(* The literals of a clause are integers other than zero; their variables  *)
(* are variables.                                                          *)
LEMMA LiteralFacts ==
    ASSUME NEW l \in Literal
    PROVE  /\ l \in Int /\ l # 0
           /\ VarOf(l) \in Var
           /\ l > 0 => VarOf(l) = l
           /\ ~(l > 0) => VarOf(l) = -l
           /\ Var \subseteq Nat \ {0}
  BY ArenaAssumption DEF Literal, Var, VarOf

(* The status of a literal is the value of its variable, signed.           *)
LEMMA StatusFacts ==
    ASSUME NEW l \in Literal, NEW a \in [Var -> Value]
    PROVE  /\ Status(a, l) = IF l > 0 THEN a[VarOf(l)] ELSE -a[VarOf(l)]
           /\ Status(a, l) \in Value
           /\ Status(a, l) = 0 <=> a[VarOf(l)] = 0
  <1>1. a[VarOf(l)] \in Value
    BY LiteralFacts
  <1>2. Status(a, l) = IF l > 0 THEN a[VarOf(l)] ELSE -a[VarOf(l)]
    BY LiteralFacts DEF Status
  <1> QED
    BY <1>1, <1>2 DEF Value

(* Clauses are sequences of literals.                                      *)
LEMMA ClauseFacts ==
    ASSUME TypeOK, NEW i \in DOMAIN clauses
    PROVE  /\ clauses[i] \in Seq(Literal)
           /\ \A k \in DOMAIN clauses[i] :
                  clauses[i][k] \in Literal /\ VarOf(clauses[i][k]) \in Var
  <1>1. clauses \in Seq(Clause)
    BY DpllAssumption DEF TypeOK
  <1>2. clauses[i] \in Clause
    BY <1>1
  <1>3. \A k \in DOMAIN clauses[i] : clauses[i][k] \in Literal
    BY <1>2 DEF Clause
  <1> QED
    BY <1>2, <1>3, LiteralFacts DEF Clause

(* Only the values of the variables of a clause count for it.              *)
LEMMA SettledFrame ==
    ASSUME NEW clause \in Seq(Literal), NEW a, NEW b,
           \A k \in DOMAIN clause : a[VarOf(clause[k])] = b[VarOf(clause[k])]
    PROVE  /\ Sat(a, clause) <=> Sat(b, clause)
           /\ Open(a, clause) = Open(b, clause)
           /\ Settled(a, clause) <=> Settled(b, clause)
  <1>1. ASSUME NEW k \in DOMAIN clause
        PROVE  Status(a, clause[k]) = Status(b, clause[k])
    <2>1. clause[k] \in Literal
      OBVIOUS
    <2> QED
      BY <2>1, LiteralFacts DEF Status
  <1>2. Sat(a, clause) <=> Sat(b, clause)
    BY <1>1 DEF Sat
  <1>3. Open(a, clause) = Open(b, clause)
    BY <1>1 DEF Open
  <1> QED
    BY <1>2, <1>3 DEF Settled

-----------------------------------------------------------------------------
(* Atoms are over terms.                                                   *)
LEMMA AtomFacts ==
    ASSUME NEW v \in Var
    PROVE  /\ Atoms[v].kind \in {"Eq", "BoolTerm", "None"}
           /\ Atoms[v].left \in Term /\ Atoms[v].right \in Term
  <1>1. Atoms[v] \in Atom
    BY DpllAssumption
  <1> QED
    BY <1>1 DEF Atom

(* What each kind of atom asserts.                                         *)
LEMMA AssertedFacts ==
    ASSUME NEW v \in Var, NEW a
    PROVE  /\ Atoms[v].kind = "None" => AssertedBy(a, v) = {}
           /\ Atoms[v].kind = "Eq" =>
                  AssertedBy(a, v) = IF a[v] = 1 THEN {<<Atoms[v].left, Atoms[v].right>>} ELSE {}
           /\ Atoms[v].kind = "BoolTerm" /\ a[v] = 1 =>
                  AssertedBy(a, v) = {<<Atoms[v].left, TrueTerm>>}
           /\ Atoms[v].kind = "BoolTerm" /\ a[v] = -1 =>
                  AssertedBy(a, v) = {<<Atoms[v].left, FalseTerm>>}
           /\ Atoms[v].kind = "BoolTerm" /\ a[v] = 0 => AssertedBy(a, v) = {}
  BY DEF AssertedBy

(* The theory looks at the atoms only.                                     *)
LEMMA TheoryFrame ==
    ASSUME NEW a \in [Var -> Value], NEW b \in [Var -> Value],
           \A v \in Var : IsAtom(v) => a[v] = b[v],
           TheoryIsDone(a)
    PROVE  TheoryIsDone(b)
  <1>1. \A v \in Var : AssertedBy(a, v) = AssertedBy(b, v)
    <2> TAKE v \in Var
    <2>1. CASE IsAtom(v)
      BY <2>1, a[v] = b[v] DEF AssertedBy
    <2>2. CASE ~IsAtom(v)
      BY <2>2, AssertedFacts DEF IsAtom
    <2> QED
      BY <2>1, <2>2
  <1>2. Models(a) = Models(b)
    BY <1>1 DEF Models
  <1>3. DeniedBy(a) = DeniedBy(b)
    BY DEF DeniedBy, IsAtom
  <1>4. ~TheoryRefutes(b)
    BY <1>2, <1>3 DEF TheoryIsDone, TheoryRefutes
  <1>5. \A v \in Var : /\ MustHold(a, Models(a), v) <=> MustHold(b, Models(b), v)
                       /\ MustFail(a, Models(a), v) <=> MustFail(b, Models(b), v)
    BY <1>2, <1>3 DEF MustHold, MustFail
  <1>6. Implied(b) = b
    <2>1. ASSUME NEW v \in Var PROVE Implied(b)[v] = b[v]
      <3>1. CASE IsAtom(v)
        <4>1. a[v] = b[v] /\ Implied(a)[v] = a[v]
          BY <3>1 DEF TheoryIsDone
        <4> QED
          BY <4>1, <1>5 DEF Implied
      <3>2. CASE ~IsAtom(v)
        <4>1. ~MustHold(b, Models(b), v) /\ ~MustFail(b, Models(b), v)
          BY <3>2 DEF IsAtom, MustHold, MustFail
        <4>2. b[v] \in Value
          OBVIOUS
        <4> QED
          BY <4>1, <4>2 DEF Implied
      <3> QED
        BY <3>1, <3>2
    <2>2. Implied(b) = [v \in Var |-> Implied(b)[v]]
      BY DEF Implied
    <2> QED
      BY <2>1, <2>2
  <1> QED
    BY <1>4, <1>6 DEF TheoryIsDone

(* The values the theory gives are values, and it takes none back.         *)
LEMMA ImpliedFacts ==
    ASSUME NEW a \in [Var -> Value]
    PROVE  /\ Implied(a) \in [Var -> Value]
           /\ \A v \in Var : a[v] # 0 => Implied(a)[v] = a[v]
           /\ \A v \in Var : a[v] = 0 =>
                 /\ MustHold(a, Models(a), v) => Implied(a)[v] = 1
                 /\ Implied(a)[v] = 1 => MustHold(a, Models(a), v)
                 /\ Implied(a)[v] = -1 => MustFail(a, Models(a), v)
                 /\ Implied(a)[v] = 0 => ~MustHold(a, Models(a), v) /\ ~MustFail(a, Models(a), v)
  <1>1. \A v \in Var : a[v] \in Value
    OBVIOUS
  <1> QED
    BY <1>1 DEF Implied, Value

(* Two terms equal in all of some interpretations.                         *)
LEMMA EqualFacts ==
    ASSUME NEW models, NEW s, NEW t, NEW u
    PROVE  /\ Equal(models, s, s)
           /\ Equal(models, s, t) => Equal(models, t, s)
           /\ Equal(models, s, t) /\ Equal(models, t, u) => Equal(models, s, u)
  BY DEF Equal

(* What the theory implies has no new consequences.                        *)
LEMMA ImpliedKeepsModels ==
    ASSUME NEW a \in [Var -> Value]
    PROVE  Models(Implied(a)) = Models(a)
  <1> DEFINE b == Implied(a)
  <1>1. b \in [Var -> Value]
    BY ImpliedFacts
  <1> HIDE DEF b
  <1>2. ASSUME NEW v \in Var, a[v] # 0 PROVE AssertedBy(b, v) = AssertedBy(a, v)
    <2>1. b[v] = a[v]
      BY <1>2, ImpliedFacts DEF b
    <2> QED
      BY <2>1 DEF AssertedBy
  <1>3. ASSUME NEW v \in Var, a[v] = 0 PROVE AssertedBy(a, v) = {}
    BY <1>3, AtomFacts, AssertedFacts
  <1>4. ASSUME NEW v \in Var, a[v] = 0, NEW V \in Models(a), NEW pair \in AssertedBy(b, v)
        PROVE  V[pair[1]] = V[pair[2]]
    <2>1. b[v] \in {-1, 0, 1}
      BY <1>1 DEF Value
    <2>2. CASE Atoms[v].kind = "Eq" /\ b[v] = 1
      <3>1. MustHold(a, Models(a), v)
        BY <1>4, <2>2, ImpliedFacts DEF b
      <3>2. Equal(Models(a), Atoms[v].left, Atoms[v].right)
        BY <2>2, <3>1 DEF MustHold
      <3>3. pair = <<Atoms[v].left, Atoms[v].right>>
        BY <1>4, <2>2 DEF AssertedBy
      <3> QED
        BY <1>4, <3>2, <3>3 DEF Equal
    <2>3. CASE Atoms[v].kind = "BoolTerm" /\ b[v] = 1
      <3>1. MustHold(a, Models(a), v)
        BY <1>4, <2>3, ImpliedFacts DEF b
      <3>2. Equal(Models(a), Atoms[v].left, TrueTerm)
        BY <2>3, <3>1 DEF MustHold
      <3>3. pair = <<Atoms[v].left, TrueTerm>>
        BY <1>4, <2>3 DEF AssertedBy
      <3> QED
        BY <1>4, <3>2, <3>3 DEF Equal
    <2>4. CASE Atoms[v].kind = "BoolTerm" /\ b[v] = -1
      <3>1. MustFail(a, Models(a), v)
        BY <1>4, <2>4, ImpliedFacts DEF b
      <3>2. Equal(Models(a), Atoms[v].left, FalseTerm)
        BY <2>4, <3>1 DEF MustFail
      <3>3. pair = <<Atoms[v].left, FalseTerm>>
        BY <1>4, <2>4 DEF AssertedBy
      <3> QED
        BY <1>4, <3>2, <3>3 DEF Equal
    <2> QED
      BY <1>4, <2>1, <2>2, <2>3, <2>4, AtomFacts, AssertedFacts
  <1>5. ASSUME NEW V \in Models(b) PROVE V \in Models(a)
    <2>1. V \in Interpretations
      BY DEF Models
    <2>2. ASSUME NEW v \in Var, NEW pair \in AssertedBy(a, v) PROVE V[pair[1]] = V[pair[2]]
      <3>1. a[v] # 0
        BY <1>3, <2>2
      <3>2. pair \in AssertedBy(b, v)
        BY <1>2, <2>2, <3>1
      <3> QED
        BY <3>2 DEF Models
    <2> QED
      BY <2>1, <2>2 DEF Models
  <1>6. ASSUME NEW V \in Models(a) PROVE V \in Models(b)
    <2>1. V \in Interpretations
      BY DEF Models
    <2>2. ASSUME NEW v \in Var, NEW pair \in AssertedBy(b, v) PROVE V[pair[1]] = V[pair[2]]
      <3>1. CASE a[v] = 0
        BY <1>4, <2>2, <3>1
      <3>2. CASE a[v] # 0
        <4>1. pair \in AssertedBy(a, v)
          BY <1>2, <2>2, <3>2
        <4> QED
          BY <4>1 DEF Models
      <3> QED
        BY <3>1, <3>2
    <2> QED
      BY <2>1, <2>2 DEF Models
  <1> QED
    BY <1>5, <1>6 DEF b

(* One round of theory propagation is enough: asked again, the theory      *)
(* neither refutes nor adds a value.                                       *)
LEMMA ImpliedIsClosed ==
    ASSUME NEW a \in [Var -> Value], ~TheoryRefutes(a)
    PROVE  TheoryIsDone(Implied(a))
  <1> DEFINE b == Implied(a)
             models == Models(a)
  <1>1. b \in [Var -> Value] /\ Models(b) = models
    BY ImpliedFacts, ImpliedKeepsModels
  <1>2. /\ ~Equal(models, TrueTerm, FalseTerm)
        /\ \A d \in DeniedBy(a) : ~Equal(models, Atoms[d].left, Atoms[d].right)
    BY DEF TheoryRefutes
  <1>3. ASSUME NEW v \in DeniedBy(b)
        PROVE  \/ v \in DeniedBy(a)
               \/ v \in Var /\ a[v] = 0 /\ Atoms[v].kind = "Eq" /\ MustFail(a, models, v)
    <2>1. v \in Var /\ Atoms[v].kind = "Eq" /\ b[v] = -1
      BY DEF DeniedBy
    <2> QED
      BY <2>1, ImpliedFacts DEF DeniedBy
  <1>4. ASSUME NEW v \in Var, Atoms[v].kind = "Eq", MustFail(a, models, v)
        PROVE  \E d \in DeniedBy(a) :
                 \/ /\ Equal(models, Atoms[v].left, Atoms[d].left)
                    /\ Equal(models, Atoms[v].right, Atoms[d].right)
                 \/ /\ Equal(models, Atoms[v].left, Atoms[d].right)
                    /\ Equal(models, Atoms[v].right, Atoms[d].left)
    BY <1>4 DEF MustFail
  <1>5. ASSUME NEW v \in Var, MustFail(b, models, v) PROVE MustFail(a, models, v)
    <2>1. CASE Atoms[v].kind = "Eq"
      <3>1. PICK e \in DeniedBy(b) :
                 \/ /\ Equal(models, Atoms[v].left, Atoms[e].left)
                    /\ Equal(models, Atoms[v].right, Atoms[e].right)
                 \/ /\ Equal(models, Atoms[v].left, Atoms[e].right)
                    /\ Equal(models, Atoms[v].right, Atoms[e].left)
        BY <1>5, <2>1 DEF MustFail
      <3>2. CASE e \in DeniedBy(a)
        BY <2>1, <3>1, <3>2 DEF MustFail
      <3>3. CASE e \in Var /\ Atoms[e].kind = "Eq" /\ MustFail(a, models, e)
        <4>1. PICK d \in DeniedBy(a) :
                 \/ /\ Equal(models, Atoms[e].left, Atoms[d].left)
                    /\ Equal(models, Atoms[e].right, Atoms[d].right)
                 \/ /\ Equal(models, Atoms[e].left, Atoms[d].right)
                    /\ Equal(models, Atoms[e].right, Atoms[d].left)
          BY <1>4, <3>3
        <4>2. \/ /\ Equal(models, Atoms[v].left, Atoms[d].left)
                 /\ Equal(models, Atoms[v].right, Atoms[d].right)
              \/ /\ Equal(models, Atoms[v].left, Atoms[d].right)
                 /\ Equal(models, Atoms[v].right, Atoms[d].left)
          BY <3>1, <4>1 DEF Equal
        <4> QED
          BY <2>1, <4>2 DEF MustFail
      <3> QED
        BY <1>3, <3>2, <3>3
    <2>2. CASE Atoms[v].kind # "Eq"
      BY <1>5, <2>2 DEF MustFail
    <2> QED
      BY <2>1, <2>2
  <1>6. ~TheoryRefutes(b)
    <2>1. ASSUME NEW v \in DeniedBy(b), Equal(models, Atoms[v].left, Atoms[v].right)
          PROVE  FALSE
      <3>1. CASE v \in DeniedBy(a)
        BY <1>2, <2>1, <3>1
      <3>2. CASE v \in Var /\ Atoms[v].kind = "Eq" /\ MustFail(a, models, v)
        <4>1. PICK d \in DeniedBy(a) :
                 \/ /\ Equal(models, Atoms[v].left, Atoms[d].left)
                    /\ Equal(models, Atoms[v].right, Atoms[d].right)
                 \/ /\ Equal(models, Atoms[v].left, Atoms[d].right)
                    /\ Equal(models, Atoms[v].right, Atoms[d].left)
          BY <1>4, <3>2
        <4>2. Equal(models, Atoms[d].left, Atoms[d].right)
          BY <2>1, <4>1 DEF Equal
        <4> QED
          BY <1>2, <4>2
      <3> QED
        BY <1>3, <3>1, <3>2
    <2> QED
      BY <1>1, <1>2, <2>1 DEF TheoryRefutes
  <1>7. Implied(b) = b
    <2>1. ASSUME NEW v \in Var PROVE Implied(b)[v] = b[v]
      <3>1. CASE b[v] # 0
        BY <1>1, <3>1, ImpliedFacts
      <3>2. CASE b[v] = 0
        <4>1. a[v] = 0
          BY <3>2, ImpliedFacts
        <4>2. ~MustHold(a, models, v) /\ ~MustFail(a, models, v)
          BY <3>2, <4>1, ImpliedFacts
        <4>3. ~MustHold(b, models, v) /\ ~MustFail(b, models, v)
          BY <1>5, <4>2 DEF MustHold
        <4> HIDE DEF b
        <4> QED
          BY <1>1, <3>2, <4>3 DEF Implied
      <3> QED
        BY <3>1, <3>2
    <2>2. Implied(b) = [v \in Var |-> Implied(b)[v]] /\ b = [v \in Var |-> b[v]]
      BY DEF Implied
    <2> HIDE DEF b
    <2> QED
      BY <2>1, <2>2
  <1> QED
    BY <1>6, <1>7 DEF TheoryIsDone

(* Of a solution the theory takes nothing away: it does not refute a part  *)
(* of one, and the values it adds are the solution's.                      *)
LEMMA TheoryIsSound ==
    ASSUME NEW a \in [Var -> Value], NEW m \in TheoryModels, Within(a, m)
    PROVE  ~TheoryRefutes(a) /\ Within(Implied(a), m)
  <1>1. m \in [Var -> {-1, 1}] /\ Consistent(Atoms, m)
    BY DEF TheoryModels
  <1>2. PICK V \in Interpretations :
            /\ V[TrueTerm] # V[FalseTerm]
            /\ \A v \in Var : Satisfies(V, Atoms[v], m[v])
    BY <1>1 DEF Consistent
  <1>3. ASSUME NEW v \in Var
        PROVE  /\ m[v] \in {-1, 1}
               /\ Atoms[v].kind = "Eq" => (m[v] = 1 <=> V[Atoms[v].left] = V[Atoms[v].right])
               /\ Atoms[v].kind = "BoolTerm" =>
                      V[Atoms[v].left] = V[IF m[v] = 1 THEN TrueTerm ELSE FalseTerm]
    BY <1>1, <1>2 DEF Satisfies
  <1>4. V \in Models(a)
    <2>1. ASSUME NEW v \in Var, NEW pair \in AssertedBy(a, v) PROVE V[pair[1]] = V[pair[2]]
      <3>1. a[v] # 0
        BY <2>1, AssertedFacts, AtomFacts
      <3>2. a[v] = m[v]
        BY <3>1 DEF Within
      <3>3. CASE Atoms[v].kind = "Eq"
        <4>1. m[v] = 1 /\ pair = <<Atoms[v].left, Atoms[v].right>>
          BY <2>1, <3>2, <3>3 DEF AssertedBy
        <4> QED
          BY <1>3, <3>3, <4>1
      <3>4. CASE Atoms[v].kind = "BoolTerm"
        <4>1. pair = <<Atoms[v].left, IF m[v] = 1 THEN TrueTerm ELSE FalseTerm>>
          BY <2>1, <3>1, <3>2, <3>4 DEF AssertedBy
        <4> QED
          BY <1>3, <3>4, <4>1
      <3> QED
        BY <2>1, <3>3, <3>4, AtomFacts, AssertedFacts
    <2> QED
      BY <2>1 DEF Models
  <1>5. \A d \in DeniedBy(a) : d \in Var /\ V[Atoms[d].left] # V[Atoms[d].right]
    <2> TAKE d \in DeniedBy(a)
    <2>1. d \in Var /\ Atoms[d].kind = "Eq" /\ a[d] = -1
      BY DEF DeniedBy
    <2>2. m[d] = -1
      BY <2>1 DEF Within
    <2> QED
      BY <1>3, <2>1, <2>2
  <1>6. ~TheoryRefutes(a)
    BY <1>2, <1>4, <1>5 DEF TheoryRefutes, Equal
  <1>7. ASSUME NEW v \in Var PROVE Implied(a)[v] \in {0, m[v]}
    <2>1. CASE a[v] # 0
      BY <2>1, ImpliedFacts DEF Within
    <2>2. CASE a[v] = 0 /\ Implied(a)[v] = 1
      <3>1. MustHold(a, Models(a), v)
        BY <2>2, ImpliedFacts
      <3> QED
        BY <1>2, <1>3, <1>4, <2>2, <3>1 DEF MustHold, Equal
    <2>3. CASE a[v] = 0 /\ Implied(a)[v] = -1
      <3>1. MustFail(a, Models(a), v)
        BY <2>3, ImpliedFacts
      <3>2. m[v] # 1
        BY <1>2, <1>3, <1>4, <1>5, <3>1 DEF MustFail, Equal
      <3> QED
        BY <1>3, <2>3, <3>2
    <2>4. Implied(a)[v] \in {-1, 0, 1}
      BY ImpliedFacts DEF Value
    <2> QED
      BY <2>1, <2>2, <2>3, <2>4
  <1> QED
    BY <1>6, <1>7 DEF Within

-----------------------------------------------------------------------------
(* The classes of the asserted equalities, read as values, are themselves  *)
(* an interpretation of them.                                              *)
LEMMA ClassesAreAModel ==
    ASSUME NEW a \in [Var -> Value]
    PROVE  \E V \in Models(a) :
               \A s, t \in Term : V[s] = V[t] <=> Equal(Models(a), s, t)
  <1> DEFINE models == Models(a)
             class == [t \in Term |-> {u \in Term : Equal(models, u, t)}]
             V == [t \in Term |-> Representative(class[t])]
  <1> HIDE DEF models
  <1>1. \A t \in Term : Representative(class[t]) \in class[t]
    <2>1. \A t \in Term : t \in class[t]
      BY EqualFacts
    <2>2. ASSUME NEW S, NEW x \in S PROVE Representative(S) \in S
      BY <2>2 DEF Representative
    <2> QED
      BY <2>1, <2>2
  <1>2. \A s, t \in Term : V[s] = V[t] <=> Equal(models, s, t)
    <2>1. ASSUME NEW s \in Term, NEW t \in Term, V[s] = V[t] PROVE Equal(models, s, t)
      <3>1. Equal(models, V[s], s) /\ Equal(models, V[t], t)
        BY <1>1
      <3> QED
        BY <2>1, <3>1, EqualFacts
    <2>2. ASSUME NEW s \in Term, NEW t \in Term, Equal(models, s, t) PROVE V[s] = V[t]
      <3>1. \A u \in Term : Equal(models, u, s) <=> Equal(models, u, t)
        BY <2>2, EqualFacts
      <3>2. class[s] = class[t]
        BY <3>1
      <3> QED
        BY <3>2
    <2> QED
      BY <2>1, <2>2
  <1>3. V \in Valuations
    <2>1. V \in [Term -> Term]
      BY <1>1
    <2>2. ASSUME NEW t \in Term
          PROVE  V[t] = Representative({u \in Term : V[u] = V[t]})
      <3>1. {u \in Term : V[u] = V[t]} = class[t]
        BY <1>2
      <3>2. V[t] = Representative(class[t])
        OBVIOUS
      <3> QED
        BY <3>1, <3>2
    <2> HIDE DEF V
    <2> QED
      BY <2>1, <2>2 DEF Valuations
  <1> HIDE DEF V
  <1>4. \A W \in models : W \in Interpretations /\ IsCongruent(W)
    BY DEF models, Models, Interpretations
  <1>5. IsCongruent(V)
    <2> SUFFICES ASSUME NEW s \in AppTerm, NEW t \in AppTerm, SameUnder(V, s, t)
                 PROVE  V[s] = V[t]
      BY DEF IsCongruent
    <2>1. /\ FunOf[s] = FunOf[t] /\ DOMAIN ArgsOf[s] = DOMAIN ArgsOf[t]
          /\ \A i \in DOMAIN ArgsOf[s] : V[ArgsOf[s][i]] = V[ArgsOf[t][i]]
      BY DEF SameUnder
    <2>2. /\ s \in Term /\ t \in Term
          /\ \A i \in DOMAIN ArgsOf[s] : ArgsOf[s][i] \in Term /\ ArgsOf[t][i] \in Term
      BY <2>1, ArenaAssumption DEF AppTerm
    <2>3. \A i \in DOMAIN ArgsOf[s] : Equal(models, ArgsOf[s][i], ArgsOf[t][i])
      BY <1>2, <2>1, <2>2
    <2>4. \A W \in models : SameUnder(W, s, t)
      BY <2>1, <2>3 DEF SameUnder, Equal
    <2>5. Equal(models, s, t)
      BY <1>4, <2>4 DEF IsCongruent, Equal
    <2> QED
      BY <1>2, <2>2, <2>5
  <1>6. ASSUME NEW v \in Var, NEW pair \in AssertedBy(a, v) PROVE V[pair[1]] = V[pair[2]]
    <2>1. pair[1] \in Term /\ pair[2] \in Term
      BY <1>6, AtomFacts, ArenaAssumption DEF AssertedBy
    <2>2. Equal(models, pair[1], pair[2])
      BY <1>6 DEF models, Models, Equal
    <2> QED
      BY <1>2, <2>1, <2>2
  <1>7. V \in Models(a)
    BY <1>3, <1>5, <1>6 DEF Models, Interpretations
  <1> QED
    BY <1>2, <1>7 DEF models

(* An assignment that satisfies the clauses, decides the atoms and is not  *)
(* refuted extends to a solution.                                          *)
LEMMA LeafIsSolution ==
    ASSUME TypeOK, ~TheoryRefutes(assignment),
           \A v \in Var : IsAtom(v) => assignment[v] # 0,
           \A i \in DOMAIN clauses : Sat(assignment, clauses[i])
    PROVE  Solutions(clauses) # {}
  <1> DEFINE m == [v \in Var |-> IF assignment[v] = 0 THEN 1 ELSE assignment[v]]
             models == Models(assignment)
  <1>1. assignment \in [Var -> {-1, 0, 1}]
    BY DEF TypeOK, Value
  <1>2. m \in [Var -> {-1, 1}] /\ \A v \in Var : assignment[v] # 0 => m[v] = assignment[v]
    BY <1>1
  <1>3. PICK V \in models : \A s, t \in Term : V[s] = V[t] <=> Equal(models, s, t)
    BY <1>1, ClassesAreAModel DEF Value
  <1>4. V[TrueTerm] # V[FalseTerm]
    BY <1>3, ArenaAssumption DEF TheoryRefutes
  <1>5. ASSUME NEW v \in Var PROVE Satisfies(V, Atoms[v], m[v])
    <2>1. CASE Atoms[v].kind = "None"
      BY <2>1 DEF Satisfies
    <2>2. CASE Atoms[v].kind = "Eq"
      <3>1. assignment[v] # 0 /\ m[v] = assignment[v]
        BY <1>2, <2>2 DEF IsAtom
      <3>2. CASE assignment[v] = 1
        <4>1. <<Atoms[v].left, Atoms[v].right>> \in AssertedBy(assignment, v)
          BY <2>2, <3>2 DEF AssertedBy
        <4>2. V[Atoms[v].left] = V[Atoms[v].right]
          BY <1>3, <4>1 DEF Models
        <4> QED
          BY <2>2, <3>1, <3>2, <4>2 DEF Satisfies
      <3>3. CASE assignment[v] = -1
        <4>1. v \in DeniedBy(assignment)
          BY <2>2, <3>3 DEF DeniedBy
        <4>2. V[Atoms[v].left] # V[Atoms[v].right]
          BY <1>3, <4>1, AtomFacts DEF TheoryRefutes
        <4> QED
          BY <2>2, <3>1, <3>3, <4>2 DEF Satisfies
      <3> QED
        BY <1>1, <3>1, <3>2, <3>3
    <2>3. CASE Atoms[v].kind = "BoolTerm"
      <3>1. assignment[v] # 0 /\ m[v] = assignment[v]
        BY <1>2, <2>3 DEF IsAtom
      <3>2. <<Atoms[v].left, IF m[v] = 1 THEN TrueTerm ELSE FalseTerm>>
              \in AssertedBy(assignment, v)
        BY <2>3, <3>1 DEF AssertedBy
      <3>3. V[Atoms[v].left] = V[IF m[v] = 1 THEN TrueTerm ELSE FalseTerm]
        BY <1>3, <3>2 DEF Models
      <3> QED
        BY <2>3, <3>3 DEF Satisfies
    <2> QED
      BY <2>1, <2>2, <2>3, AtomFacts
  <1>6. m \in TheoryModels
    BY <1>2, <1>3, <1>4, <1>5 DEF TheoryModels, Consistent, Models
  <1>7. ASSUME NEW i \in DOMAIN clauses PROVE Sat(m, clauses[i])
    <2>1. PICK k \in DOMAIN clauses[i] : Status(assignment, clauses[i][k]) = 1
      BY DEF Sat
    <2>2. clauses[i][k] \in Literal
      BY ClauseFacts
    <2>3. assignment[VarOf(clauses[i][k])] # 0
      BY <1>1, <2>1, <2>2, StatusFacts DEF Value
    <2>4. m[VarOf(clauses[i][k])] = assignment[VarOf(clauses[i][k])]
      BY <1>2, <2>2, <2>3, LiteralFacts
    <2>5. Status(m, clauses[i][k]) = 1
      BY <2>1, <2>2, <2>4, LiteralFacts DEF Status
    <2> QED
      BY <2>5 DEF Sat
  <1> QED
    BY <1>6, <1>7 DEF Solutions

-----------------------------------------------------------------------------
(* A solution gives every variable a value and satisfies every clause.     *)
LEMMA SolutionFacts ==
    ASSUME TypeOK, NEW m \in Solutions(clauses)
    PROVE  /\ m \in [Var -> {-1, 1}] /\ m \in TheoryModels
           /\ \A i \in DOMAIN clauses : Sat(m, clauses[i])
  BY DEF Solutions, TheoryModels

(* Of a clause the assignment does not satisfy, a solution it agrees with  *)
(* satisfies an open literal.                                              *)
LEMMA SolutionOpens ==
    ASSUME TypeOK, NEW m \in Solutions(clauses), Within(assignment, m),
           NEW i \in DOMAIN clauses, ~Sat(assignment, clauses[i])
    PROVE  \E k \in Open(assignment, clauses[i]) :
               m[VarOf(clauses[i][k])] = IF clauses[i][k] > 0 THEN 1 ELSE -1
  <1>1. m \in [Var -> {-1, 1}] /\ Sat(m, clauses[i])
    BY SolutionFacts
  <1>2. PICK k \in DOMAIN clauses[i] : Status(m, clauses[i][k]) = 1
    BY <1>1 DEF Sat
  <1> DEFINE l == clauses[i][k]
  <1>3. l \in Literal /\ VarOf(l) \in Var
    BY ClauseFacts
  <1> HIDE DEF l
  <1>4. m[VarOf(l)] = IF l > 0 THEN 1 ELSE -1
    <2>1. Status(m, l) = 1
      BY <1>2 DEF l
    <2>2. m[VarOf(l)] \in {-1, 1}
      BY <1>1, <1>3
    <2>3. Status(m, l) = IF l > 0 THEN m[VarOf(l)] ELSE -m[VarOf(l)]
      BY <1>3, LiteralFacts DEF Status
    <2> QED
      BY <2>1, <2>2, <2>3
  <1>5. assignment \in [Var -> Value]
    BY DEF TypeOK
  <1>6. Status(assignment, l) # 1
    BY DEF Sat, l
  <1>7. Status(assignment, l) = 0
    <2>1. Status(assignment, l) = IF l > 0 THEN assignment[VarOf(l)] ELSE -assignment[VarOf(l)]
      BY <1>3, <1>5, StatusFacts
    <2>2. assignment[VarOf(l)] \in {0, m[VarOf(l)]}
      BY <1>3 DEF Within
    <2> QED
      BY <1>4, <1>6, <2>1, <2>2
  <1> QED
    BY <1>4, <1>7 DEF Open, l

(* A unit clause is satisfied by every solution.                           *)
LEMMA UnitsAreTrue ==
    ASSUME TypeOK, NEW m \in Solutions(clauses), NEW l \in Units
    PROVE  /\ l \in Literal
           /\ m[VarOf(l)] = IF l > 0 THEN 1 ELSE -1
           /\ -l \notin Units
  <1>1. ASSUME NEW u \in Units
        PROVE  u \in Literal /\ Status(m, u) = 1
    <2>1. PICK i \in DOMAIN clauses : Len(clauses[i]) = 1 /\ u = clauses[i][1]
      BY DEF Units
    <2>2. clauses[i] \in Seq(Literal) /\ DOMAIN clauses[i] = {1}
      BY <2>1, ClauseFacts
    <2>3. Sat(m, clauses[i])
      BY SolutionFacts
    <2> QED
      BY <2>1, <2>2, <2>3 DEF Sat
  <1>2. m \in [Var -> {-1, 1}]
    BY SolutionFacts
  <1>3. ASSUME NEW u \in Units PROVE m[VarOf(u)] = IF u > 0 THEN 1 ELSE -1
    <2>1. u \in Literal /\ Status(m, u) = 1
      BY <1>1
    <2>2. m[VarOf(u)] \in {-1, 1}
      BY <1>2, <2>1, LiteralFacts
    <2>3. Status(m, u) = IF u > 0 THEN m[VarOf(u)] ELSE -m[VarOf(u)]
      BY <2>1, LiteralFacts DEF Status
    <2> QED
      BY <2>1, <2>2, <2>3
  <1>4. -l \notin Units
    <2> SUFFICES ASSUME -l \in Units PROVE FALSE
      OBVIOUS
    <2>1. l \in Int /\ l # 0
      BY <1>1, LiteralFacts
    <2>2. VarOf(-l) = VarOf(l)
      BY <2>1 DEF VarOf
    <2>3. (l > 0 /\ ~(-l > 0)) \/ (~(l > 0) /\ -l > 0)
      BY <2>1
    <2>4. 1 # -1
      OBVIOUS
    <2> QED
      BY <1>3, <2>2, <2>3, <2>4
  <1> QED
    BY <1>1, <1>3, <1>4

-----------------------------------------------------------------------------
(* What the callers have is theirs alone: a step that leaves them and the  *)
(* clauses keeps what is known of them.                                    *)
LEMMA CallersFrame ==
    ASSUME CallersInv, UNCHANGED <<callers, clauses>>
    PROVE  CallersInv'
  BY DEF CallersInv

(* A step within a call adds consequences only.                            *)
LEMMA SolutionFrame ==
    ASSUME SolutionInv, UNCHANGED <<callers, clauses>>,
           pc # "refuted", pc' # "refuted",
           \A m \in Solutions(clauses) : Within(assignment, m) => Within(assignment', m)
    PROVE  SolutionInv'
  BY DEF SolutionInv

(* A call is refuted when no solution agrees with its assignment.          *)
LEMMA RefutedStep ==
    ASSUME Inv, Refuted, pc = "propagate",
           \A m \in Solutions(clauses) : ~Within(assignment, m)
    PROVE  Inv'
  <1>1. TypeOK'
    BY DEF Inv, TypeOK, Refuted
  <1>2. StartInv' /\ RunningInv'
    BY DEF Inv, StartInv, RunningInv, Running, Refuted
  <1>3. CallersInv'
    BY CallersFrame DEF Inv, Refuted
  <1>4. SolutionInv'
    BY DEF Inv, SolutionInv, Refuted
  <1> QED
    BY <1>1, <1>2, <1>3, <1>4 DEF Inv

(* The records of the callers.                                             *)
LEMMA CallerFacts ==
    ASSUME TypeOK
    PROVE  /\ DOMAIN callers = 1..Len(callers) /\ Len(callers) \in Nat
           /\ \A k \in DOMAIN callers :
                  /\ callers[k] \in Caller
                  /\ callers[k].assignment \in [Var -> Value]
                  /\ callers[k].var \in Var
                  /\ callers[k].value \in {-1, 1}
  <1>1. callers \in Seq(Caller)
    BY DEF TypeOK
  <1>2. DOMAIN callers = 1..Len(callers) /\ Len(callers) \in Nat
    BY <1>1
  <1>3. \A k \in DOMAIN callers : callers[k] \in Caller
    BY <1>1
  <1>4. ASSUME NEW r \in Caller
        PROVE  /\ r.assignment \in [Var -> Value]
               /\ r.var \in Var
               /\ r.value \in {-1, 1}
    BY DEF Caller
  <1> QED
    BY <1>2, <1>3, <1>4

-----------------------------------------------------------------------------
(* No clause is looked at before the first call of search.                 *)
THEOREM InitInv == Init => Inv
  <1> SUFFICES ASSUME Init PROVE Inv
    OBVIOUS
  <1>1. TypeOK
    BY DpllAssumption DEF Init, TypeOK, Value
  <1>2. StartInv /\ RunningInv
    BY DpllAssumption DEF Init, StartInv, RunningInv, Running
  <1>3. CallersInv
    BY DEF Init, CallersInv
  <1>4. SolutionInv
    BY DEF Init, SolutionInv, Within
  <1> QED
    BY <1>1, <1>2, <1>3, <1>4 DEF Inv

(* The initial units: the answer unsat is right, and the first call starts *)
(* with values all solutions have.                                         *)
LEMMA BeginStep ==
    ASSUME Inv, Begin
    PROVE  Inv' /\ (result' = "none" \/ (result' = "unsat" /\ Solutions(clauses) = {}))
  <1>0. TypeOK /\ pc = "start" /\ callers = <<>> /\ todo = {} /\ dirty /\ result = "none"
        /\ nodes' = nodes /\ clauses' = clauses /\ callers' = callers
    BY DEF Inv, StartInv, Begin, Conclude
  <1>1. CallersInv'
    BY <1>0, CallersFrame DEF Inv
  <1>2. CASE /\ \/ \E i \in DOMAIN clauses : clauses[i] = <<>>
                \/ \E l \in Units : -l \in Units
             /\ Conclude("unsat")
    <2>1. TypeOK' /\ StartInv' /\ RunningInv'
      BY <1>0, <1>2 DEF Conclude, TypeOK, StartInv, RunningInv, Running
    <2>2. SolutionInv'
      BY <1>0, <1>2, SolutionFrame DEF Inv, Conclude
    <2>3. ASSUME NEW m \in Solutions(clauses) PROVE FALSE
      <3>1. CASE \E i \in DOMAIN clauses : clauses[i] = <<>>
        BY <1>0, <3>1, SolutionFacts DEF Sat
      <3>2. CASE \E l \in Units : -l \in Units
        BY <1>0, <3>2, UnitsAreTrue
      <3> QED
        BY <1>2, <3>1, <3>2
    <2> QED
      BY <1>1, <1>2, <2>1, <2>2, <2>3 DEF Inv, Conclude
  <1>3. CASE /\ \A i \in DOMAIN clauses : clauses[i] # <<>>
             /\ \A l \in Units : -l \notin Units
             /\ assignment' = [v \in Var |-> IF v \in Units THEN 1
                                             ELSE IF -v \in Units THEN -1 ELSE 0]
             /\ pending' = {VarOf(l) : l \in Units}
             /\ pc' = "enter"
             /\ UNCHANGED <<clauses, callers, todo, dirty, result>>
    <2>1. ASSUME NEW l \in Units PROVE l \in Literal
      <3>1. PICK i \in DOMAIN clauses : Len(clauses[i]) = 1 /\ l = clauses[i][1]
        BY DEF Units
      <3> QED
        BY <1>0, <3>1, ClauseFacts
    <2>2. TypeOK'
      <3>1. pending' \subseteq Var
        BY <1>3, <2>1, LiteralFacts
      <3>2. assignment' \in [Var -> Value]
        BY <1>3 DEF Value
      <3> QED
        BY <1>0, <1>3, <3>1, <3>2 DEF TypeOK
    <2>3. StartInv'
      BY <1>0, <1>3 DEF Inv, StartInv
    <2>4. Watched'
      <3> SUFFICES ASSUME NEW i \in DOMAIN clauses, \A v \in pending' : ~Occurs(v, clauses[i])
                   PROVE  Settled(assignment', clauses[i])
        BY <1>0 DEF Watched
      <3> DEFINE c == clauses[i]
      <3>1. c \in Seq(Literal) /\ c # <<>>
        BY <1>0, <1>3, ClauseFacts
      <3>2. ASSUME NEW k \in DOMAIN c PROVE Status(assignment', c[k]) = 0
        <4>1. c[k] \in Literal /\ VarOf(c[k]) \in Var
          BY <3>1, LiteralFacts
        <4>2. VarOf(c[k]) \notin pending'
          BY DEF Occurs
        <4>3. c[k] \notin Units /\ -c[k] \notin Units
          <5>1. VarOf(-c[k]) = VarOf(c[k])
            BY <4>1, LiteralFacts DEF VarOf
          <5> QED
            BY <1>3, <4>2, <5>1
        <4>4. VarOf(c[k]) \notin Units /\ -VarOf(c[k]) \notin Units
          <5>1. \/ VarOf(c[k]) = c[k]
                \/ VarOf(c[k]) = -c[k] /\ -VarOf(c[k]) = c[k]
            BY <4>1, LiteralFacts DEF VarOf
          <5> QED
            BY <4>1, <4>3, <5>1, LiteralFacts
        <4>5. assignment'[VarOf(c[k])] = 0
          BY <1>3, <4>1, <4>4
        <4>6. assignment' \in [Var -> Value]
          BY <1>3 DEF Value
        <4> QED
          BY <4>1, <4>5, <4>6, StatusFacts
      <3>3. Open(assignment', c) = 1..Len(c)
        BY <3>1, <3>2 DEF Open
      <3>4. Len(c) # 1
        <4> SUFFICES ASSUME Len(c) = 1 PROVE FALSE
          OBVIOUS
        <4>1. c[1] \in Units /\ 1 \in DOMAIN c
          BY <3>1 DEF Units
        <4>2. VarOf(c[1]) \in pending'
          BY <1>3, <4>1
        <4> QED
          BY <4>1, <4>2 DEF Occurs
      <3>5. Len(c) \in Nat /\ Len(c) # 0
        BY <3>1
      <3>6. Cardinality(1..Len(c)) = Len(c)
        BY <3>5, FS_Interval
      <3> QED
        BY <3>3, <3>4, <3>5, <3>6 DEF Settled
    <2>5. RunningInv'
      BY <1>0, <1>3, <2>4 DEF RunningInv
    <2>6. ASSUME NEW m \in Solutions(clauses) PROVE Within(assignment', m)
      <3>1. ASSUME NEW v \in Var PROVE assignment'[v] \in {0, m[v]}
        <4>1. v > 0 /\ ~(-v > 0) /\ VarOf(v) = v /\ VarOf(-v) = v
          BY LiteralFacts, ArenaAssumption DEF VarOf, Var
        <4>2. v \in Units => m[v] = 1
          BY <1>0, <4>1, UnitsAreTrue
        <4>3. -v \in Units => m[v] = -1
          BY <1>0, <4>1, UnitsAreTrue
        <4> QED
          BY <1>3, <4>2, <4>3
      <3> QED
        BY <3>1 DEF Within
    <2>7. SolutionInv'
      BY <1>0, <1>3, <2>6, SolutionFrame DEF Inv
    <2> QED
      BY <1>0, <1>1, <1>3, <2>2, <2>3, <2>5, <2>7 DEF Inv
  <1> QED
    BY <1>2, <1>3 DEF Begin

(* A node is counted; one too many gives up.                               *)
LEMMA EnterStep ==
    ASSUME Inv, Enter
    PROVE  Inv' /\ result' \in {"none", "unsupported"} /\ UNCHANGED clauses
  <1>1. /\ pc = "enter" /\ pc' \in {"propagate", "done"} /\ nodes' = nodes + 1
        /\ result' \in {result, "unsupported"} /\ result = "none"
        /\ pc' = "propagate" => nodes < NodeLimit /\ result' = result
        /\ UNCHANGED <<clauses, assignment, callers, pending, todo, dirty>>
    BY DEF Inv, StartInv, Enter, Conclude
  <1>2. TypeOK'
    <2>1. nodes' \in 0..(NodeLimit + 1)
      BY <1>1, DpllAssumption DEF Inv, TypeOK, StartInv
    <2> QED
      BY <1>1, <2>1 DEF Inv, TypeOK
  <1>3. StartInv'
    BY <1>1, DpllAssumption DEF Inv, TypeOK, StartInv
  <1>4. RunningInv'
    BY <1>1 DEF Inv, RunningInv, Running, Watched
  <1>5. CallersInv' /\ SolutionInv'
    BY <1>1, CallersFrame, SolutionFrame DEF Inv
  <1> QED
    BY <1>1, <1>2, <1>3, <1>4, <1>5 DEF Inv

(* The clauses of a popped variable are looked at instead of it.           *)
LEMMA PopPendingStep == ASSUME Inv, PopPending PROVE Inv'
  <1>1. /\ pc = "propagate" /\ todo = {}
        /\ UNCHANGED <<pc, clauses, assignment, callers, dirty, nodes, result>>
    BY DEF PopPending
  <1>2. PICK v \in pending : pending' = pending \ {v} /\ todo' = ClausesOf(v)
    BY DEF PopPending
  <1>3. TypeOK' /\ StartInv'
    BY <1>1, <1>2 DEF Inv, TypeOK, StartInv, ClausesOf
  <1>4. Watched'
    <2>1. Watched
      BY <1>1 DEF Inv, RunningInv, Running
    <2>2. ASSUME NEW i \in DOMAIN clauses, Occurs(v, clauses[i]) PROVE i \in todo'
      BY <1>2, <2>2 DEF ClausesOf, Occurs
    <2> QED
      BY <1>1, <1>2, <2>1, <2>2 DEF Watched
  <1>5. RunningInv'
    BY <1>1, <1>4 DEF Inv, RunningInv, Running
  <1>6. CallersInv' /\ SolutionInv'
    BY <1>1, CallersFrame, SolutionFrame DEF Inv
  <1> QED
    BY <1>3, <1>5, <1>6, <1>4 DEF Inv

(* A clause that is satisfied or has two open literals is left; a false    *)
(* one refutes the call; a unit is a consequence and wakes its clauses,    *)
(* and the theory if it is an atom.                                        *)
LEMMA LookAtClauseStep == ASSUME Inv, LookAtClause PROVE Inv'
  <1>0. TypeOK /\ pc = "propagate"
    BY DEF Inv, LookAtClause
  <1>1. PICK i \in todo :
          \/ /\ Sat(assignment, clauses[i]) \/ Cardinality(Open(assignment, clauses[i])) > 1
             /\ todo' = todo \ {i}
             /\ UNCHANGED <<pc, clauses, assignment, callers, pending, dirty, nodes, result>>
          \/ ~Sat(assignment, clauses[i]) /\ Open(assignment, clauses[i]) = {} /\ Refuted
          \/ \E k \in Open(assignment, clauses[i]) :
             /\ ~Sat(assignment, clauses[i]) /\ Open(assignment, clauses[i]) = {k}
             /\ todo' = todo \ {i}
             /\ assignment' = [assignment EXCEPT
                    ![VarOf(clauses[i][k])] = IF clauses[i][k] > 0 THEN 1 ELSE -1]
             /\ pending' = pending \cup {VarOf(clauses[i][k])}
             /\ dirty' = (dirty \/ IsAtom(VarOf(clauses[i][k])))
             /\ UNCHANGED <<pc, clauses, callers, nodes, result>>
    BY DEF LookAtClause
  <1>2. i \in DOMAIN clauses
    BY <1>0 DEF TypeOK
  <1>3. Watched /\ (~dirty => TheoryIsDone(assignment))
    BY <1>0 DEF Inv, RunningInv, Running
  <1>4. CASE /\ Sat(assignment, clauses[i]) \/ Cardinality(Open(assignment, clauses[i])) > 1
             /\ todo' = todo \ {i}
             /\ UNCHANGED <<pc, clauses, assignment, callers, pending, dirty, nodes, result>>
    <2>1. TypeOK' /\ StartInv'
      BY <1>0, <1>4 DEF Inv, TypeOK, StartInv
    <2>2. Watched'
      BY <1>3, <1>4 DEF Watched, Settled
    <2>3. RunningInv'
      BY <1>0, <1>3, <1>4, <2>2 DEF RunningInv
    <2>4. CallersInv' /\ SolutionInv'
      BY <1>0, <1>4, CallersFrame, SolutionFrame DEF Inv
    <2> QED
      BY <2>1, <2>3, <2>4 DEF Inv
  <1>5. CASE ~Sat(assignment, clauses[i]) /\ Open(assignment, clauses[i]) = {} /\ Refuted
    <2>1. ASSUME NEW m \in Solutions(clauses) PROVE ~Within(assignment, m)
      BY <1>0, <1>2, <1>5, SolutionOpens
    <2> QED
      BY <1>0, <1>5, <2>1, RefutedStep
  <1>6. ASSUME NEW k \in Open(assignment, clauses[i]),
               ~Sat(assignment, clauses[i]), Open(assignment, clauses[i]) = {k},
               todo' = todo \ {i},
               assignment' = [assignment EXCEPT
                    ![VarOf(clauses[i][k])] = IF clauses[i][k] > 0 THEN 1 ELSE -1],
               pending' = pending \cup {VarOf(clauses[i][k])},
               dirty' = (dirty \/ IsAtom(VarOf(clauses[i][k]))),
               UNCHANGED <<pc, clauses, callers, nodes, result>>
        PROVE  Inv'
    <2> DEFINE l == clauses[i][k]
               v == VarOf(l)
    <2>1. k \in DOMAIN clauses[i] /\ l \in Literal /\ v \in Var
      BY <1>0, <1>2, <1>6, ClauseFacts DEF Open
    <2>2. assignment \in [Var -> Value] /\ assignment' \in [Var -> Value]
      BY <1>0, <1>6 DEF TypeOK, Value
    <2>3. /\ assignment'[v] = IF l > 0 THEN 1 ELSE -1
          /\ \A u \in Var : u # v => assignment'[u] = assignment[u]
      BY <1>6, <2>1, <2>2
    <2>4. Occurs(v, clauses[i])
      BY <2>1 DEF Occurs
    <2>5. TypeOK' /\ StartInv'
      <3>1. pending' \subseteq Var /\ dirty' \in BOOLEAN
        BY <1>0, <1>6, <2>1 DEF TypeOK
      <3> QED
        BY <1>0, <1>6, <2>2, <3>1 DEF Inv, TypeOK, StartInv
    <2> HIDE DEF l, v
    <2>6. Watched'
      <3> SUFFICES ASSUME NEW j \in DOMAIN clauses
                   PROVE  \/ Settled(assignment', clauses[j])
                          \/ j \in todo'
                          \/ \E u \in pending' : Occurs(u, clauses[j])
        BY <1>6 DEF Watched
      <3>1. v \in pending' /\ pending \subseteq pending'
        BY <1>6 DEF v, l
      <3>2. CASE Occurs(v, clauses[j])
        BY <3>1, <3>2
      <3>3. CASE ~Occurs(v, clauses[j])
        <4>1. j # i
          BY <2>4, <3>3
        <4>2. \A n \in DOMAIN clauses[j] :
                  assignment[VarOf(clauses[j][n])] = assignment'[VarOf(clauses[j][n])]
          BY <1>0, <2>3, <3>3, ClauseFacts DEF Occurs
        <4>3. Settled(assignment, clauses[j]) <=> Settled(assignment', clauses[j])
          BY <1>0, <4>2, ClauseFacts, SettledFrame
        <4> QED
          BY <1>3, <1>6, <3>1, <4>1, <4>3 DEF Watched
      <3> QED
        BY <3>2, <3>3
    <2>7. ~dirty' => TheoryIsDone(assignment')
      <3> SUFFICES ASSUME ~dirty' PROVE TheoryIsDone(assignment')
        OBVIOUS
      <3>1. ~dirty /\ ~IsAtom(v)
        BY <1>6 DEF v, l
      <3>2. \A u \in Var : IsAtom(u) => assignment[u] = assignment'[u]
        BY <2>3, <3>1
      <3> QED
        BY <1>3, <2>2, <3>1, <3>2, TheoryFrame
    <2>8. RunningInv'
      BY <1>0, <1>6, <2>6, <2>7 DEF RunningInv
    <2>9. ASSUME NEW m \in Solutions(clauses), Within(assignment, m)
          PROVE  Within(assignment', m)
      <3>1. m[v] = IF l > 0 THEN 1 ELSE -1
        BY <1>0, <1>2, <1>6, <2>9, SolutionOpens DEF v, l
      <3> QED
        BY <2>3, <2>9, <3>1 DEF Within
    <2>10. CallersInv' /\ SolutionInv'
      BY <1>0, <1>6, <2>9, CallersFrame, SolutionFrame DEF Inv
    <2> QED
      BY <2>5, <2>8, <2>10 DEF Inv
  <1> QED
    BY <1>1, <1>4, <1>5, <1>6

(* The theory refutes only what no solution contains.                      *)
LEMMA TheoryFailsStep == ASSUME Inv, TheoryFails PROVE Inv'
  <1>1. TypeOK /\ assignment \in [Var -> Value] /\ pc = "propagate"
        /\ TheoryRefutes(assignment) /\ Refuted
    BY DEF Inv, TypeOK, TheoryFails, Quiet
  <1>2. ASSUME NEW m \in Solutions(clauses) PROVE ~Within(assignment, m)
    BY <1>1, SolutionFacts, TheoryIsSound
  <1> QED
    BY <1>1, <1>2, RefutedStep

(* What the theory adds is a consequence, its clauses are woken, and it    *)
(* has nothing more to say.                                                *)
LEMMA TheoryPropagatesStep == ASSUME Inv, TheoryPropagates PROVE Inv'
  <1>0. TypeOK /\ pc = "propagate" /\ pending = {} /\ todo = {} /\ ~TheoryRefutes(assignment)
    BY DEF Inv, TheoryPropagates, Quiet
  <1>1. /\ assignment' = Implied(assignment)
        /\ pending' = {v \in Var : assignment[v] # assignment'[v]}
        /\ dirty' = FALSE
        /\ UNCHANGED <<pc, clauses, callers, todo, nodes, result>>
    BY DEF TheoryPropagates
  <1>2. assignment \in [Var -> Value] /\ assignment' \in [Var -> Value]
    BY <1>0, <1>1, ImpliedFacts DEF TypeOK
  <1>3. TypeOK' /\ StartInv'
    BY <1>0, <1>1, <1>2 DEF Inv, TypeOK, StartInv
  <1>4. Watched'
    <2> SUFFICES ASSUME NEW i \in DOMAIN clauses, \A v \in pending' : ~Occurs(v, clauses[i])
                 PROVE  Settled(assignment', clauses[i])
      BY <1>1 DEF Watched
    <2>1. \A k \in DOMAIN clauses[i] :
              assignment[VarOf(clauses[i][k])] = assignment'[VarOf(clauses[i][k])]
      BY <1>0, <1>1, ClauseFacts DEF Occurs
    <2>2. Settled(assignment, clauses[i])
      BY <1>0 DEF Inv, RunningInv, Running, Watched
    <2> QED
      BY <1>0, <2>1, <2>2, ClauseFacts, SettledFrame
  <1>5. TheoryIsDone(assignment')
    BY <1>0, <1>1, <1>2, ImpliedIsClosed
  <1>6. RunningInv'
    BY <1>0, <1>1, <1>4, <1>5 DEF RunningInv
  <1>7. ASSUME NEW m \in Solutions(clauses), Within(assignment, m)
        PROVE  Within(assignment', m)
    BY <1>0, <1>1, <1>2, <1>7, SolutionFacts, TheoryIsSound
  <1>8. CallersInv' /\ SolutionInv'
    BY <1>0, <1>1, <1>7, CallersFrame, SolutionFrame DEF Inv
  <1> QED
    BY <1>3, <1>6, <1>8 DEF Inv

(* propagate has nothing left to look at: the assignment is complete.      *)
LEMMA SettleStep == ASSUME Inv, Settle PROVE Inv'
  <1>1. /\ pc = "propagate" /\ pending = {} /\ todo = {} /\ ~dirty /\ pc' = "choose"
        /\ UNCHANGED <<clauses, assignment, callers, pending, todo, dirty, nodes, result>>
    BY DEF Settle, Quiet
  <1>2. TypeOK' /\ StartInv'
    BY <1>1 DEF Inv, TypeOK, StartInv
  <1>3. RunningInv'
    BY <1>1 DEF Inv, RunningInv, Running, Watched
  <1>4. CallersInv' /\ SolutionInv'
    BY <1>1, CallersFrame, SolutionFrame DEF Inv
  <1> QED
    BY <1>2, <1>3, <1>4 DEF Inv

-----------------------------------------------------------------------------
(* The variable branched on is one; if there is none to branch on, the     *)
(* assignment satisfies the clauses and decides the atoms.                 *)
LEMMA CandidateFacts ==
    ASSUME Inv, pc = "choose"
    PROVE  /\ Candidates \subseteq Var
           /\ Complete(assignment, clauses)
           /\ Candidates = {} => /\ \A i \in DOMAIN clauses : Sat(assignment, clauses[i])
                                /\ \A v \in Var : IsAtom(v) => assignment[v] # 0
  <1>1. TypeOK /\ Watched /\ pending = {} /\ todo = {} /\ TheoryIsDone(assignment)
    BY DEF Inv, RunningInv, Running
  <1>2. ASSUME NEW i \in DOMAIN clauses PROVE OpenVars(clauses[i]) \subseteq Var
    BY <1>1, ClauseFacts DEF OpenVars, Open
  <1>3. Undecided \subseteq Var
    BY <1>2 DEF Undecided
  <1>4. \A i \in DOMAIN clauses : Settled(assignment, clauses[i])
    BY <1>1 DEF Watched
  <1>5. ASSUME Undecided = {}, NEW i \in DOMAIN clauses PROVE Sat(assignment, clauses[i])
    <2> SUFFICES ASSUME ~Sat(assignment, clauses[i]) PROVE FALSE
      OBVIOUS
    <2>1. OpenVars(clauses[i]) = {}
      BY <1>5 DEF Undecided
    <2>2. Open(assignment, clauses[i]) = {}
      BY <2>1 DEF OpenVars
    <2>3. Cardinality(Open(assignment, clauses[i])) = 0
      BY <2>2, FS_EmptySet
    <2> QED
      BY <1>4, <2>3 DEF Settled
  <1> QED
    BY <1>1, <1>3, <1>4, <1>5 DEF Candidates, Complete

(* A call starts with what its caller has and the value branched on.       *)
LEMMA CallStep ==
    ASSUME TypeOK, NEW a \in [Var -> Value], NEW v \in Var, NEW value \in {-1, 1},
           Complete(a, clauses), Call(a, v, value), UNCHANGED result
    PROVE  /\ RunningInv' /\ pc' = "enter" /\ clauses' = clauses /\ nodes' = nodes
           /\ todo' = todo /\ pending' \subseteq Var /\ dirty' \in BOOLEAN
           /\ assignment' \in [Var -> Value]
           /\ \A m \in Solutions(clauses) :
                  Within(a, m) /\ m[v] = value => Within(assignment', m)
  <1>1. /\ assignment' = [a EXCEPT ![v] = value]
        /\ pending' = {v} /\ dirty' = IsAtom(v) /\ pc' = "enter"
        /\ UNCHANGED <<clauses, todo, nodes, result>>
    BY DEF Call
  <1>2. /\ assignment' \in [Var -> Value]
        /\ assignment'[v] = value
        /\ \A u \in Var : u # v => assignment'[u] = a[u]
    BY <1>1 DEF Value
  <1>3. Watched'
    <2> SUFFICES ASSUME NEW i \in DOMAIN clauses, ~Occurs(v, clauses[i])
                 PROVE  Settled(assignment', clauses[i])
      BY <1>1 DEF Watched
    <2>1. \A k \in DOMAIN clauses[i] :
              a[VarOf(clauses[i][k])] = assignment'[VarOf(clauses[i][k])]
      BY <1>2, ClauseFacts DEF Occurs
    <2> QED
      BY <2>1, ClauseFacts, SettledFrame DEF Complete
  <1>4. ~dirty' => TheoryIsDone(assignment')
    <2> SUFFICES ASSUME ~dirty' PROVE TheoryIsDone(assignment')
      OBVIOUS
    <2>1. \A u \in Var : IsAtom(u) => a[u] = assignment'[u]
      BY <1>1, <1>2
    <2> QED
      BY <1>2, <2>1, TheoryFrame DEF Complete
  <1>5. RunningInv'
    BY <1>1, <1>3, <1>4 DEF RunningInv
  <1>6. \A m \in Solutions(clauses) : Within(a, m) /\ m[v] = value => Within(assignment', m)
    BY <1>2 DEF Within
  <1> QED
    BY <1>1, <1>2, <1>5, <1>6 DEF IsAtom

(* A branch copies a complete assignment and sets one more variable.       *)
LEMMA BranchStep == ASSUME Inv, Branch PROVE Inv'
  <1>0. TypeOK /\ pc = "choose"
    BY DEF Inv, Branch
  <1>1. PICK v \in Candidates :
          /\ callers' = Append(callers, [assignment |-> assignment, var |-> v, value |-> 1])
          /\ Call(assignment, v, 1)
    BY DEF Branch
  <1> DEFINE n == Len(callers)
             caller == [assignment |-> assignment, var |-> v, value |-> 1]
  <1>2. v \in Var /\ Complete(assignment, clauses)
    BY <1>0, CandidateFacts
  <1>3. assignment \in [Var -> Value] /\ UNCHANGED result
    BY <1>0, <1>1 DEF TypeOK, Call
  <1>4. /\ RunningInv' /\ pc' = "enter" /\ clauses' = clauses /\ nodes' = nodes
        /\ todo' = todo /\ pending' \subseteq Var /\ dirty' \in BOOLEAN
        /\ assignment' \in [Var -> Value]
        /\ \A m \in Solutions(clauses) :
               Within(assignment, m) /\ m[v] = 1 => Within(assignment', m)
    BY <1>0, <1>1, <1>2, <1>3, CallStep
  <1>5. caller \in Caller
    BY <1>2, <1>3 DEF Caller
  <1>6. callers \in Seq(Caller) /\ n \in Nat /\ DOMAIN callers = 1..n
    BY <1>0 DEF TypeOK
  <1>7. /\ callers' \in Seq(Caller) /\ Len(callers') = n + 1 /\ DOMAIN callers' = 1..(n + 1)
        /\ \A k \in 1..n : callers'[k] = callers[k]
        /\ callers'[n + 1] = caller
    BY <1>1, <1>5, <1>6
  <1>8. TypeOK' /\ StartInv'
    BY <1>0, <1>3, <1>4, <1>7 DEF Inv, TypeOK, StartInv
  <1> HIDE DEF n
  <1>9. CallersInv'
    <2> SUFFICES ASSUME NEW k \in 1..(n + 1) PROVE Complete(callers'[k].assignment, clauses)
      BY <1>4, <1>7 DEF CallersInv
    <2>1. CASE k \in 1..n
      BY <1>6, <1>7, <2>1 DEF Inv, CallersInv
    <2>2. CASE k = n + 1
      BY <1>2, <1>7, <2>2
    <2> QED
      BY <1>6, <2>1, <2>2
  <1>10. SolutionInv'
    <2> SUFFICES ASSUME NEW m \in Solutions(clauses)
                 PROVE  /\ Obeys(m, callers', n + 1) => Within(assignment', m)
                        /\ \A k \in 1..(n + 1) : Obeys(m, callers', k - 1) =>
                               /\ Within(callers'[k].assignment, m)
                               /\ callers'[k].value = -1 => m[callers'[k].var] # 1
      BY <1>4, <1>7 DEF SolutionInv
    <2>1. ASSUME NEW k \in 0..n PROVE Obeys(m, callers', k) <=> Obeys(m, callers, k)
      BY <1>6, <1>7 DEF Obeys
    <2>2. Obeys(m, callers, n) => Within(assignment, m)
      BY <1>0 DEF Inv, SolutionInv, n
    <2>3. Obeys(m, callers', n + 1) => Within(assignment', m)
      <3> SUFFICES ASSUME Obeys(m, callers', n + 1) PROVE Within(assignment', m)
        OBVIOUS
      <3>1. Obeys(m, callers', n) /\ m[v] = 1
        BY <1>6, <1>7 DEF Obeys
      <3> QED
        BY <1>4, <1>6, <2>1, <2>2, <3>1
    <2>4. ASSUME NEW k \in 1..(n + 1), Obeys(m, callers', k - 1)
          PROVE  /\ Within(callers'[k].assignment, m)
                 /\ callers'[k].value = -1 => m[callers'[k].var] # 1
      <3>1. k - 1 \in 0..n /\ Obeys(m, callers, k - 1)
        BY <1>6, <2>1, <2>4
      <3>2. CASE k \in 1..n
        BY <1>6, <1>7, <3>1, <3>2 DEF Inv, SolutionInv
      <3>3. CASE k = n + 1
        <4>1. Obeys(m, callers, n)
          BY <1>6, <3>1, <3>3
        <4> QED
          BY <1>7, <2>2, <3>3, <4>1
      <3> QED
        BY <1>6, <3>2, <3>3
    <2> QED
      BY <2>3, <2>4
  <1> QED
    BY <1>4, <1>8, <1>9, <1>10 DEF Inv

(* The answer sat is right.                                                *)
LEMMA LeafStep ==
    ASSUME Inv, Leaf
    PROVE  Inv' /\ result' = "sat" /\ Solutions(clauses) # {} /\ UNCHANGED clauses
  <1>1. /\ TypeOK /\ pc = "choose" /\ Candidates = {} /\ pc' = "done" /\ result' = "sat"
        /\ UNCHANGED <<clauses, assignment, callers, pending, todo, dirty, nodes>>
    BY DEF Inv, Leaf, Conclude
  <1>2. TypeOK' /\ StartInv' /\ RunningInv'
    BY <1>1 DEF TypeOK, StartInv, RunningInv, Running
  <1>3. CallersInv' /\ SolutionInv'
    BY <1>1, CallersFrame, SolutionFrame DEF Inv
  <1>4. Solutions(clauses) # {}
    BY <1>1, CandidateFacts, LeafIsSolution DEF Complete, TheoryIsDone
  <1> QED
    BY <1>1, <1>2, <1>3, <1>4 DEF Inv

(* A refuted call: without a caller no solution is left; its caller tries  *)
(* the other value, and when both are refuted it is refuted itself.        *)
LEMMA BacktrackStep ==
    ASSUME Inv, Backtrack
    PROVE  /\ Inv' /\ UNCHANGED clauses
           /\ result' = "none" \/ (result' = "unsat" /\ Solutions(clauses) = {})
  <1> DEFINE n == Len(callers)
             top == callers[n]
  <1>1. /\ TypeOK /\ StartInv /\ CallersInv /\ pc = "refuted" /\ result = "none"
        /\ DOMAIN callers = 1..n /\ n \in Nat /\ callers \in Seq(Caller)
    BY CallerFacts DEF Inv, TypeOK, StartInv, Backtrack
  <1>2. ASSUME NEW m \in Solutions(clauses)
        PROVE  /\ m \in [Var -> {-1, 1}]
               /\ ~Obeys(m, callers, n)
               /\ \A k \in 1..n : Obeys(m, callers, k - 1) =>
                      /\ Within(callers[k].assignment, m)
                      /\ callers[k].value = -1 => m[callers[k].var] # 1
    BY <1>1, SolutionFacts DEF Inv, SolutionInv
  <1>3. CASE callers = <<>> /\ Conclude("unsat") /\ UNCHANGED nodes
    <2>1. Solutions(clauses) = {}
      BY <1>2, <1>3 DEF Obeys
    <2>2. TypeOK' /\ StartInv' /\ RunningInv'
      BY <1>1, <1>3 DEF Conclude, TypeOK, StartInv, RunningInv, Running
    <2>3. CallersInv'
      BY <1>1, <1>3, CallersFrame DEF Conclude
    <2>4. SolutionInv'
      BY <1>3, <2>1 DEF Conclude, SolutionInv
    <2> QED
      BY <1>3, <2>1, <2>2, <2>3, <2>4 DEF Inv, Conclude
  <1> HIDE DEF n
  <1>4. ASSUME callers # <<>>
        PROVE  /\ n \in 1..n /\ n > 0 /\ n - 1 \in Nat
               /\ top \in Caller /\ top.assignment \in [Var -> Value] /\ top.var \in Var
               /\ Complete(top.assignment, clauses)
    <2>1. n # 0
      BY <1>1, <1>4 DEF n
    <2>2. n \in 1..n /\ n > 0 /\ n - 1 \in Nat
      BY <1>1, <2>1
    <2> QED
      BY <1>1, <2>2, CallerFacts DEF CallersInv
  <1>5. ASSUME callers # <<>>, top.value = 1,
               callers' = [callers EXCEPT ![n].value = -1],
               Call(top.assignment, top.var, -1)
        PROVE  Inv' /\ UNCHANGED <<clauses, result>>
    <2> DEFINE other == [top EXCEPT !.value = -1]
    <2>1. other \in Caller /\ other.assignment = top.assignment /\ other.var = top.var
          /\ other.value = -1
      BY <1>4, <1>5 DEF Caller
    <2>2. callers' = [callers EXCEPT ![n] = other]
      BY <1>5
    <2> HIDE DEF other
    <2>3. /\ callers' \in Seq(Caller) /\ Len(callers') = n /\ DOMAIN callers' = 1..n
          /\ callers'[n] = other
          /\ \A k \in 1..n : k # n => callers'[k] = callers[k]
      BY <1>1, <1>4, <1>5, <2>1, <2>2 DEF n
    <2>4. UNCHANGED result
      BY <1>5 DEF Call
    <2>5. /\ RunningInv' /\ pc' = "enter" /\ clauses' = clauses /\ nodes' = nodes
          /\ todo' = todo /\ pending' \subseteq Var /\ dirty' \in BOOLEAN
          /\ assignment' \in [Var -> Value]
          /\ \A m \in Solutions(clauses) :
                 Within(top.assignment, m) /\ m[top.var] = -1 => Within(assignment', m)
      BY <1>1, <1>4, <1>5, <2>4, CallStep
    <2>6. TypeOK' /\ StartInv'
      BY <1>1, <2>3, <2>4, <2>5 DEF TypeOK, StartInv
    <2>7. CallersInv'
      <3> SUFFICES ASSUME NEW k \in 1..n PROVE Complete(callers'[k].assignment, clauses)
        BY <2>3, <2>5 DEF CallersInv
      <3> QED
        BY <1>1, <1>4, <1>5, <2>1, <2>3 DEF CallersInv
    <2>8. SolutionInv'
      <3> SUFFICES ASSUME NEW m \in Solutions(clauses)
                   PROVE  /\ Obeys(m, callers', n) => Within(assignment', m)
                          /\ \A k \in 1..n : Obeys(m, callers', k - 1) =>
                                 /\ Within(callers'[k].assignment, m)
                                 /\ callers'[k].value = -1 => m[callers'[k].var] # 1
        BY <2>3, <2>5 DEF SolutionInv
      <3>1. ASSUME NEW k \in 0..(n - 1) PROVE Obeys(m, callers', k) <=> Obeys(m, callers, k)
        BY <1>1, <1>4, <1>5, <2>3 DEF Obeys
      <3>2. Obeys(m, callers, n - 1) => Within(top.assignment, m) /\ m[top.var] # 1
        <4> SUFFICES ASSUME Obeys(m, callers, n - 1)
                     PROVE  Within(top.assignment, m) /\ m[top.var] # 1
          OBVIOUS
        <4>1. Within(top.assignment, m)
          BY <1>2, <1>4, <1>5
        <4>2. ASSUME m[top.var] = 1 PROVE FALSE
          <5>1. \A j \in 1..n : j = n \/ j \in 1..(n - 1)
            BY <1>1
          <5>2. Obeys(m, callers, n)
            BY <1>5, <4>2, <5>1 DEF Obeys
          <5> QED
            BY <1>2, <5>2
        <4> QED
          BY <4>1, <4>2
      <3>3. Obeys(m, callers', n) => Within(assignment', m)
        <4> SUFFICES ASSUME Obeys(m, callers', n) PROVE Within(assignment', m)
          OBVIOUS
        <4>1. m[top.var] = -1 /\ Obeys(m, callers', n - 1)
          BY <1>1, <1>4, <1>5, <2>1, <2>3 DEF Obeys
        <4>2. n - 1 \in 0..(n - 1)
          BY <1>1, <1>4, <1>5
        <4>3. Obeys(m, callers, n - 1)
          BY <3>1, <4>1, <4>2
        <4> QED
          BY <2>5, <3>2, <4>1, <4>3
      <3>4. ASSUME NEW k \in 1..n, Obeys(m, callers', k - 1)
            PROVE  /\ Within(callers'[k].assignment, m)
                   /\ callers'[k].value = -1 => m[callers'[k].var] # 1
        <4>1. Obeys(m, callers, k - 1)
          BY <1>1, <3>1, <3>4
        <4>2. CASE k = n
          BY <2>1, <2>3, <3>2, <4>1, <4>2
        <4>3. CASE k # n
          BY <1>2, <2>3, <4>1, <4>3
        <4> QED
          BY <4>2, <4>3
      <3> QED
        BY <3>3, <3>4
    <2> QED
      BY <2>4, <2>5, <2>6, <2>7, <2>8 DEF Inv
  <1>6. ASSUME callers # <<>>, top.value = -1,
               assignment' = top.assignment,
               callers' = SubSeq(callers, 1, n - 1),
               UNCHANGED <<pc, clauses, pending, todo, dirty, nodes, result>>
        PROVE  Inv' /\ UNCHANGED <<clauses, result>>
    <2>1. /\ callers' \in Seq(Caller) /\ Len(callers') = n - 1 /\ DOMAIN callers' = 1..(n - 1)
          /\ \A k \in 1..(n - 1) : k \in 1..n /\ callers'[k] = callers[k]
      BY <1>1, <1>4, <1>6 DEF n
    <2>2. TypeOK' /\ StartInv' /\ RunningInv'
      BY <1>1, <1>4, <1>6, <2>1 DEF TypeOK, StartInv, RunningInv, Running
    <2>3. CallersInv'
      BY <1>1, <1>6, <2>1 DEF CallersInv
    <2>4. SolutionInv'
      <3> SUFFICES ASSUME NEW m \in Solutions(clauses)
                   PROVE  /\ ~Obeys(m, callers', n - 1)
                          /\ \A k \in 1..(n - 1) : Obeys(m, callers', k - 1) =>
                                 /\ Within(callers'[k].assignment, m)
                                 /\ callers'[k].value = -1 => m[callers'[k].var] # 1
        BY <1>1, <1>6, <2>1 DEF SolutionInv
      <3>1. ASSUME NEW k \in 0..(n - 1) PROVE Obeys(m, callers', k) <=> Obeys(m, callers, k)
        BY <1>1, <1>4, <1>6, <2>1 DEF Obeys
      <3>2. ASSUME Obeys(m, callers', n - 1) PROVE FALSE
        <4>1. Obeys(m, callers, n - 1)
          BY <1>1, <1>4, <1>6, <3>1, <3>2
        <4>2. m[top.var] = -1
          BY <1>2, <1>4, <1>6, <4>1
        <4>3. \A j \in 1..n : j = n \/ j \in 1..(n - 1)
          BY <1>1
        <4>4. Obeys(m, callers, n)
          BY <1>6, <4>1, <4>2, <4>3 DEF Obeys
        <4> QED
          BY <1>2, <4>4
      <3>3. ASSUME NEW k \in 1..(n - 1), Obeys(m, callers', k - 1)
            PROVE  /\ Within(callers'[k].assignment, m)
                   /\ callers'[k].value = -1 => m[callers'[k].var] # 1
        <4>1. Obeys(m, callers, k - 1)
          BY <1>1, <1>4, <1>6, <3>1, <3>3
        <4> QED
          BY <1>2, <2>1, <4>1
      <3> QED
        BY <3>2, <3>3
    <2> QED
      BY <1>6, <2>2, <2>3, <2>4 DEF Inv
  <1> QED
    BY <1>1, <1>3, <1>5, <1>6 DEF Backtrack, n

-----------------------------------------------------------------------------
(* What a step does to the answer.                                         *)
Answered ==
    /\ UNCHANGED clauses
    /\ \/ UNCHANGED result
       \/ /\ result = "none"
          /\ \/ result' = "unsupported"
             \/ result' = "sat" /\ Solutions(clauses) # {}
             \/ result' = "unsat" /\ Solutions(clauses) = {}

(* Every step keeps the invariant, and answers rightly or not at all.      *)
THEOREM NextInv == Inv /\ [Next]_vars => Inv' /\ Answered
  <1> SUFFICES ASSUME Inv, [Next]_vars PROVE Inv' /\ Answered
    OBVIOUS
  <1>1. pc # "done" => result = "none"
    BY DEF Inv, StartInv
  <1>2. CASE Begin
    BY <1>1, <1>2, BeginStep DEF Answered, Begin, Conclude
  <1>3. CASE Enter
    BY <1>1, <1>3, EnterStep DEF Answered, Enter
  <1>4. CASE PopPending
    BY <1>4, PopPendingStep DEF Answered, PopPending
  <1>5. CASE LookAtClause
    BY <1>5, LookAtClauseStep DEF Answered, LookAtClause, Refuted
  <1>6. CASE TheoryFails
    BY <1>6, TheoryFailsStep DEF Answered, TheoryFails, Refuted
  <1>7. CASE TheoryPropagates
    BY <1>7, TheoryPropagatesStep DEF Answered, TheoryPropagates
  <1>8. CASE Settle
    BY <1>8, SettleStep DEF Answered, Settle
  <1>9. CASE Branch
    BY <1>9, BranchStep DEF Answered, Branch, Call
  <1>10. CASE Leaf
    BY <1>1, <1>10, LeafStep DEF Answered, Leaf
  <1>11. CASE Backtrack
    BY <1>1, <1>11, BacktrackStep DEF Answered, Backtrack
  <1>12. CASE UNCHANGED vars
    <2>1. UNCHANGED <<pc, clauses, assignment, callers, pending, todo, dirty, nodes, result>>
      BY <1>12 DEF vars
    <2>2. TypeOK' /\ StartInv' /\ RunningInv'
      BY <2>1 DEF Inv, TypeOK, StartInv, RunningInv, Running, Watched
    <2>3. CallersInv' /\ SolutionInv'
      BY <2>1 DEF Inv, CallersInv, SolutionInv
    <2> QED
      BY <2>1, <2>2, <2>3 DEF Inv, Answered
  <1> QED
    BY <1>2, <1>3, <1>4, <1>5, <1>6, <1>7, <1>8, <1>9, <1>10, <1>11, <1>12 DEF Next, Done

(* The invariant holds in every reachable state of the search.             *)
THEOREM SpecInv == Spec => []Inv
  BY InitInv, NextInv, PTL DEF Spec

(* Whatever is assigned is so in every solution with the values branched   *)
(* on, and a branch is left only if it has no solution.                    *)
THEOREM SearchLosesNoSolution == Spec => []NoSolutionIsLost
  <1>1. Inv => NoSolutionIsLost
    <2> SUFFICES ASSUME Inv PROVE NoSolutionIsLost
      OBVIOUS
    <2>1. TypeOK /\ DOMAIN callers = 1..Len(callers) /\ Len(callers) \in Nat
      BY CallerFacts DEF Inv
    <2>2. ASSUME NEW m, NEW k \in 1..(Len(callers) + 1)
          PROVE  Agrees(m, Above(k)) <=> Obeys(m, callers, k - 1)
      BY <2>1 DEF Agrees, Above, Obeys
    <2>3. ASSUME NEW m \in Solutions(clauses)
          PROVE  /\ Agrees(m, Above(Len(callers) + 1)) <=> Obeys(m, callers, Len(callers))
                 /\ \A k \in DOMAIN callers : Agrees(m, Above(k)) <=> Obeys(m, callers, k - 1)
      BY <2>1, <2>2
    <2>4. AssignedIsImplied
      BY <2>1, <2>3 DEF Inv, SolutionInv, AssignedIsImplied, Within
    <2>5. RefutedHasNoSolution
      BY <2>1, <2>3 DEF Inv, SolutionInv, RefutedHasNoSolution
    <2> QED
      BY <2>1, <2>4, <2>5 DEF NoSolutionIsLost
  <1> QED
    BY <1>1, SpecInv, PTL

(* When propagation returns, no clause is false or unit and the theory     *)
(* neither refutes the assignment nor implies another value.               *)
THEOREM PropagationAlwaysComplete == Spec => []PropagationIsComplete
  <1>1. Inv => PropagationIsComplete
    <2> SUFFICES ASSUME Inv, pc = "choose"
                 PROVE  /\ \A i \in DOMAIN clauses :
                               \/ Sat(assignment, clauses[i])
                               \/ Cardinality(Open(assignment, clauses[i])) > 1
                        /\ ~TheoryRefutes(assignment)
                        /\ Implied(assignment) = assignment
      BY DEF PropagationIsComplete
    <2> QED
      BY CandidateFacts DEF Complete, Settled, TheoryIsDone
  <1> QED
    BY <1>1, SpecInv, PTL

(* The search answers at most once, and sat and unsat are the truth about  *)
(* the clauses.                                                            *)
THEOREM SearchDecides == Spec => ImplementsDecision
  <1>1. Init => D!Unanswered
    BY DEF Init, D!Unanswered
  <1>2. Inv /\ [Next]_vars => [D!Answer]_<<Solutions(clauses) # {}, result>>
    <2> SUFFICES ASSUME Inv, [Next]_vars
                 PROVE  \/ D!Answer
                        \/ UNCHANGED <<Solutions(clauses) # {}, result>>
      BY Zenon
    <2>1. Answered
      BY NextInv
    <2>2. UNCHANGED (Solutions(clauses) # {})
      BY <2>1 DEF Answered, Solutions
    <2> QED
      BY <2>1, <2>2 DEF Answered, D!Answer, D!Truth
  <1> QED
    BY <1>1, <1>2, SpecInv, PTL DEF Spec, ImplementsDecision, D!DecisionSpec
=============================================================================
