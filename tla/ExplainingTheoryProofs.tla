----------------------- MODULE ExplainingTheoryProofs -----------------------
(***************************************************************************)
(* For every arena, table of atoms and assignment: what the closure merges *)
(* follows from the asserted equalities (MergesAreEntailed), and when it   *)
(* returns it has missed nothing (ClosureIsComplete); its edges are a      *)
(* forest whose reasons are older than what they explain (ProofForest),    *)
(* and every conflict clause that is made from it is a lemma of QF_UF that *)
(* the assignment falsifies (ConflictsAreRefutations).                     *)
(*                                                                         *)
(* The first part: the invariant adds what the closure rests on.  For      *)
(* soundness, the keys of the signature map: each stands for the arguments *)
(* of its term in all interpretations, so a stale key is still a true one. *)
(* For completeness, the asserted equalities are merged, and a pass that   *)
(* has merged nothing so far has found every application it visited under  *)
(* its current key.                                                        *)
(*                                                                         *)
(* The second part: a term is out of reach of another one when a set of    *)
(* terms that no edge leaves keeps them apart, so what edges connect is    *)
(* argued with such sets instead of walks.  In a forest the edges whose    *)
(* removal separates two terms connect them (PathConnects).  The           *)
(* explanation is sound by induction on the age of the edges: the          *)
(* arguments of a congruence edge were connected when it was made          *)
(* (ExplainedAreEqual).                                                    *)
(***************************************************************************)
EXTENDS ExplainingTheory, FiniteSetTheorems, NumberInduction, TLAPS

SignaturesAreEntailed ==
    \A p \in AppTerm : signatures[p] # NoSignature =>
        /\ signatures[p][1] = FunOf[p]
        /\ DOMAIN signatures[p][2] = DOMAIN ArgsOf[p]
        /\ \A V \in Models : \A i \in DOMAIN ArgsOf[p] :
               V[signatures[p][2][i]] = V[ArgsOf[p][i]]

KeysAreDistinct ==
    \A p, q \in AppTerm :
        signatures[p] = signatures[q] /\ signatures[p] # NoSignature => p = q

KeysAreVisited ==
    \A p \in AppTerm : signatures[p] # NoSignature => \E i \in 1..(pass - 1) : Apps[i] = p

VarFollowsPc ==
    /\ pc = "explain" => var # NumVars + 1
    /\ pc = "start" => var = 1
    /\ pc = "assert" => var # 0
    /\ pc \in {"start", "assert"} => pass = 1

AssertedAreMerged ==
    \A v \in Var :
        pc = "close" \/ Closed \/ (pc = "assert" /\ v < var) =>
            \A pair \in AssertedBy(v) : Same(pair[1], pair[2])

Found(t) == \E p \in AppTerm : signatures[p] = Signature(t) /\ Same(p, t)

QuietPassFound ==
    pc = "close" /\ ~changed => \A j \in 1..(pass - 1) : Found(Apps[j])

ClosureIsCongruent ==
    Closed => \A s, t \in AppTerm : Signature(s) = Signature(t) => Same(s, t)

Inv ==
    /\ TypeOK
    /\ CongruenceEdgesMatch
    /\ MergesAreEntailed
    /\ SignaturesAreEntailed
    /\ KeysAreDistinct
    /\ KeysAreVisited
    /\ VarFollowsPc
    /\ AssertedAreMerged
    /\ QuietPassFound
    /\ ClosureIsCongruent

-----------------------------------------------------------------------------
(* The arguments of an application are terms, and so are applications.     *)
LEMMA ArgumentsAreTerms ==
    /\ AppTerm \subseteq Term
    /\ \A i \in DOMAIN Apps : Apps[i] \in AppTerm
    /\ \A t \in AppTerm : ArgsOf[t] \in Seq(Term)
    /\ \A t \in AppTerm : \A i \in DOMAIN ArgsOf[t] : ArgsOf[t][i] \in Term
  BY ArenaAssumption DEF AppTerm

(* A signature is a pair of the symbol and the roots of the arguments.     *)
LEMMA SignatureShape ==
    ASSUME NEW t \in AppTerm, root \in [Term -> Term]
    PROVE  /\ Signature(t) \in SignatureType
           /\ Signature(t) # NoSignature
           /\ Signature(t)[1] = FunOf[t]
           /\ DOMAIN Signature(t)[2] = DOMAIN ArgsOf[t]
           /\ \A i \in DOMAIN ArgsOf[t] : Signature(t)[2][i] = root[ArgsOf[t][i]]
  <1> DEFINE rs == [i \in DOMAIN ArgsOf[t] |-> root[ArgsOf[t][i]]]
  <1>1. ArgsOf[t] \in Seq(Term) /\ FunOf[t] \in Fun
    BY ArenaAssumption DEF AppTerm
  <1>2. rs \in Seq(Term)
    BY <1>1
  <1>3. Signature(t) = <<FunOf[t], rs>>
    BY DEF Signature
  <1>4. <<FunOf[t], rs>> # <<>>
    OBVIOUS
  <1> QED
    BY <1>1, <1>2, <1>3, <1>4 DEF SignatureType, NoSignature

(* The equality a literal asserts is one of terms, and a literal of its    *)
(* variable is its reason.                                                 *)
LEMMA AssertedPairsAreTerms ==
    ASSUME atoms \in AtomTables, NEW v \in Var, NEW pair \in AssertedBy(v)
    PROVE  /\ pair[1] \in Term /\ pair[2] \in Term
           /\ LiteralOf(v) \in Literal
  <1>1. atoms[v] \in Atom
    BY TheoryAssumption
  <1>2. atoms[v].left \in Term /\ atoms[v].right \in Term
    BY <1>1 DEF Atom
  <1>3. pair \in {<<atoms[v].left, atoms[v].right>>, <<atoms[v].left, TrueTerm>>,
                  <<atoms[v].left, FalseTerm>>}
    BY <1>1 DEF AssertedBy, Atom
  <1>4. LiteralOf(v) \in Literal
    BY DEF LiteralOf, Literal
  <1> QED
    BY <1>2, <1>3, <1>4, ArenaAssumption

(* The interpretations of the asserted equalities are fixed by the atoms   *)
(* and the assignment, which no step changes.                              *)
LEMMA ModelsAreFixed ==
    ASSUME UNCHANGED <<atoms, assignment>>
    PROVE  Models' = Models /\ \A v \in Var : AssertedBy(v)' = AssertedBy(v)
  BY DEF Models, AssertedPairs, AssertedBy

(* A model is a valuation of the terms that gives the two sides of every   *)
(* asserted equality one value and respects the function symbols.          *)
LEMMA ModelFacts ==
    ASSUME NEW V \in Models
    PROVE  /\ V \in [Term -> Term]
           /\ \A v \in Var : \A pair \in AssertedBy(v) : V[pair[1]] = V[pair[2]]
           /\ \A s, t \in AppTerm : SameUnder(V, s, t) => V[s] = V[t]
  BY DEF Models, AssertedPairs, Interpretations, Valuations, IsCongruent

(* A merge keeps root a function on the terms, keeps what is equal equal   *)
(* and makes its two terms equal; if they are equal in every model then    *)
(* every term keeps the value of its root.                                 *)
LEMMA MergeFacts ==
    ASSUME NEW s \in Term, NEW t \in Term, NEW reason,
           root \in [Term -> Term], Merge(s, t, reason)
    PROVE  /\ root' \in [Term -> Term]
           /\ \A x, y \in Term : Same(x, y) => Same(x, y)'
           /\ Same(s, t)'
           /\ Same(s, t) => root' = root
           /\ \A V \in Models :
                (V[s] = V[t] /\ \A x \in Term : V[root[x]] = V[x])
                    => \A x \in Term : V[root'[x]] = V[x]
  <1>1. CASE Same(s, t) /\ UNCHANGED theory
    BY <1>1 DEF Same, theory
  <1>2. CASE Join(s, t)
    <2>1. ASSUME NEW w \in {s, t}, NEW l \in {s, t}, w # l,
                 Absorb(root[w], root[l])
          PROVE  /\ root' \in [Term -> Term]
                 /\ \A x, y \in Term : Same(x, y) => Same(x, y)'
                 /\ Same(s, t)'
                 /\ \A V \in Models :
                      (V[s] = V[t] /\ \A x \in Term : V[root[x]] = V[x])
                          => \A x \in Term : V[root'[x]] = V[x]
      BY <2>1 DEF Absorb, Same
    <2>2. ~Same(s, t) /\ s # t
      BY <1>2 DEF Join, Same
    <2> QED
      BY <1>2, <2>1, <2>2 DEF Join
  <1> QED
    BY <1>1, <1>2 DEF Merge

(* A merge appends at most one edge, between its two terms.                *)
LEMMA MergeEdges ==
    ASSUME NEW s \in Term, NEW t \in Term, NEW reason \in Literal \cup {Congruence},
           edges \in Seq(Edge), Merge(s, t, reason), CongruenceEdgesMatch,
           reason = Congruence =>
               /\ s \in AppTerm /\ t \in AppTerm
               /\ FunOf[s] = FunOf[t] /\ DOMAIN ArgsOf[s] = DOMAIN ArgsOf[t]
    PROVE  edges' \in Seq(Edge) /\ CongruenceEdgesMatch'
  <1> DEFINE e == [a |-> s, b |-> t, reason |-> reason]
  <1>1. edges' = edges \/ edges' = Append(edges, e)
    BY DEF Merge, theory
  <1>2. e \in Edge
    BY DEF Edge
  <1>3. ASSUME edges' = Append(edges, e) PROVE CongruenceEdgesMatch'
    <2> SUFFICES ASSUME NEW i \in DOMAIN edges', edges'[i].reason = Congruence
                 PROVE  /\ {edges'[i].a, edges'[i].b} \subseteq AppTerm
                        /\ FunOf[edges'[i].a] = FunOf[edges'[i].b]
                        /\ DOMAIN ArgsOf[edges'[i].a] = DOMAIN ArgsOf[edges'[i].b]
      BY DEF CongruenceEdgesMatch
    <2>1. CASE i \in DOMAIN edges
      BY <1>3, <2>1 DEF CongruenceEdgesMatch
    <2>2. CASE i = Len(edges) + 1
      BY <1>3, <2>2
    <2> QED
      BY <1>3, <2>1, <2>2
  <1> QED
    BY <1>1, <1>2, <1>3 DEF CongruenceEdgesMatch

-----------------------------------------------------------------------------
(* Nothing is merged and nothing explained when the call starts.           *)
THEOREM InitInv == Init => Inv
  <1> SUFFICES ASSUME Init PROVE Inv
    OBVIOUS
  <1>1. TypeOK
    <2>1. root \in [Term -> Term] /\ edges \in Seq(Edge)
      BY DEF Init, Singletons
    <2>2. pass \in 1..(Len(Apps) + 1) /\ var \in 0..(NumVars + 1)
      BY ArenaAssumption DEF Init
    <2>3. signatures \in [AppTerm -> SignatureType]
      BY DEF Init, SignatureType
    <2> QED
      BY <2>1, <2>2, <2>3 DEF Init, TypeOK
  <1>2. CongruenceEdgesMatch
    BY DEF Init, CongruenceEdgesMatch
  <1>3. MergesAreEntailed
    BY DEF Init, Singletons, MergesAreEntailed
  <1>4. SignaturesAreEntailed /\ KeysAreDistinct /\ KeysAreVisited
    BY DEF Init, SignaturesAreEntailed, KeysAreDistinct, KeysAreVisited
  <1>5. VarFollowsPc /\ AssertedAreMerged /\ QuietPassFound /\ ClosureIsCongruent
    BY DEF Init, VarFollowsPc, AssertedAreMerged, QuietPassFound,
           ClosureIsCongruent, Closed
  <1> QED
    BY <1>1, <1>2, <1>3, <1>4, <1>5 DEF Inv

(* What a step that leaves the theory and the signature map alone keeps.   *)
LEMMA TheoryUntouched ==
    ASSUME Inv, UNCHANGED <<atoms, assignment, root, edges, signatures>>
    PROVE  CongruenceEdgesMatch' /\ MergesAreEntailed' /\ SignaturesAreEntailed'
             /\ KeysAreDistinct'
  <1>1. Models' = Models
    BY ModelsAreFixed
  <1>2. CongruenceEdgesMatch' /\ KeysAreDistinct'
    BY DEF Inv, CongruenceEdgesMatch, KeysAreDistinct
  <1>3. MergesAreEntailed'
    BY <1>1 DEF Inv, MergesAreEntailed
  <1>4. SignaturesAreEntailed'
    BY <1>1 DEF Inv, SignaturesAreEntailed
  <1> QED
    BY <1>2, <1>3, <1>4

(* What a merge of two terms equal in all models keeps.                    *)
LEMMA MergeStep ==
    ASSUME Inv, UNCHANGED <<atoms, assignment>>,
           NEW s \in Term, NEW t \in Term, NEW reason \in Literal \cup {Congruence},
           Merge(s, t, reason),
           \A V \in Models : V[s] = V[t],
           reason = Congruence =>
               /\ s \in AppTerm /\ t \in AppTerm
               /\ FunOf[s] = FunOf[t] /\ DOMAIN ArgsOf[s] = DOMAIN ArgsOf[t]
    PROVE  /\ root' \in [Term -> Term] /\ edges' \in Seq(Edge)
           /\ CongruenceEdgesMatch' /\ MergesAreEntailed'
           /\ \A x, y \in Term : Same(x, y) => Same(x, y)'
           /\ Same(s, t)'
  <1>1. root \in [Term -> Term] /\ edges \in Seq(Edge)
    BY DEF Inv, TypeOK
  <1>2. Models' = Models
    BY ModelsAreFixed
  <1>3. edges' \in Seq(Edge) /\ CongruenceEdgesMatch'
    BY <1>1, MergeEdges DEF Inv
  <1>4. MergesAreEntailed'
    BY <1>1, <1>2, MergeFacts DEF Inv, MergesAreEntailed
  <1> QED
    BY <1>1, <1>3, <1>4, MergeFacts

(* Asserting the next literal.                                             *)
LEMMA AssertVarStep == Inv /\ AssertVar => Inv'
  <1> SUFFICES ASSUME Inv, AssertVar PROVE Inv'
    OBVIOUS
  <1> USE DEF Inv
  <1>1. /\ pc = "assert" /\ pc' = "assert" /\ var \in Var /\ var' = var + 1
        /\ UNCHANGED <<atoms, assignment>> /\ UNCHANGED closing
        /\ UNCHANGED explaining
    BY DEF AssertVar
  <1>2. Models' = Models /\ \A v \in Var : AssertedBy(v)' = AssertedBy(v)
    BY <1>1, ModelsAreFixed
  <1> DEFINE Kept ==
        /\ root' \in [Term -> Term] /\ edges' \in Seq(Edge)
        /\ CongruenceEdgesMatch' /\ MergesAreEntailed'
        /\ \A x, y \in Term : Same(x, y) => Same(x, y)'
  <1>3. Kept /\ \A pair \in AssertedBy(var) : Same(pair[1], pair[2])'
    <2>1. CASE AssertedBy(var) = {} /\ UNCHANGED theory
      BY <1>2, <2>1 DEF theory, TypeOK, CongruenceEdgesMatch, Same, MergesAreEntailed
    <2>2. ASSUME NEW pair \in AssertedBy(var),
                 Merge(pair[1], pair[2], LiteralOf(var))
          PROVE  Kept /\ Same(pair[1], pair[2])'
      <3>1. pair[1] \in Term /\ pair[2] \in Term /\ LiteralOf(var) \in Literal
        BY <1>1, AssertedPairsAreTerms DEF TypeOK
      <3>2. LiteralOf(var) # Congruence
        BY <1>1 DEF LiteralOf, Congruence, Var
      <3>3. \A V \in Models : V[pair[1]] = V[pair[2]]
        BY <1>1, ModelFacts
      <3> QED
        BY <1>1, <2>2, <3>1, <3>2, <3>3, MergeStep
    <2>3. \A p, q \in AssertedBy(var) : p = q
      BY DEF AssertedBy
    <2> QED
      BY <2>1, <2>2, <2>3, <1>1 DEF AssertVar
  <1>4. TypeOK'
    BY <1>1, <1>3, ArenaAssumption DEF TypeOK, closing, explaining, Var
  <1>5. SignaturesAreEntailed' /\ KeysAreDistinct' /\ KeysAreVisited'
    BY <1>1, <1>2 DEF closing, SignaturesAreEntailed, KeysAreDistinct, KeysAreVisited
  <1>6. AssertedAreMerged'
    <2> SUFFICES ASSUME NEW v \in Var, v < var + 1, NEW pair \in AssertedBy(v)
                 PROVE  Same(pair[1], pair[2])'
      BY <1>1, <1>2 DEF AssertedAreMerged, Closed
    <2>1. pair[1] \in Term /\ pair[2] \in Term
      BY AssertedPairsAreTerms DEF TypeOK
    <2>2. CASE v = var
      BY <2>2, <1>3
    <2>3. CASE v < var
      BY <2>1, <2>3, <1>1, <1>3 DEF AssertedAreMerged
    <2> QED
      BY <2>2, <2>3, <1>1 DEF Var
  <1>7. VarFollowsPc' /\ QuietPassFound' /\ ClosureIsCongruent'
    BY <1>1 DEF VarFollowsPc, QuietPassFound, ClosureIsCongruent, Closed, closing, Var
  <1> QED
    BY <1>3, <1>4, <1>5, <1>6, <1>7

(* One application of a pass.                                              *)
LEMMA CloseAppStep == Inv /\ CloseApp => Inv'
  <1> SUFFICES ASSUME Inv, CloseApp PROVE Inv'
    OBVIOUS
  <1> USE DEF Inv
  <1>0. PICK t \in AppTerm : pass \in DOMAIN Apps /\ t = Apps[pass]
    BY ArgumentsAreTerms DEF CloseApp
  <1> DEFINE hits == {p \in AppTerm : signatures[p] = Signature(t)}
  <1>1. /\ pc = "close" /\ pc' = "close" /\ pass \in DOMAIN Apps /\ pass' = pass + 1
        /\ UNCHANGED <<atoms, assignment, var>> /\ UNCHANGED explaining
    BY DEF CloseApp
  <1>2. Models' = Models /\ \A v \in Var : AssertedBy(v)' = AssertedBy(v)
    BY <1>1, ModelsAreFixed
  <1>3. t \in AppTerm /\ t \in Term
    BY ArgumentsAreTerms
  <1>4. /\ Signature(t) \in SignatureType /\ Signature(t) # NoSignature
        /\ Signature(t)[1] = FunOf[t]
        /\ DOMAIN Signature(t)[2] = DOMAIN ArgsOf[t]
        /\ \A i \in DOMAIN ArgsOf[t] : Signature(t)[2][i] = root[ArgsOf[t][i]]
    BY <1>3, SignatureShape DEF TypeOK
  <1>5. pass' \in 1..(Len(Apps) + 1)
    BY <1>1, ArenaAssumption
  <1>6. ClosureIsCongruent' /\ VarFollowsPc'
    BY <1>1 DEF ClosureIsCongruent, Closed, VarFollowsPc
  <1>7. CASE /\ hits = {}
             /\ signatures' = [signatures EXCEPT ![t] = Signature(t)]
             /\ UNCHANGED <<theory, changed>>
    <2>1. UNCHANGED <<root, edges, changed>>
      BY <1>7 DEF theory
    <2>2. TypeOK'
      BY <1>1, <1>4, <1>5, <1>7, <2>1 DEF TypeOK, explaining
    <2>3. CongruenceEdgesMatch' /\ MergesAreEntailed' /\ AssertedAreMerged'
      BY <1>1, <1>2, <2>1
      DEF CongruenceEdgesMatch, MergesAreEntailed, AssertedAreMerged, Same, Closed
    <2>4. \A p \in AppTerm : signatures'[p] = IF p = t THEN Signature(t) ELSE signatures[p]
      BY <1>7 DEF TypeOK
    <2>5. SignaturesAreEntailed'
      <3>1. \A V \in Models : \A i \in DOMAIN ArgsOf[t] :
                V[Signature(t)[2][i]] = V[ArgsOf[t][i]]
        BY <1>3, <1>4, ArgumentsAreTerms DEF MergesAreEntailed
      <3> QED
        BY <1>2, <1>4, <2>4, <3>1 DEF SignaturesAreEntailed
    <2>6. KeysAreDistinct'
      BY <1>7, <2>4 DEF KeysAreDistinct
    <2>7. KeysAreVisited'
      BY <1>0, <1>1, <2>4, ArenaAssumption DEF KeysAreVisited
    <2>8. QuietPassFound'
      <3> SUFFICES ASSUME ~changed, NEW j \in 1..pass PROVE Found(Apps[j])'
        BY <1>1, <2>1, ArenaAssumption DEF QuietPassFound
      <3>1. \A u \in AppTerm : Signature(u)' = Signature(u)
        BY <2>1 DEF Signature
      <3>2. CASE j = pass
        BY <1>0, <2>4, <3>1, <3>2 DEF Found, Same
      <3>3. CASE j \in 1..(pass - 1)
        <4>1. PICK p \in AppTerm : signatures[p] = Signature(Apps[j]) /\ Same(p, Apps[j])
          BY <1>1, <3>3 DEF QuietPassFound, Found
        <4>2. Apps[j] \in AppTerm
          BY <1>1, <3>3, ArenaAssumption DEF AppTerm
        <4>3. p # t
          <5> SUFFICES ASSUME p = t PROVE FALSE
            OBVIOUS
          <5>1. signatures[p] # NoSignature
            BY <4>1, <4>2, SignatureShape DEF TypeOK
          <5>2. PICK i \in 1..(pass - 1) : Apps[i] = t
            BY <5>1 DEF KeysAreVisited
          <5>3. Found(t)
            BY <1>1, <5>2 DEF QuietPassFound
          <5> QED
            BY <1>7, <5>3 DEF Found
        <4>4. signatures'[p] = Signature(Apps[j])' /\ Same(p, Apps[j])'
          BY <2>1, <2>4, <3>1, <4>1, <4>2, <4>3 DEF Same
        <4> QED
          BY <4>4 DEF Found
      <3> QED
        BY <3>2, <3>3, <1>1, ArenaAssumption
    <2> QED
      BY <1>6, <2>2, <2>3, <2>5, <2>6, <2>7, <2>8
  <1>8. ASSUME NEW previous \in hits, Merge(previous, t, Congruence),
               changed' = (changed \/ ~Same(previous, t)), UNCHANGED signatures
        PROVE  Inv'
    <2>1. previous \in AppTerm /\ previous \in Term /\ signatures[previous] = Signature(t)
      BY ArgumentsAreTerms
    <2>2. FunOf[previous] = FunOf[t] /\ DOMAIN ArgsOf[previous] = DOMAIN ArgsOf[t]
      BY <1>4, <2>1 DEF SignaturesAreEntailed
    <2>3. \A V \in Models : V[previous] = V[t]
      <3> SUFFICES ASSUME NEW V \in Models PROVE V[previous] = V[t]
        OBVIOUS
      <3>1. \A i \in DOMAIN ArgsOf[t] : V[ArgsOf[previous][i]] = V[ArgsOf[t][i]]
        BY <1>3, <1>4, <2>1, <2>2, ArgumentsAreTerms
        DEF SignaturesAreEntailed, MergesAreEntailed
      <3>2. SameUnder(V, previous, t)
        BY <2>2, <3>1 DEF SameUnder
      <3> QED
        BY <1>3, <2>1, <3>2, ModelFacts
    <2>4. /\ root' \in [Term -> Term] /\ edges' \in Seq(Edge)
          /\ CongruenceEdgesMatch' /\ MergesAreEntailed'
          /\ \A x, y \in Term : Same(x, y) => Same(x, y)'
          /\ Same(previous, t)'
      <3>1. UNCHANGED <<atoms, assignment>> /\ Merge(previous, t, Congruence)
        BY <1>1, <1>8
      <3> HIDE DEF hits
      <3> QED
        BY <1>3, <2>1, <2>2, <2>3, <3>1, MergeStep
    <2>5. TypeOK'
      BY <1>1, <1>5, <1>8, <2>4 DEF TypeOK, explaining
    <2>6. SignaturesAreEntailed' /\ KeysAreDistinct' /\ KeysAreVisited'
      BY <1>1, <1>2, <1>8, ArenaAssumption
      DEF SignaturesAreEntailed, KeysAreDistinct, KeysAreVisited
    <2>7. AssertedAreMerged'
      BY <1>1, <1>2, <2>4, AssertedPairsAreTerms DEF AssertedAreMerged, TypeOK, Closed
    <2>8. QuietPassFound'
      <3> SUFFICES ASSUME ~changed', NEW j \in 1..pass PROVE Found(Apps[j])'
        BY <1>1, ArenaAssumption DEF QuietPassFound
      <3>1. ~changed /\ Same(previous, t)
        BY <1>8 DEF TypeOK
      <3>2. root' = root
        BY <1>3, <1>8, <2>1, <3>1, MergeFacts DEF TypeOK
      <3>3. \A u \in AppTerm : Signature(u)' = Signature(u)
        BY <3>2 DEF Signature
      <3>4. CASE j = pass
        BY <1>0, <1>8, <2>1, <2>4, <3>3, <3>4 DEF Found
      <3>5. CASE j \in 1..(pass - 1)
        <4>1. Found(Apps[j]) /\ Apps[j] \in AppTerm
          BY <1>1, <3>1, <3>5, ArenaAssumption DEF QuietPassFound, AppTerm
        <4> QED
          BY <1>8, <3>2, <3>3, <4>1 DEF Found, Same
      <3> QED
        BY <3>4, <3>5, <1>1, ArenaAssumption
    <2> QED
      BY <1>6, <2>4, <2>5, <2>6, <2>7, <2>8
  <1> QED
    BY <1>0, <1>7, <1>8 DEF CloseApp

(* The end of a pass: a quiet one leaves a closed partition.               *)
LEMMA EndPassStep == Inv /\ EndPass => Inv'
  <1> SUFFICES ASSUME Inv, EndPass PROVE Inv'
    OBVIOUS
  <1>1. /\ pc = "close" /\ pass = Len(Apps) + 1
        /\ UNCHANGED <<atoms, assignment>> /\ UNCHANGED theory /\ UNCHANGED explaining
    BY ArenaAssumption DEF EndPass, Inv, TypeOK
  <1>2. Models' = Models /\ \A v \in Var : AssertedBy(v)' = AssertedBy(v)
    BY <1>1, ModelsAreFixed
  <1>3. UNCHANGED <<root, edges>>
    BY <1>1 DEF theory
  <1>4. CongruenceEdgesMatch' /\ MergesAreEntailed'
    BY <1>2, <1>3 DEF Inv, CongruenceEdgesMatch, MergesAreEntailed
  <1>5. CASE /\ changed /\ pass' = 1 /\ changed' = FALSE
             /\ signatures' = [t \in AppTerm |-> NoSignature]
             /\ UNCHANGED <<pc, var>>
    <2>1. TypeOK'
      <3>1. signatures' \in [AppTerm -> SignatureType]
        BY <1>5 DEF SignatureType
      <3>2. pass' \in 1..(Len(Apps) + 1)
        BY <1>5, ArenaAssumption
      <3> QED
        BY <1>1, <1>3, <1>5, <3>1, <3>2 DEF Inv, TypeOK, explaining
    <2>2. SignaturesAreEntailed' /\ KeysAreDistinct' /\ KeysAreVisited'
      BY <1>5 DEF SignaturesAreEntailed, KeysAreDistinct, KeysAreVisited
    <2>3. AssertedAreMerged' /\ VarFollowsPc'
      BY <1>1, <1>2, <1>3, <1>5 DEF Inv, AssertedAreMerged, VarFollowsPc, Same, Closed
    <2>4. QuietPassFound' /\ ClosureIsCongruent'
      BY <1>1, <1>5 DEF QuietPassFound, ClosureIsCongruent, Closed
    <2> QED
      BY <1>4, <2>1, <2>2, <2>3, <2>4 DEF Inv
  <1>6. CASE ~changed /\ pc' = "check" /\ var' = 0 /\ UNCHANGED closing
    <2>1. TypeOK'
      BY <1>1, <1>3, <1>6, ArenaAssumption DEF Inv, TypeOK, explaining, closing
    <2>2. SignaturesAreEntailed' /\ KeysAreDistinct' /\ KeysAreVisited'
      BY <1>2, <1>6 DEF Inv, closing, SignaturesAreEntailed, KeysAreDistinct, KeysAreVisited
    <2>3. AssertedAreMerged' /\ VarFollowsPc' /\ QuietPassFound'
      BY <1>1, <1>2, <1>3, <1>6
      DEF Inv, AssertedAreMerged, VarFollowsPc, QuietPassFound, Same, Closed
    <2>4. ASSUME NEW s \in AppTerm, NEW t \in AppTerm, Signature(s) = Signature(t)
          PROVE  Same(s, t)
      <3>1. \A u \in AppTerm : Found(u)
        BY <1>1, <1>6, ArenaAssumption DEF Inv, QuietPassFound, AppTerm
      <3>2. PICK p \in AppTerm : signatures[p] = Signature(s) /\ Same(p, s)
        BY <3>1 DEF Found
      <3>3. PICK q \in AppTerm : signatures[q] = Signature(t) /\ Same(q, t)
        BY <3>1 DEF Found
      <3>4. p = q
        BY <2>4, <3>2, <3>3, SignatureShape DEF Inv, KeysAreDistinct, TypeOK
      <3> QED
        BY <3>2, <3>3, <3>4 DEF Same
    <2>5. ClosureIsCongruent'
      BY <1>3, <2>4 DEF ClosureIsCongruent, Signature, Same
    <2> QED
      BY <1>4, <2>1, <2>2, <2>3, <2>5 DEF Inv
  <1> QED
    BY <1>5, <1>6 DEF EndPass

(* The steps before the assertions and between them and the closure.       *)
LEMMA StartStep == Inv /\ (Refuse \/ Start \/ AssertedAll) => Inv'
  <1> SUFFICES ASSUME Inv, Refuse \/ Start \/ AssertedAll PROVE Inv'
    OBVIOUS
  <1>1. /\ UNCHANGED <<atoms, assignment, var, root, edges, pass, signatures, changed,
                       todo, expanded, reasons, conflicts>>
        /\ \/ pc = "start" /\ pc' \in {"none", "assert"} /\ var = 1 /\ pass = 1
           \/ pc = "assert" /\ pc' = "close" /\ var \notin Var /\ pass = 1
    BY DEF Refuse, Start, AssertedAll, theory, closing, explaining, Inv, VarFollowsPc
  <1>2. CongruenceEdgesMatch' /\ MergesAreEntailed' /\ SignaturesAreEntailed'
          /\ KeysAreDistinct'
    BY <1>1, TheoryUntouched
  <1>3. TypeOK' /\ KeysAreVisited' /\ VarFollowsPc'
    BY <1>1 DEF Inv, TypeOK, KeysAreVisited, VarFollowsPc
  <1>4. AssertedAreMerged'
    <2>1. \A v \in Var : AssertedBy(v)' = AssertedBy(v)
      BY <1>1, ModelsAreFixed
    <2>2. CASE pc = "start" /\ pc' \in {"none", "assert"} /\ var = 1
      BY <1>1, <2>2 DEF AssertedAreMerged, Closed, Var
    <2>3. CASE pc = "assert" /\ var \notin Var
      <3>1. \A v \in Var : v < var
        BY <2>3, ArenaAssumption DEF Inv, VarFollowsPc, TypeOK, Var
      <3> QED
        BY <1>1, <2>1, <2>3, <3>1 DEF Inv, AssertedAreMerged, Same
    <2> QED
      BY <1>1, <2>2, <2>3
  <1>5. QuietPassFound' /\ ClosureIsCongruent'
    BY <1>1 DEF QuietPassFound, ClosureIsCongruent, Closed
  <1> QED
    BY <1>2, <1>3, <1>4, <1>5 DEF Inv

(* A literal is not the mark of a congruence edge, and its opposite is a   *)
(* literal.                                                                *)
LEMMA LiteralFacts ==
    /\ \A l \in Literal : -l \in Literal
    /\ \A v \in Var : v \in Literal /\ -v \in Literal
  BY ArenaAssumption DEF Literal, Var

(* An expanded pair puts literals and pairs of terms on the lists.         *)
LEMMA ExplainPairTypes ==
    ASSUME Inv, ExplainPair
    PROVE  todo' \subseteq SUBSET Term /\ expanded' \subseteq SUBSET Term
             /\ reasons' \subseteq Literal
  <1>1. todo \subseteq SUBSET Term /\ expanded \subseteq SUBSET Term
          /\ reasons \subseteq Literal /\ edges \in Seq(Edge) /\ CongruenceEdgesMatch
    BY DEF Inv, TypeOK
  <1>2. PICK pair \in todo :
            \/ todo' = todo \ {pair} /\ UNCHANGED <<expanded, reasons>>
            \/ \E a \in pair : \E b \in pair \ {a} :
                 LET path == {edges[i] : i \in Path(a, b)}
                     derived == {e \in path : e.reason = Congruence}
                 IN  /\ expanded' = expanded \cup {pair}
                     /\ reasons' = reasons \cup {e.reason : e \in path \ derived}
                     /\ todo' = (todo \ {pair}) \cup UNION {ArgPairs(e.a, e.b) : e \in derived}
    BY DEF ExplainPair
  <1>3. CASE todo' = todo \ {pair} /\ UNCHANGED <<expanded, reasons>>
    BY <1>1, <1>3
  <1>4. ASSUME NEW a \in pair, NEW b \in pair \ {a},
               NEW path, path = {edges[i] : i \in Path(a, b)},
               NEW derived, derived = {e \in path : e.reason = Congruence},
               expanded' = expanded \cup {pair},
               reasons' = reasons \cup {e.reason : e \in path \ derived},
               todo' = (todo \ {pair}) \cup UNION {ArgPairs(e.a, e.b) : e \in derived}
        PROVE  todo' \subseteq SUBSET Term /\ expanded' \subseteq SUBSET Term
                 /\ reasons' \subseteq Literal
    <2>1. \A e \in path : \E i \in DOMAIN edges : e = edges[i]
      BY <1>4 DEF Path
    <2>2. \A e \in path : e.reason \in Literal \cup {Congruence}
      <3>1. \A i \in DOMAIN edges : edges[i] \in Edge
        BY <1>1
      <3> QED
        BY <2>1, <3>1 DEF Edge
    <2>3. \A e \in derived : ArgPairs(e.a, e.b) \subseteq SUBSET Term
      <3> SUFFICES ASSUME NEW e \in derived, NEW i \in DOMAIN ArgsOf[e.a]
                   PROVE  Pair(ArgsOf[e.a][i], ArgsOf[e.b][i]) \subseteq Term
        BY DEF ArgPairs
      <3>1. /\ e.a \in AppTerm /\ e.b \in AppTerm
            /\ DOMAIN ArgsOf[e.a] = DOMAIN ArgsOf[e.b]
        BY <1>1, <1>4, <2>1 DEF CongruenceEdgesMatch
      <3> QED
        BY <3>1, ArgumentsAreTerms DEF Pair
    <2>4. reasons' \subseteq Literal
      BY <1>1, <1>4, <2>2
    <2>5. todo' \subseteq SUBSET Term
      BY <1>1, <1>4, <2>3
    <2> QED
      BY <1>1, <1>4, <2>4, <2>5
  <1> QED
    BY <1>2, <1>3, <1>4

(* The steps after the closure: they read the theory and never change it.  *)
LEMMA ExplainStep ==
    Inv /\ (StartExplanation \/ NoConflict \/ ExplainPair \/ EndExplanation \/ Return)
        => Inv'
  <1> SUFFICES ASSUME Inv,
                      StartExplanation \/ NoConflict \/ ExplainPair
                        \/ EndExplanation \/ Return
               PROVE  Inv'
    OBVIOUS
  <1>1. /\ UNCHANGED <<atoms, assignment, root, edges, pass, signatures, changed>>
        /\ Closed /\ Closed'
    BY DEF StartExplanation, NoConflict, ExplainPair, EndExplanation, Return,
           theory, closing, Closed
  <1>2. CongruenceEdgesMatch' /\ MergesAreEntailed' /\ SignaturesAreEntailed'
          /\ KeysAreDistinct'
    BY <1>1, TheoryUntouched
  <1>3. todo' \subseteq SUBSET Term /\ expanded' \subseteq SUBSET Term
          /\ reasons' \subseteq Literal /\ conflicts' \subseteq SUBSET Literal
          /\ var' \in 0..(NumVars + 1)
    <2> USE DEF Inv, TypeOK
    <2>1. CASE StartExplanation
      <3>1. \A pair \in DeniedAt(var) : pair[1] \in Term /\ pair[2] \in Term
        BY <2>1, ArenaAssumption, TheoryAssumption DEF StartExplanation, DeniedAt, Atom, Var
      <3>2. var # 0 => -var \in Literal
        BY <2>1, LiteralFacts DEF StartExplanation, Var
      <3> QED
        BY <2>1, <3>1, <3>2 DEF StartExplanation, Pair
    <2>2. CASE NoConflict
      BY <2>2, ArenaAssumption DEF NoConflict, explaining
    <2>3. CASE ExplainPair
      BY <2>3, ExplainPairTypes DEF ExplainPair
    <2>4. CASE EndExplanation
      <3>1. ConflictClause \subseteq Literal
        BY LiteralFacts DEF ConflictClause
      <3>2. var \in 0..NumVars
        BY <2>4, ArenaAssumption DEF EndExplanation, VarFollowsPc
      <3> QED
        BY <2>4, <3>1, <3>2, ArenaAssumption DEF EndExplanation
    <2>5. CASE Return
      BY <2>5 DEF Return
    <2> QED
      BY <2>1, <2>2, <2>3, <2>4, <2>5
  <1>4. TypeOK'
    BY <1>1, <1>3 DEF Inv, TypeOK, Closed
  <1>5. KeysAreVisited' /\ QuietPassFound'
    BY <1>1 DEF Inv, KeysAreVisited, QuietPassFound, Closed
  <1>6. VarFollowsPc'
    BY <1>1, ArenaAssumption
    DEF Inv, VarFollowsPc, Closed, StartExplanation, NoConflict, ExplainPair,
        EndExplanation, Return
  <1>7. AssertedAreMerged'
    BY <1>1, ModelsAreFixed DEF Inv, AssertedAreMerged, Same, Closed
  <1>8. ClosureIsCongruent'
    BY <1>1 DEF Inv, ClosureIsCongruent, Signature, Same
  <1> QED
    BY <1>2, <1>4, <1>5, <1>6, <1>7, <1>8 DEF Inv

-----------------------------------------------------------------------------
(* Every step of theory_conflict_clauses keeps the invariant.              *)
THEOREM NextInv == Inv /\ [Next]_vars => Inv'
  <1> SUFFICES ASSUME Inv, [Next]_vars PROVE Inv'
    OBVIOUS
  <1>1. CASE Refuse \/ Start \/ AssertedAll
    BY <1>1, StartStep
  <1>2. CASE AssertVar
    BY <1>2, AssertVarStep
  <1>3. CASE CloseApp
    BY <1>3, CloseAppStep
  <1>4. CASE EndPass
    BY <1>4, EndPassStep
  <1>5. CASE StartExplanation \/ NoConflict \/ ExplainPair \/ EndExplanation \/ Return
    BY <1>5, ExplainStep
  <1>6. CASE UNCHANGED vars
    <2>1. /\ UNCHANGED <<pc, atoms, assignment, var, root, edges, pass, signatures,
                         changed, todo, expanded, reasons, conflicts>>
      BY <1>6 DEF vars
    <2>2. CongruenceEdgesMatch' /\ MergesAreEntailed' /\ SignaturesAreEntailed'
            /\ KeysAreDistinct'
      BY <2>1, TheoryUntouched
    <2>3. TypeOK' /\ KeysAreVisited' /\ VarFollowsPc'
      BY <2>1 DEF Inv, TypeOK, KeysAreVisited, VarFollowsPc
    <2>4. AssertedAreMerged'
      BY <2>1, ModelsAreFixed DEF Inv, AssertedAreMerged, Same, Closed
    <2>5. QuietPassFound' /\ ClosureIsCongruent'
      BY <2>1 DEF Inv, QuietPassFound, Found, ClosureIsCongruent, Signature, Same, Closed
    <2> QED
      BY <2>2, <2>3, <2>4, <2>5 DEF Inv
  <1> QED
    BY <1>1, <1>2, <1>3, <1>4, <1>5, <1>6 DEF Next, Done

(* The invariant holds in every reachable state of the call.               *)
THEOREM SpecInv == Spec => []Inv
  <1> QED
    BY InitInv, NextInv, PTL DEF Spec

(* Every call of theory_conflict_clauses keeps its types.                  *)
THEOREM TypeCorrect == Spec => []TypeOK
  <1>1. Inv => TypeOK
    BY DEF Inv
  <1> QED
    BY SpecInv, <1>1, PTL

(* The debug_asserts on congruence edges hold on every arena.              *)
THEOREM CongruenceEdgesAlwaysMatch == Spec => []CongruenceEdgesMatch
  <1>1. Inv => CongruenceEdgesMatch
    BY DEF Inv
  <1> QED
    BY SpecInv, <1>1, PTL

(* Soundness of the closure, on every arena and assignment: whatever it    *)
(* has merged so far holds in all interpretations of the literals.         *)
THEOREM ClosureSound == Spec => []MergesAreEntailed
  <1>1. Inv => MergesAreEntailed
    BY DEF Inv
  <1> QED
    BY SpecInv, <1>1, PTL

(* The classes of a finished closure, read as values, are themselves an    *)
(* interpretation of the asserted equalities.                              *)
LEMMA ClassesAreAModel ==
    ASSUME Inv, Closed
    PROVE  \E V \in Models : \A s, t \in Term : V[s] = V[t] => Same(s, t)
  <1> DEFINE class == [t \in Term |-> {u \in Term : root[u] = root[t]}]
             V == [t \in Term |-> Representative(class[t])]
  <1>1. root \in [Term -> Term] /\ atoms \in AtomTables
    BY DEF Inv, TypeOK
  <1>2. \A t \in Term : Representative(class[t]) \in class[t]
    <2>1. \A t \in Term : t \in class[t]
      OBVIOUS
    <2>2. ASSUME NEW S, NEW x \in S PROVE Representative(S) \in S
      BY <2>2 DEF Representative
    <2> QED
      BY <2>1, <2>2
  <1>3. \A s, t \in Term : V[s] = V[t] <=> Same(s, t)
    <2>1. ASSUME NEW s \in Term, NEW t \in Term, V[s] = V[t] PROVE Same(s, t)
      <3>1. V[s] \in class[s] /\ V[t] \in class[t]
        BY <1>2
      <3> QED
        BY <2>1, <3>1 DEF Same
    <2>2. ASSUME NEW s \in Term, NEW t \in Term, Same(s, t) PROVE V[s] = V[t]
      <3>1. class[s] = class[t]
        BY <2>2 DEF Same
      <3> QED
        BY <3>1
    <2> QED
      BY <2>1, <2>2
  <1>4. V \in Valuations
    <2>1. V \in [Term -> Term]
      BY <1>2
    <2>2. ASSUME NEW t \in Term
          PROVE  V[t] = Representative({u \in Term : V[u] = V[t]})
      <3>1. {u \in Term : V[u] = V[t]} = class[t]
        BY <1>3 DEF Same
      <3>2. V[t] = Representative(class[t])
        OBVIOUS
      <3> QED
        BY <3>1, <3>2
    <2> HIDE DEF V
    <2> QED
      BY <2>1, <2>2 DEF Valuations
  <1> HIDE DEF V
  <1>5. IsCongruent(V)
    <2> SUFFICES ASSUME NEW s \in AppTerm, NEW t \in AppTerm, SameUnder(V, s, t)
                 PROVE  V[s] = V[t]
      BY DEF IsCongruent
    <2>1. /\ FunOf[s] = FunOf[t] /\ DOMAIN ArgsOf[s] = DOMAIN ArgsOf[t]
          /\ \A i \in DOMAIN ArgsOf[s] : V[ArgsOf[s][i]] = V[ArgsOf[t][i]]
      BY DEF SameUnder
    <2>2. \A i \in DOMAIN ArgsOf[s] : root[ArgsOf[s][i]] = root[ArgsOf[t][i]]
      BY <1>3, <2>1, ArgumentsAreTerms DEF Same
    <2>3. Signature(s) = Signature(t)
      BY <2>1, <2>2 DEF Signature
    <2> QED
      BY <1>3, <2>3, ArgumentsAreTerms DEF Inv, ClosureIsCongruent
  <1>6. \A v \in Var : \A pair \in AssertedBy(v) : V[pair[1]] = V[pair[2]]
    BY <1>1, <1>3, AssertedPairsAreTerms DEF Inv, AssertedAreMerged
  <1>7. V \in Models
    BY <1>4, <1>5, <1>6 DEF Models, AssertedPairs, Interpretations
  <1> QED
    BY <1>3, <1>7

(* Completeness of the closure: when it returns, the classes are exactly   *)
(* the consequences of the literals.                                       *)
THEOREM ClosureComplete == Spec => []ClosureIsComplete
  <1>1. Inv => ClosureIsComplete
    BY ClassesAreAModel DEF ClosureIsComplete, Same
  <1> QED
    BY SpecInv, <1>1, PTL

-----------------------------------------------------------------------------
(* What the list of conflicts says while it is made: a clause is on it iff *)
(* one of the denied equalities looked up so far has been derived.         *)
Violated(v) == \E pair \in DeniedAt(v) : Same(pair[1], pair[2])

ConflictsFollowLookups ==
    /\ IsFiniteSet(conflicts)
    /\ ~Closed => conflicts = {}
    /\ pc = "explain" => Violated(var)
    /\ pc = "done" => var = NumVars + 1
    /\ Closed => (conflicts = {} <=> \A v \in 0..(var - 1) : ~Violated(v))
    /\ pc \notin {"start", "none"} => \A v \in Var : assignment[v] # 0

(* Before the first lookup there is no conflict.                           *)
LEMMA ConflictsFollowLookupsInit == Init => ConflictsFollowLookups
  BY FS_EmptySet DEF Init, ConflictsFollowLookups, Closed

(* A lookup that finds a denied equality derived yields a conflict, and    *)
(* no other step does.                                                     *)
LEMMA ConflictsFollowLookupsNext ==
    Inv /\ ConflictsFollowLookups /\ [Next]_vars => ConflictsFollowLookups'
  <1> SUFFICES ASSUME Inv, ConflictsFollowLookups, [Next]_vars
               PROVE  ConflictsFollowLookups'
    OBVIOUS
  <1> USE DEF ConflictsFollowLookups
  <1>1. var \in 0..(NumVars + 1) /\ NumVars \in Nat
    BY ArenaAssumption DEF Inv, TypeOK
  <1>2. ASSUME UNCHANGED <<atoms, assignment, root>>
        PROVE  \A v \in 0..NumVars : Violated(v)' = Violated(v)
    BY <1>2 DEF Violated, DeniedAt, Same
  <1>3. CASE Refuse \/ Start \/ AssertVar \/ AssertedAll \/ CloseApp
    BY <1>3 DEF Refuse, Start, AssertVar, AssertedAll, CloseApp, explaining, Closed
  <1>4. CASE EndPass
    BY <1>1, <1>4 DEF EndPass, explaining, Closed
  <1>5. CASE StartExplanation
    <2>1. Violated(var) /\ Violated(var)'
      BY <1>2, <1>5, <1>1 DEF StartExplanation, Violated, DeniedAt, theory, Same
    <2> QED
      BY <1>1, <1>2, <1>5, <2>1 DEF StartExplanation, theory, Closed
  <1>6. CASE NoConflict
    <2>1. ~Violated(var)
      BY <1>6 DEF NoConflict, Violated
    <2>2. \A v \in 0..NumVars : Violated(v)' = Violated(v)
      BY <1>2, <1>6 DEF NoConflict, theory
    <2> QED
      BY <1>1, <1>6, <2>1, <2>2 DEF NoConflict, explaining, Closed
  <1>7. CASE ExplainPair
    <2>1. \A v \in 0..NumVars : Violated(v)' = Violated(v)
      BY <1>2, <1>7 DEF ExplainPair, theory
    <2> QED
      BY <1>1, <1>7, <2>1 DEF ExplainPair, Closed, Inv, VarFollowsPc
  <1>8. CASE EndExplanation
    <2>1. \A v \in 0..NumVars : Violated(v)' = Violated(v)
      BY <1>2, <1>8 DEF EndExplanation, theory
    <2>2. IsFiniteSet(conflicts') /\ conflicts' # {}
      BY <1>8, FS_AddElement DEF EndExplanation
    <2> QED
      BY <1>1, <1>8, <2>1, <2>2 DEF EndExplanation, Closed, Inv, VarFollowsPc
  <1>9. CASE Return
    <2>1. \A v \in 0..NumVars : Violated(v)' = Violated(v)
      BY <1>2, <1>9 DEF Return, theory
    <2>2. IsFiniteSet(conflicts') /\ (conflicts' = {} <=> conflicts = {})
      <3>1. /\ conflicts' \subseteq conflicts
            /\ Cardinality(conflicts') = Smaller(MaxConflicts, Cardinality(conflicts))
        BY <1>9 DEF Return
      <3>2. IsFiniteSet(conflicts') /\ Cardinality(conflicts) \in Nat
        BY <3>1, FS_Subset, FS_CardinalityType
      <3>3. Cardinality(conflicts') = 0 <=> Cardinality(conflicts) = 0
        BY <3>1, <3>2, TheoryAssumption DEF Smaller
      <3> QED
        BY <3>2, <3>3, FS_EmptySet
    <2> QED
      BY <1>1, <1>9, <2>1, <2>2 DEF Return, Closed
  <1>10. CASE UNCHANGED vars
    BY <1>10 DEF vars, Violated, DeniedAt, Same, Closed
  <1> QED
    BY <1>3, <1>4, <1>5, <1>6, <1>7, <1>8, <1>9, <1>10 DEF Next, Done

(* A structure satisfies a literal when it gives the terms of the equality *)
(* the literal asserts one value, of the one it denies two.                *)
LEMMA LiteralMeaning ==
    ASSUME atoms \in AtomTables, NEW V, NEW v \in Var, assignment[v] \in {-1, 1}
    PROVE  Satisfies(V, atoms[v], assignment[v])
             <=> /\ \A pair \in AssertedBy(v) : V[pair[1]] = V[pair[2]]
                 /\ \A pair \in DeniedAt(v) : V[pair[1]] # V[pair[2]]
  <1>0. atoms[v] \in Atom /\ assignment[v] \in {-1, 1}
    BY TheoryAssumption
  <1>1. atoms[v].kind \in {"Eq", "BoolTerm", "None"} /\ v # 0
    BY <1>0 DEF Atom, Var
  <1>2. CASE atoms[v].kind = "Eq" /\ assignment[v] = 1
    <2>1. AssertedBy(v) = {<<atoms[v].left, atoms[v].right>>} /\ DeniedAt(v) = {}
      BY <1>1, <1>2 DEF AssertedBy, DeniedAt
    <2> QED
      BY <1>2, <2>1 DEF Satisfies
  <1>3. CASE atoms[v].kind = "Eq" /\ assignment[v] = -1
    <2>1. AssertedBy(v) = {} /\ DeniedAt(v) = {<<atoms[v].left, atoms[v].right>>}
      BY <1>1, <1>3 DEF AssertedBy, DeniedAt
    <2> QED
      BY <1>3, <2>1 DEF Satisfies
  <1>4. CASE atoms[v].kind = "BoolTerm"
    <2>1. DeniedAt(v) = {}
      BY <1>1, <1>4 DEF DeniedAt
    <2>2. AssertedBy(v) =
            {<<atoms[v].left, IF assignment[v] = 1 THEN TrueTerm ELSE FalseTerm>>}
      BY <1>0, <1>4 DEF AssertedBy
    <2> QED
      BY <1>4, <2>1, <2>2 DEF Satisfies
  <1>5. CASE atoms[v].kind = "None"
    <2>1. AssertedBy(v) = {} /\ DeniedAt(v) = {}
      BY <1>1, <1>5 DEF AssertedBy, DeniedAt
    <2> QED
      BY <1>5, <2>1 DEF Satisfies
  <1> QED
    BY <1>0, <1>1, <1>2, <1>3, <1>4, <1>5

(* A structure that satisfies all the literals is a model of the asserted  *)
(* equalities that satisfies none of the denied ones, and conversely.      *)
LEMMA SatisfyingIsModel ==
    ASSUME Inv, \A v \in Var : assignment[v] # 0, NEW V \in Interpretations
    PROVE  (V[TrueTerm] # V[FalseTerm] /\ \A v \in Var : Satisfies(V, atoms[v], assignment[v]))
             <=> /\ V \in Models
                 /\ \A v \in 0..NumVars : \A pair \in DeniedAt(v) : V[pair[1]] # V[pair[2]]
  <1>1. \A v \in Var : atoms[v] \in Atom /\ assignment[v] \in {-1, 1}
    BY TheoryAssumption DEF Inv, TypeOK
  <1>2. 0..NumVars = {0} \cup Var /\ 0 \notin Var
    BY ArenaAssumption DEF Var
  <1>3. V \in Models <=> \A v \in Var : \A pair \in AssertedBy(v) : V[pair[1]] = V[pair[2]]
    BY DEF Models, AssertedPairs
  <1>4. ASSUME NEW v \in Var
        PROVE  Satisfies(V, atoms[v], assignment[v])
                 <=> /\ \A pair \in AssertedBy(v) : V[pair[1]] = V[pair[2]]
                     /\ \A pair \in DeniedAt(v) : V[pair[1]] # V[pair[2]]
    BY <1>1, LiteralMeaning DEF Inv, TypeOK
  <1>5. (\A pair \in DeniedAt(0) : V[pair[1]] # V[pair[2]]) <=> V[TrueTerm] # V[FalseTerm]
    BY DEF DeniedAt
  <1> QED
    BY <1>2, <1>3, <1>4, <1>5

(* The list of conflicts is empty exactly when the candidate is a model of *)
(* the theory: neither an answer Sat for an inconsistent assignment nor a  *)
(* cut of a consistent one can come from this call.                        *)
THEOREM EmptyIsConsistent == Spec => []EmptyMeansConsistent
  <1>1. Inv /\ ConflictsFollowLookups => EmptyMeansConsistent
    <2> SUFFICES ASSUME Inv, ConflictsFollowLookups, pc = "done"
                 PROVE  conflicts = {} <=> Consistent(atoms, assignment)
      BY DEF EmptyMeansConsistent
    <2>1. Closed /\ (\A v \in Var : assignment[v] # 0)
            /\ (conflicts = {} <=> \A v \in 0..NumVars : ~Violated(v))
      BY ArenaAssumption DEF ConflictsFollowLookups, Closed
    <2>2. \A v \in 0..NumVars : \A pair \in DeniedAt(v) : pair[1] \in Term /\ pair[2] \in Term
      BY ArenaAssumption, TheoryAssumption DEF Inv, TypeOK, DeniedAt, Atom, Var
    <2>3. ASSUME \A v \in 0..NumVars : ~Violated(v) PROVE Consistent(atoms, assignment)
      <3>1. PICK V \in Models : \A s, t \in Term : V[s] = V[t] => Same(s, t)
        BY <2>1, ClassesAreAModel
      <3>2. V \in Interpretations
        BY DEF Models
      <3>3. \A v \in 0..NumVars : \A pair \in DeniedAt(v) : V[pair[1]] # V[pair[2]]
        BY <2>2, <2>3, <3>1 DEF Violated
      <3> QED
        BY <2>1, <3>2, <3>3, SatisfyingIsModel DEF Consistent
    <2>4. ASSUME Consistent(atoms, assignment), NEW v \in 0..NumVars, Violated(v)
          PROVE  FALSE
      <3>1. PICK V \in Interpretations :
                /\ V[TrueTerm] # V[FalseTerm]
                /\ \A u \in Var : Satisfies(V, atoms[u], assignment[u])
        BY <2>4 DEF Consistent
      <3>2. V \in Models /\ \A pair \in DeniedAt(v) : V[pair[1]] # V[pair[2]]
        BY <2>1, <3>1, SatisfyingIsModel
      <3>3. PICK pair \in DeniedAt(v) : Same(pair[1], pair[2])
        BY <2>4 DEF Violated
      <3>4. V[root[pair[1]]] = V[pair[1]] /\ V[root[pair[2]]] = V[pair[2]]
        BY <2>2, <3>2 DEF Inv, MergesAreEntailed
      <3> QED
        BY <3>2, <3>3, <3>4 DEF Same
    <2> QED
      BY <2>1, <2>3, <2>4
  <1>2. Spec => []ConflictsFollowLookups
    <2>1. Inv /\ Inv' /\ ConflictsFollowLookups /\ [Next]_vars => ConflictsFollowLookups'
      BY ConflictsFollowLookupsNext
    <2> QED
      BY <2>1, SpecInv, ConflictsFollowLookupsInit, PTL DEF Spec
  <1> QED
    BY <1>1, <1>2, SpecInv, PTL

-----------------------------------------------------------------------------
(* The forest of reasons and what is explained from it.                    *)
(* A root is its own root, so that equality of roots is an equivalence.    *)
RootsAreRoots == \A t \in Term : root[root[t]] = root[t]

(* A key of the signature map names terms that are still in the classes of *)
(* the arguments.                                                          *)
SignaturesAreRooted ==
    \A p \in AppTerm : signatures[p] # NoSignature =>
        /\ signatures[p][1] = FunOf[p]
        /\ DOMAIN signatures[p][2] = DOMAIN ArgsOf[p]
        /\ \A i \in DOMAIN ArgsOf[p] :
               /\ signatures[p][2][i] \in Term
               /\ Same(signatures[p][2][i], ArgsOf[p][i])

(* An edge that is no congruence is the equality its literal asserts.      *)
EdgesAreAsserted ==
    \A i \in DOMAIN edges : edges[i].reason # Congruence =>
        \E v \in Var : /\ edges[i].reason = LiteralOf(v)
                       /\ <<edges[i].a, edges[i].b>> \in AssertedBy(v)

(* A valuation that is examined assigns every variable of an atom.         *)
IsAssigned == pc \notin {"start", "none"} => \A v \in Var : assignment[v] # 0

(* The inductive invariant of the proof forest.                            *)
Forest ==
    /\ RootsAreRoots
    /\ SignaturesAreRooted
    /\ SpanningForest
    /\ ReasonsAreOlder
    /\ EdgesAreAsserted
    /\ IsAssigned

(* A pair needs no more explanation: it is one term, or on a list.         *)
Settled(pair) == (\E t \in Term : pair = {t}) \/ pair \in todo \cup expanded

(* The reasons of the path between the terms of a pair have been taken.    *)
Explained(pair) ==
    \E s, t \in Term :
        /\ pair = {s, t} /\ Same(s, t)
        /\ \A i \in Path(s, t) :
               IF edges[i].reason = Congruence
               THEN \A q \in ArgPairs(edges[i].a, edges[i].b) : Settled(q)
               ELSE edges[i].reason \in reasons

(* While a conflict is explained: a denied pair is in one class and on a   *)
(* list, the listed pairs are in common classes, the reasons of those that *)
(* were expanded are among the literals, and these hold.                   *)
Explanation ==
    pc = "explain" =>
        /\ var \in 0..NumVars
        /\ \E pair \in DeniedAt(var) :
               Same(pair[1], pair[2]) /\ Settled(Pair(pair[1], pair[2]))
        /\ var # 0 => -var \in reasons
        /\ \A l \in reasons : \E v \in Var : l = LiteralOf(v)
        /\ \A pair \in todo : \E s, t \in Term : pair = {s, t} /\ Same(s, t)
        /\ \A pair \in expanded : Explained(pair)

-----------------------------------------------------------------------------
(* Nothing more is known of a set of terms that no edge of E leaves than   *)
(* that it holds what is connected to its members; and with it no edge     *)
(* leaves its complement.                                                  *)
LEMMA Closure ==
    ASSUME NEW E, NEW s, NEW t \in Term, Connected(E, s, t),
           NEW S \in SUBSET Term, s \in S, Uncut(E, S)
    PROVE  t \in S
  <1> SUFFICES ASSUME t \notin S PROVE FALSE
    OBVIOUS
  <1>1. S \in SUBSET (Term \ {t})
    OBVIOUS
  <1> QED
    BY <1>1 DEF Connected

(* What no edge leaves, no edge enters.                                    *)
LEMMA Complement ==
    ASSUME NEW E \in SUBSET DOMAIN edges, edges \in Seq(Edge), NEW S \in SUBSET Term,
           Uncut(E, S)
    PROVE  Uncut(E, Term \ S)
  <1>1. \A i \in E : edges[i].a \in Term /\ edges[i].b \in Term
    <2>1. \A i \in E : edges[i] \in Edge
      OBVIOUS
    <2> QED
      BY <2>1 DEF Edge
  <1> QED
    BY <1>1 DEF Uncut

(* The edges have no direction.                                            *)
LEMMA ConnectedIsSymmetric ==
    ASSUME NEW E \in SUBSET DOMAIN edges, edges \in Seq(Edge),
           NEW s \in Term, NEW t \in Term, Connected(E, s, t)
    PROVE  Connected(E, t, s)
  <1> SUFFICES ASSUME NEW S \in SUBSET (Term \ {s}), t \in S, Uncut(E, S) PROVE FALSE
    BY DEF Connected
  <1>1. Uncut(E, Term \ S) /\ s \in Term \ S
    BY Complement
  <1>2. t \in Term \ S
    BY <1>1, Closure
  <1> QED
    BY <1>2

(* More edges connect more.                                                *)
LEMMA ConnectedIsMonotone ==
    ASSUME NEW E, NEW F, E \subseteq F, NEW s, NEW t, Connected(E, s, t)
    PROVE  Connected(F, s, t)
  <1>1. \A S : Uncut(F, S) => Uncut(E, S)
    BY DEF Uncut
  <1> QED
    BY <1>1 DEF Connected

(* An edge connects its ends.                                              *)
LEMMA EndsAreConnected ==
    ASSUME NEW E, NEW i \in E
    PROVE  Connected(E, edges[i].a, edges[i].b)
  BY DEF Connected, Uncut

(* An edge that is not on the path, and whose removal splits its class,    *)
(* can be kept from leaving a set that keeps the ends of the path apart.   *)
LEMMA Rerouted ==
    ASSUME SpanningForest, edges \in Seq(Edge),
           NEW s \in Term, NEW t \in Term,
           NEW i \in DOMAIN edges, i \notin Path(s, t),
           NEW S \in SUBSET Term, s \in S, t \notin S
    PROVE  \E R \in SUBSET Term :
              /\ s \in R /\ t \notin R
              /\ edges[i].a \in R <=> edges[i].b \in R
              /\ \A j \in DOMAIN edges :
                    (edges[j].a \in S <=> edges[j].b \in S)
                        => (edges[j].a \in R <=> edges[j].b \in R)
  <1> DEFINE rest == DOMAIN edges \ {i}
  <1>1. \A j \in DOMAIN edges : edges[j].a \in Term /\ edges[j].b \in Term
    <2>1. \A j \in DOMAIN edges : edges[j] \in Edge
      OBVIOUS
    <2> QED
      BY <2>1 DEF Edge
  <1>2. Connected(rest, s, t) /\ Connected(rest, t, s)
    BY ConnectedIsSymmetric DEF Path
  <1>3. PICK T \in SUBSET Term :
            /\ Uncut(rest, T) /\ s \in T /\ t \in T
            /\ edges[i].a \in T <=> edges[i].b \notin T
    <2>1. PICK U \in SUBSET (Term \ {edges[i].b}) : edges[i].a \in U /\ Uncut(rest, U)
      BY DEF SpanningForest, Connected
    <2>2. Uncut(rest, Term \ U)
      BY <2>1, Complement
    <2>3. CASE s \in U
      <3>1. t \in U
        BY <1>2, <2>1, <2>3, Closure
      <3> QED
        BY <2>1, <2>3, <3>1
    <2>4. CASE s \notin U
      <3>1. t \in Term \ U
        BY <1>2, <2>2, <2>4, Closure
      <3> QED
        BY <1>1, <2>1, <2>2, <2>4, <3>1
    <2> QED
      BY <2>3, <2>4
  <1>4. \A j \in rest : edges[j].a \in T <=> edges[j].b \in T
    BY <1>3 DEF Uncut
  <1> DEFINE near == IF edges[i].a \in T THEN edges[i].a ELSE edges[i].b
             R == (S \cap T) \cup (IF near \in S THEN Term \ T ELSE {})
  <1>5. s \in R /\ t \notin R /\ R \in SUBSET Term
    BY <1>3
  <1>6. edges[i].a \in R <=> edges[i].b \in R
    BY <1>1, <1>3
  <1>7. ASSUME NEW j \in DOMAIN edges, edges[j].a \in S <=> edges[j].b \in S
        PROVE  edges[j].a \in R <=> edges[j].b \in R
    <2>1. CASE j = i
      BY <1>6, <2>1
    <2>2. CASE j \in rest
      BY <1>1, <1>4, <1>7, <2>2
    <2> QED
      BY <2>1, <2>2
  <1> HIDE DEF R
  <1> QED
    BY <1>5, <1>6, <1>7

(* The edges up to the nth.                                                *)
Upto(n) == {i \in DOMAIN edges : i <= n}

(* In a forest the edges without which two terms of a class fall apart     *)
(* connect them: one after the other, the edges off the path are kept from *)
(* leaving the set.                                                        *)
LEMMA PathConnects ==
    ASSUME SpanningForest, edges \in Seq(Edge),
           NEW s \in Term, NEW t \in Term, Same(s, t)
    PROVE  Connected(Path(s, t), s, t)
  <1> SUFFICES ASSUME NEW S \in SUBSET (Term \ {t}), s \in S, Uncut(Path(s, t), S)
               PROVE  FALSE
    BY DEF Connected
  <1> DEFINE Kept(n) ==
        \E R \in SUBSET Term :
            s \in R /\ t \notin R /\ Uncut(Path(s, t) \cup Upto(n), R)
             N == {n \in Nat : Kept(n)}
  <1>1. Kept(0)
    <2>1. Upto(0) = {}
      BY DEF Upto
    <2> QED
      BY <2>1
  <1>2. ASSUME NEW n \in Nat, Kept(n) PROVE Kept(n + 1)
    <2>1. PICK R \in SUBSET Term :
              s \in R /\ t \notin R /\ Uncut(Path(s, t) \cup Upto(n), R)
      BY <1>2
    <2>2. CASE n + 1 \in DOMAIN edges \ Path(s, t)
      <3>1. PICK Q \in SUBSET Term :
                /\ s \in Q /\ t \notin Q
                /\ edges[n + 1].a \in Q <=> edges[n + 1].b \in Q
                /\ \A j \in DOMAIN edges :
                      (edges[j].a \in R <=> edges[j].b \in R)
                          => (edges[j].a \in Q <=> edges[j].b \in Q)
        BY <2>1, <2>2, Rerouted
      <3>2. \A j \in Path(s, t) \cup Upto(n + 1) :
                j = n + 1 \/ j \in Path(s, t) \cup Upto(n)
        BY DEF Upto
      <3>3. Path(s, t) \cup Upto(n) \subseteq DOMAIN edges
        BY DEF Path, Upto
      <3>4. Uncut(Path(s, t) \cup Upto(n + 1), Q)
        BY <2>1, <3>1, <3>2, <3>3 DEF Uncut
      <3> QED
        BY <3>1, <3>4
    <2>3. CASE n + 1 \notin DOMAIN edges \ Path(s, t)
      <3>1. Path(s, t) \cup Upto(n + 1) = Path(s, t) \cup Upto(n)
        BY <2>3 DEF Upto
      <3> QED
        BY <2>1, <3>1
    <2> QED
      BY <2>2, <2>3
  <1> HIDE DEF Kept
  <1>3. N = Nat
    <2>1. N \in SUBSET Nat /\ 0 \in N /\ \A n \in N : n + 1 \in N
      BY <1>1, <1>2
    <2> HIDE DEF N
    <2> QED
      BY <2>1, Induction
  <1>4. Kept(Len(edges))
    BY <1>3
  <1>5. PICK R \in SUBSET Term :
            s \in R /\ t \notin R /\ Uncut(Path(s, t) \cup Upto(Len(edges)), R)
    BY <1>4 DEF Kept
  <1>6. Uncut(DOMAIN edges, R)
    BY <1>5 DEF Uncut, Upto
  <1>7. Connected(DOMAIN edges, s, t)
    BY DEF SpanningForest
  <1> QED
    BY <1>5, <1>6, <1>7, Closure

-----------------------------------------------------------------------------
(* The classes after a join: the two are one, the others as before, and    *)
(* roots are roots of themselves.                                          *)
LEMMA JoinedClasses ==
    ASSUME root \in [Term -> Term], RootsAreRoots,
           NEW s \in Term, NEW t \in Term, Join(s, t)
    PROVE  /\ root' \in [Term -> Term]
           /\ RootsAreRoots'
           /\ \A x, y \in Term :
                  Same(x, y)' <=> \/ Same(x, y)
                                  \/ Same(x, s) /\ Same(t, y)
                                  \/ Same(x, t) /\ Same(s, y)
  <1>1. ~Same(s, t)
    BY DEF Join
  <1>2. ASSUME NEW w \in {s, t}, NEW l \in {s, t}, w # l, Absorb(root[w], root[l])
        PROVE  /\ root' \in [Term -> Term]
               /\ RootsAreRoots'
               /\ \A x, y \in Term :
                      Same(x, y)' <=> \/ Same(x, y)
                                      \/ Same(x, s) /\ Same(t, y)
                                      \/ Same(x, t) /\ Same(s, y)
    <2>1. root' = [x \in Term |-> IF root[x] = root[l] THEN root[w] ELSE root[x]]
      BY <1>2 DEF Absorb
    <2>2. root' \in [Term -> Term]
      BY <2>1
    <2>3. RootsAreRoots'
      BY <2>1, <2>2 DEF RootsAreRoots
    <2>4. \A x, y \in Term :
              Same(x, y)' <=> \/ Same(x, y)
                              \/ Same(x, s) /\ Same(t, y)
                              \/ Same(x, t) /\ Same(s, y)
      BY <1>1, <1>2, <2>1 DEF Same
    <2> QED
      BY <2>2, <2>3, <2>4
  <1>3. s # t
    BY <1>1 DEF Same
  <1> QED
    BY <1>2, <1>3 DEF Join

(* Uncut for the edges of another state.                                   *)
UncutBy(es, E, S) == \A i \in E : es[i].a \in S <=> es[i].b \in S

(* A merge that appends an edge leaves the edges before it alone.          *)
LEMMA AppendedEdge ==
    ASSUME edges \in Seq(Edge), NEW D, D = DOMAIN edges, NEW n, n = Len(edges) + 1,
           NEW s \in Term, NEW t \in Term, NEW reason,
           edges' = Append(edges, [a |-> s, b |-> t, reason |-> reason])
    PROVE  /\ n \notin D
           /\ (DOMAIN edges)' = D \cup {n}
           /\ \A i \in D : edges'[i] = edges[i] /\ 1..(i - 1) \subseteq D
           /\ edges'[n] = [a |-> s, b |-> t, reason |-> reason]
           /\ 1..(n - 1) = D
  OBVIOUS

(* What they connect is as it was.                                         *)
LEMMA OldConnections ==
    ASSUME NEW E, \A i \in E : edges'[i] = edges[i], NEW x, NEW y
    PROVE  Connected(E, x, y)' <=> Connected(E, x, y)
  BY DEF Connected, Uncut

(* A join and its edge keep the forest: the edge connects the two classes, *)
(* and an edge whose removal splits its class still does, since only one   *)
(* end of the new edge is in that class.                                   *)
LEMMA SpanningForestJoin ==
    ASSUME root \in [Term -> Term], RootsAreRoots, edges \in Seq(Edge), SpanningForest,
           NEW s \in Term, NEW t \in Term, NEW reason, Join(s, t),
           edges' = Append(edges, [a |-> s, b |-> t, reason |-> reason])
    PROVE  SpanningForest'
  <1>0. PICK D, n : D = DOMAIN edges /\ n = Len(edges) + 1
    OBVIOUS
  <1>1. /\ n \notin D
        /\ (DOMAIN edges)' = D \cup {n}
        /\ \A i \in D : edges'[i] = edges[i]
        /\ edges'[n] = [a |-> s, b |-> t, reason |-> reason]
    BY <1>0, AppendedEdge
  <1>2. \A E \in SUBSET D : \A S :
            /\ UncutBy(edges', E, S) <=> UncutBy(edges, E, S)
            /\ UncutBy(edges', E \cup {n}, S)
                         <=> UncutBy(edges, E, S) /\ (s \in S <=> t \in S)
    BY <1>0, <1>1 DEF UncutBy
  <1>3. ~Same(s, t) /\
        \A x, y \in Term :
            Same(x, y)' <=> \/ Same(x, y)
                            \/ Same(x, s) /\ Same(t, y)
                            \/ Same(x, t) /\ Same(s, y)
    BY JoinedClasses DEF Join
  <1>4. \A i \in D : /\ edges[i].a \in Term /\ edges[i].b \in Term
                     /\ Same(edges[i].a, edges[i].b)
    <2>1. \A i \in DOMAIN edges : edges[i] \in Edge
      OBVIOUS
    <2> QED
      BY <1>0, <2>1, EndsAreConnected DEF Edge, SpanningForest
  <1>5. ASSUME NEW x \in Term, NEW y \in Term, Same(x, y),
               NEW S \in SUBSET Term, UncutBy(edges, D, S), x \in S
        PROVE  y \in S
    BY <1>0, <1>5, Closure DEF SpanningForest, Uncut, UncutBy
  <1>6. ASSUME NEW x \in Term, NEW y \in Term
        PROVE  Connected(D \cup {n}, x, y)' <=> Same(x, y)'
    <2>1. ASSUME Connected(D \cup {n}, x, y)' PROVE Same(x, y)'
      <3>1. PICK S \in SUBSET Term : \A u \in Term : u \in S <=> Same(x, u)'
        <4>1. \A u \in Term : u \in {v \in Term : Same(x, v)'} <=> Same(x, u)'
          OBVIOUS
        <4> QED
          BY <4>1
      <3>2. \A i \in D : edges[i].a \in S <=> edges[i].b \in S
        BY <1>3, <1>4, <3>1 DEF Same
      <3>3. x \in S /\ (s \in S <=> t \in S)
        BY <3>1, <1>3 DEF Same
      <3>4. UncutBy(edges', D \cup {n}, S)
        BY <1>2, <3>2, <3>3 DEF UncutBy
      <3>5. y \notin S => S \in SUBSET (Term \ {y})
        OBVIOUS
      <3> QED
        BY <2>1, <3>1, <3>3, <3>4, <3>5 DEF Connected, Uncut, UncutBy
    <2>2. ASSUME Same(x, y)', NEW S \in SUBSET (Term \ {y}), x \in S,
                 UncutBy(edges', D \cup {n}, S)
          PROVE  FALSE
      <3>1. UncutBy(edges, D, S) /\ (s \in S <=> t \in S)
        BY <1>2, <2>2
      <3>2. CASE Same(x, y)
        BY <1>5, <2>2, <3>1, <3>2
      <3>3. CASE Same(x, s) /\ Same(t, y)
        BY <1>5, <2>2, <3>1, <3>3
      <3>4. CASE Same(x, t) /\ Same(s, y)
        BY <1>5, <2>2, <3>1, <3>4
      <3> QED
        BY <1>3, <2>2, <3>2, <3>3, <3>4
    <2> QED
      BY <2>1, <2>2 DEF Connected, Uncut, UncutBy
  <1>7. ASSUME NEW i \in D
        PROVE  \E S \in SUBSET (Term \ {edges[i].b}) :
                  edges[i].a \in S /\ UncutBy(edges', (D \ {i}) \cup {n}, S)
    <2>1. PICK S \in SUBSET (Term \ {edges[i].b}) :
              edges[i].a \in S /\ UncutBy(edges, D \ {i}, S)
      BY <1>0 DEF SpanningForest, Connected, Uncut, UncutBy
    <2> DEFINE K == {u \in Term : Same(edges[i].a, u)}
               B == {u \in Term : \/ Same(s, edges[i].a) /\ s \in S /\ Same(t, u)
                                  \/ Same(t, edges[i].a) /\ t \in S /\ Same(s, u)}
               R == (S \cap K) \cup B
    <2>2. \A j \in D : /\ edges[j].a \in K <=> edges[j].b \in K
                       /\ edges[j].a \in B <=> edges[j].b \in B
      BY <1>4 DEF Same
    <2>3. UncutBy(edges, D \ {i}, R)
      BY <2>1, <2>2 DEF UncutBy
    <2>4. B \cap K = {}
      BY <1>3 DEF Same
    <2>5. s \in R <=> t \in R
      BY <1>3 DEF Same
    <2>6. edges[i].a \in R /\ edges[i].b \notin R
      BY <1>4, <2>1, <2>4 DEF Same
    <2>7. R \in SUBSET (Term \ {edges[i].b})
      BY <2>6
    <2> HIDE DEF R
    <2>8. UncutBy(edges', (D \ {i}) \cup {n}, R)
      BY <1>2, <2>3, <2>5
    <2> QED
      BY <2>6, <2>7, <2>8
  <1>8. ASSUME NEW i \in D
        PROVE  ~Connected((D \cup {n}) \ {i}, edges[i].a, edges[i].b)'
    <2>1. (D \cup {n}) \ {i} = (D \ {i}) \cup {n}
      BY <1>1
    <2> QED
      BY <1>1, <1>7, <2>1 DEF Connected, Uncut, UncutBy
  <1>9. ~Connected((D \cup {n}) \ {n}, edges[n].a, edges[n].b)'
    <2>1. (D \cup {n}) \ {n} = D
      BY <1>1
    <2> DEFINE S == {u \in Term : Same(s, u)}
    <2>2. UncutBy(edges, D, S)
      BY <1>4 DEF UncutBy, Same
    <2>3. s \in S /\ S \in SUBSET (Term \ {t})
      BY <1>3 DEF Same
    <2> HIDE DEF S
    <2> QED
      BY <1>1, <1>2, <2>1, <2>2, <2>3 DEF Connected, Uncut, UncutBy
  <1> QED
    BY <1>1, <1>6, <1>8, <1>9 DEF SpanningForest

(* The invariants of the forest that a merge has to keep.                  *)
ReasonedForest == RootsAreRoots /\ SpanningForest /\ ReasonsAreOlder /\ EdgesAreAsserted

(* The clauses about the edges hold on while the arrays stay as they are.  *)
LEMMA UnmovedForest ==
    ASSUME ReasonedForest, UNCHANGED <<atoms, assignment, root, edges>>
    PROVE  ReasonedForest'
  <1>1. RootsAreRoots'
    BY DEF ReasonedForest, RootsAreRoots
  <1>2. SpanningForest'
    BY DEF ReasonedForest, SpanningForest, Connected, Uncut, Same
  <1>3. ReasonsAreOlder'
    BY DEF ReasonedForest, ReasonsAreOlder, Connected, Uncut
  <1>4. EdgesAreAsserted'
    BY DEF ReasonedForest, EdgesAreAsserted, LiteralOf, AssertedBy
  <1> QED
    BY <1>1, <1>2, <1>3, <1>4 DEF ReasonedForest

(* What the reason of a merge has to say: the arguments of a congruence    *)
(* are in common classes, a literal asserts the equality.                  *)
IsReason(s, t, reason) ==
    IF reason = Congruence
    THEN DOMAIN ArgsOf[s] = DOMAIN ArgsOf[t]
           /\ \A k \in DOMAIN ArgsOf[s] :
                  /\ ArgsOf[s][k] \in Term /\ ArgsOf[t][k] \in Term
                  /\ Same(ArgsOf[s][k], ArgsOf[t][k])
    ELSE \E v \in Var : reason = LiteralOf(v) /\ <<s, t>> \in AssertedBy(v)

(* A merge for a reason keeps the forest.  The classes of the arguments of *)
(* a congruence are connected by the edges before the new one.             *)
LEMMA MergeForest ==
    ASSUME root \in [Term -> Term], edges \in Seq(Edge), ReasonedForest,
           UNCHANGED <<atoms, assignment>>,
           NEW s \in Term, NEW t \in Term, NEW reason,
           IsReason(s, t, reason), Merge(s, t, reason)
    PROVE  ReasonedForest' /\ \A x, y \in Term : Same(x, y) => Same(x, y)'
  <1> USE DEF ReasonedForest
  <1>1. CASE UNCHANGED theory
    BY <1>1, UnmovedForest DEF theory, Same
  <1>2. ASSUME Join(s, t),
               edges' = Append(edges, [a |-> s, b |-> t, reason |-> reason])
        PROVE  ReasonedForest' /\ \A x, y \in Term : Same(x, y) => Same(x, y)'
    <2>0. PICK D, n : D = DOMAIN edges /\ n = Len(edges) + 1
      OBVIOUS
    <2>1. /\ n \notin D
          /\ (DOMAIN edges)' = D \cup {n}
          /\ \A i \in D : edges'[i] = edges[i] /\ 1..(i - 1) \subseteq D
          /\ edges'[n] = [a |-> s, b |-> t, reason |-> reason]
          /\ 1..(n - 1) = D
      BY <1>2, <2>0, AppendedEdge
    <2>2. RootsAreRoots' /\ \A x, y \in Term : Same(x, y) => Same(x, y)'
      BY <1>2, JoinedClasses
    <2>3. SpanningForest'
      BY <1>2, SpanningForestJoin
    <2>4. ReasonsAreOlder'
      <3> SUFFICES ASSUME NEW i \in D \cup {n}, edges'[i].reason = Congruence,
                          NEW k \in DOMAIN ArgsOf[edges'[i].a],
                          NEW x \in {ArgsOf[edges'[i].a][k], ArgsOf[edges'[i].b][k]},
                          NEW y \in {ArgsOf[edges'[i].a][k], ArgsOf[edges'[i].b][k]}
                   PROVE  Connected(1..(i - 1), x, y)'
        BY <2>1 DEF ReasonsAreOlder, ArgPairs, Pair
      <3>1. Connected(1..(i - 1), x, y)
        <4>1. CASE i \in D
          <5>1. /\ edges[i].reason = Congruence
                /\ {x, y} \subseteq Pair(ArgsOf[edges[i].a][k], ArgsOf[edges[i].b][k])
                /\ k \in DOMAIN ArgsOf[edges[i].a]
            BY <2>1, <4>1 DEF Pair
          <5>2. Pair(ArgsOf[edges[i].a][k], ArgsOf[edges[i].b][k])
                    \in ArgPairs(edges[i].a, edges[i].b)
            BY <5>1 DEF ArgPairs
          <5> QED
            BY <2>0, <4>1, <5>1, <5>2 DEF ReasonsAreOlder
        <4>2. CASE i = n
          BY <2>0, <2>1, <4>2 DEF IsReason, SpanningForest, Same
        <4> QED
          BY <4>1, <4>2
      <3>2. \A j \in 1..(i - 1) : edges'[j] = edges[j]
        BY <2>1
      <3> QED
        BY <3>1, <3>2, OldConnections
    <2>5. EdgesAreAsserted'
      <3> SUFFICES ASSUME NEW i \in D \cup {n}, edges'[i].reason # Congruence
                   PROVE  \E v \in Var : /\ edges'[i].reason = LiteralOf(v)
                                         /\ <<edges'[i].a, edges'[i].b>> \in AssertedBy(v)
        BY <2>1 DEF EdgesAreAsserted, LiteralOf, AssertedBy
      <3>1. CASE i \in D
        BY <2>0, <2>1, <3>1 DEF EdgesAreAsserted
      <3>2. CASE i = n
        BY <2>1, <3>2 DEF IsReason
      <3> QED
        BY <3>1, <3>2
    <2> QED
      BY <2>2, <2>3, <2>4, <2>5
  <1> QED
    BY <1>1, <1>2 DEF Merge

-----------------------------------------------------------------------------
(* The empty forest.                                                       *)
LEMMA ForestInit == Init => Forest
  <1> SUFFICES ASSUME Init PROVE Forest
    OBVIOUS
  <1>1. root = [t \in Term |-> t] /\ edges = <<>>
    BY DEF Init, Singletons
  <1>2. RootsAreRoots /\ ReasonsAreOlder /\ EdgesAreAsserted
    BY <1>1 DEF RootsAreRoots, ReasonsAreOlder, EdgesAreAsserted
  <1>3. SpanningForest
    <2>1. \A s, t \in Term : Connected(DOMAIN edges, s, t) <=> s = t
      <3> SUFFICES ASSUME NEW s \in Term, NEW t \in Term, s # t
                   PROVE  ~Connected(DOMAIN edges, s, t)
        BY DEF Connected
      <3>1. {s} \in SUBSET (Term \ {t}) /\ Uncut(DOMAIN edges, {s})
        BY <1>1 DEF Uncut
      <3> QED
        BY <3>1 DEF Connected
    <2> QED
      BY <1>1, <2>1 DEF SpanningForest, Same
  <1>4. SignaturesAreRooted
    BY DEF Init, SignaturesAreRooted
  <1> QED
    BY <1>2, <1>3, <1>4 DEF Init, Forest, IsAssigned

(* A literal is the reason of the equality it asserts.                     *)
LEMMA ForestAssertVar == Inv /\ Forest /\ AssertVar => Forest'
  <1> SUFFICES ASSUME Inv, Forest, AssertVar PROVE Forest'
    OBVIOUS
  <1>1. /\ pc = "assert" /\ pc' = "assert" /\ var \in Var
        /\ UNCHANGED <<atoms, assignment, signatures>>
        /\ root \in [Term -> Term] /\ edges \in Seq(Edge) /\ atoms \in AtomTables
    BY DEF AssertVar, closing, Inv, TypeOK
  <1>2. ReasonedForest' /\ \A x, y \in Term : Same(x, y) => Same(x, y)'
    <2>1. CASE UNCHANGED theory
      BY <1>1, <2>1, UnmovedForest DEF theory, Forest, ReasonedForest, Same
    <2>2. ASSUME NEW pair \in AssertedBy(var), Merge(pair[1], pair[2], LiteralOf(var))
          PROVE  ReasonedForest' /\ \A x, y \in Term : Same(x, y) => Same(x, y)'
      <3>1. pair[1] \in Term /\ pair[2] \in Term /\ pair = <<pair[1], pair[2]>>
        <4>1. pair = <<pair[1], pair[2]>>
          BY DEF AssertedBy
        <4> QED
          BY <1>1, <4>1, AssertedPairsAreTerms
      <3>2. LiteralOf(var) # Congruence
        BY <1>1 DEF LiteralOf, Congruence, Var
      <3>3. IsReason(pair[1], pair[2], LiteralOf(var))
        BY <1>1, <3>1, <3>2 DEF IsReason
      <3> QED
        BY <1>1, <2>2, <3>1, <3>3, MergeForest DEF Forest, ReasonedForest
    <2> QED
      BY <2>1, <2>2 DEF AssertVar
  <1>3. SignaturesAreRooted'
    BY <1>1, <1>2, ArgumentsAreTerms DEF Forest, SignaturesAreRooted
  <1>4. IsAssigned'
    BY <1>1 DEF Forest, IsAssigned
  <1> QED
    BY <1>2, <1>3, <1>4 DEF Forest, ReasonedForest

(* A merge of two applications whose keys are equal: the arguments under   *)
(* both keys are in common classes.                                        *)
LEMMA ForestCloseApp == Inv /\ Forest /\ CloseApp => Forest'
  <1> SUFFICES ASSUME Inv, Forest, CloseApp PROVE Forest'
    OBVIOUS
  <1>1. /\ pc = "close" /\ pc' = "close"
        /\ UNCHANGED <<atoms, assignment>>
        /\ root \in [Term -> Term] /\ edges \in Seq(Edge)
        /\ signatures \in [AppTerm -> SignatureType]
    BY DEF CloseApp, Inv, TypeOK
  <1>2. PICK t \in AppTerm : pass \in DOMAIN Apps /\ t = Apps[pass]
    BY ArgumentsAreTerms DEF CloseApp
  <1>3. /\ Signature(t)[1] = FunOf[t]
        /\ DOMAIN Signature(t)[2] = DOMAIN ArgsOf[t]
        /\ \A i \in DOMAIN ArgsOf[t] :
               /\ Signature(t)[2][i] = root[ArgsOf[t][i]]
               /\ ArgsOf[t][i] \in Term
               /\ Signature(t)[2][i] \in Term
               /\ Same(Signature(t)[2][i], ArgsOf[t][i])
    BY <1>1, SignatureShape, ArgumentsAreTerms DEF Forest, RootsAreRoots, Same
  <1>4. IsAssigned'
    BY <1>1 DEF Forest, IsAssigned
  <1>5. CASE signatures' = [signatures EXCEPT ![t] = Signature(t)] /\ UNCHANGED theory
    <2>1. ReasonedForest'
      BY <1>1, <1>5, UnmovedForest DEF theory, Forest, ReasonedForest
    <2>2. \A p \in AppTerm : signatures'[p] = IF p = t THEN Signature(t) ELSE signatures[p]
      BY <1>1, <1>5
    <2>3. SignaturesAreRooted'
      BY <1>3, <1>5, <2>2 DEF theory, Forest, SignaturesAreRooted, Same
    <2> QED
      BY <1>4, <2>1, <2>3 DEF Forest, ReasonedForest
  <1>6. ASSUME NEW previous \in AppTerm, signatures[previous] = Signature(t),
               Merge(previous, t, Congruence), UNCHANGED signatures
        PROVE  Forest'
    <2>1. previous \in Term /\ t \in Term
      BY ArgumentsAreTerms
    <2>2. signatures[previous] # NoSignature
      BY <1>1, <1>6, SignatureShape
    <2>3. IsReason(previous, t, Congruence)
      BY <1>3, <1>6, <2>2, ArgumentsAreTerms
      DEF Forest, SignaturesAreRooted, IsReason, Same
    <2>4. ReasonedForest' /\ \A x, y \in Term : Same(x, y) => Same(x, y)'
      BY <1>1, <1>6, <2>1, <2>3, MergeForest DEF Forest, ReasonedForest
    <2>5. SignaturesAreRooted'
      BY <1>6, <2>4, ArgumentsAreTerms DEF Forest, SignaturesAreRooted
    <2> QED
      BY <1>4, <2>4, <2>5 DEF Forest, ReasonedForest
  <1> QED
    BY <1>2, <1>5, <1>6 DEF CloseApp

(* The other steps leave the forest alone; a pass ends with an empty map.  *)
LEMMA ForestElsewhere ==
    ASSUME Inv, Forest, UNCHANGED <<atoms, assignment, root, edges>>,
           \/ UNCHANGED signatures
           \/ signatures' = [t \in AppTerm |-> NoSignature],
           \/ pc' = "none" \/ \A v \in Var : assignment[v] # 0
    PROVE  Forest'
  <1>1. ReasonedForest'
    BY UnmovedForest DEF Forest, ReasonedForest
  <1>2. SignaturesAreRooted'
    BY DEF Forest, SignaturesAreRooted, Same
  <1>3. IsAssigned'
    BY DEF IsAssigned
  <1> QED
    BY <1>1, <1>2, <1>3 DEF Forest, ReasonedForest

(* Every step keeps the forest.                                            *)
LEMMA ForestNext == Inv /\ Forest /\ [Next]_vars => Forest'
  <1> SUFFICES ASSUME Inv, Forest, [Next]_vars PROVE Forest'
    OBVIOUS
  <1>1. CASE AssertVar
    BY <1>1, ForestAssertVar
  <1>2. CASE CloseApp
    BY <1>2, ForestCloseApp
  <1>3. CASE EndPass
    BY <1>3, ForestElsewhere DEF EndPass, theory, closing, Forest, IsAssigned
  <1>4. CASE Refuse \/ Start
    BY <1>4, ForestElsewhere DEF Refuse, Start, theory, closing
  <1>5. CASE \/ AssertedAll \/ StartExplanation \/ NoConflict \/ ExplainPair
             \/ EndExplanation \/ Return
    BY <1>5, ForestElsewhere
    DEF AssertedAll, StartExplanation, NoConflict, ExplainPair, EndExplanation, Return,
        theory, closing, Forest, IsAssigned
  <1>6. CASE UNCHANGED vars
    <2>1. ReasonedForest'
      BY <1>6, UnmovedForest DEF vars, Forest, ReasonedForest
    <2> QED
      BY <1>6, <2>1
      DEF vars, Forest, ReasonedForest, SignaturesAreRooted, IsAssigned, Same
  <1> QED
    BY <1>1, <1>2, <1>3, <1>4, <1>5, <1>6 DEF Next, Done

(* The edges of the theory are a forest of its classes, and the reasons of *)
(* congruence edges are older than they are.                               *)
THEOREM ForestAlways == Spec => []Forest
  <1>1. Init => Inv /\ Forest
    BY InitInv, ForestInit
  <1>2. Inv /\ Forest /\ [Next]_vars => Forest'
    BY ForestNext
  <1> QED
    BY <1>1, <1>2, SpecInv, PTL DEF Spec

(* The edges are always a forest that connects exactly the equal terms,    *)
(* with reasons older than the edge: explaining a pair terminates, and what*)
(* it collects is what the assertions of the round said.                   *)
THEOREM ProofForestAlways == Spec => []ProofForest
  <1>1. Inv /\ Forest => ProofForest
    BY DEF Inv, Forest, ProofForest
  <1> QED
    BY <1>1, SpecInv, ForestAlways, PTL

-----------------------------------------------------------------------------
(* The edges up to one, and the path among them.                           *)
LEMMA UptoFacts ==
    ASSUME edges \in Seq(Edge)
    PROVE  /\ Upto(0) = {}
           /\ Upto(Len(edges)) = DOMAIN edges
           /\ \A n \in Nat : Upto(n) \subseteq DOMAIN edges
           /\ \A i \in DOMAIN edges : /\ i \in Nat \ {0}
                                      /\ edges[i] \in Edge
                                      /\ edges[i].a \in Term /\ edges[i].b \in Term
                                      /\ 1..(i - 1) = Upto(i - 1)
           /\ \A i \in DOMAIN edges : \A n \in Nat :
                  i <= n + 1 => Upto(i - 1) \subseteq Upto(n)
  <1>1. DOMAIN edges = 1..Len(edges) /\ Len(edges) \in Nat
    OBVIOUS
  <1>2. \A i \in DOMAIN edges : edges[i] \in Edge
    OBVIOUS
  <1>3. \A i \in DOMAIN edges : edges[i].a \in Term /\ edges[i].b \in Term
    BY <1>2 DEF Edge
  <1> QED
    BY <1>1, <1>2, <1>3 DEF Upto

(* The path between two terms that the first n edges connect is among      *)
(* these.                                                                  *)
LEMMA PathIsOld ==
    ASSUME edges \in Seq(Edge), NEW n \in Nat, NEW s \in Term, NEW t \in Term,
           Connected(Upto(n), s, t)
    PROVE  Path(s, t) \subseteq Upto(n)
  <1> SUFFICES ASSUME NEW i \in Path(s, t), i \notin Upto(n) PROVE FALSE
    OBVIOUS
  <1>1. Upto(n) \subseteq DOMAIN edges \ {i}
    BY DEF Upto
  <1> QED
    BY <1>1, ConnectedIsMonotone DEF Path

(* The arguments of a congruence edge are connected by the edges before.   *)
LEMMA ArgumentsAreConnected ==
    ASSUME Inv, Forest, NEW i \in DOMAIN edges, edges[i].reason = Congruence,
           NEW k \in DOMAIN ArgsOf[edges[i].a]
    PROVE  LET s == ArgsOf[edges[i].a][k]
               t == ArgsOf[edges[i].b][k]
           IN  /\ s \in Term /\ t \in Term
               /\ Connected(Upto(i - 1), s, t)
               /\ Same(s, t)
               /\ {s, t} \in ArgPairs(edges[i].a, edges[i].b)
  <1> DEFINE s == ArgsOf[edges[i].a][k]
             t == ArgsOf[edges[i].b][k]
  <1>1. edges \in Seq(Edge)
    BY DEF Inv, TypeOK
  <1>2. s \in Term /\ t \in Term
    BY ArgumentsAreTerms DEF Inv, CongruenceEdgesMatch
  <1>3. {s, t} \in ArgPairs(edges[i].a, edges[i].b)
    BY DEF ArgPairs, Pair
  <1>4. Connected(1..(i - 1), s, t)
    BY <1>3 DEF Forest, ReasonsAreOlder
  <1>5. 1..(i - 1) = Upto(i - 1) /\ 1..(i - 1) \subseteq DOMAIN edges
    BY <1>1, UptoFacts DEF Upto
  <1> HIDE DEF s, t
  <1>6. Same(s, t)
    <2>1. Connected(DOMAIN edges, s, t)
      BY <1>4, <1>5, ConnectedIsMonotone
    <2> QED
      BY <1>2, <2>1 DEF Forest, SpanningForest
  <1> QED
    BY <1>2, <1>3, <1>4, <1>5, <1>6 DEF s, t

(* Once nothing is left to do, a structure that satisfies the reasons      *)
(* gives the two terms of an expanded pair one value.  By induction on the *)
(* number of edges that connect the pair: the path needs no others, its    *)
(* literals hold, and the arguments of its congruence edges were connected *)
(* by fewer.                                                               *)
LEMMA ExplainedAreEqual ==
    ASSUME Inv, Forest, todo = {}, \A pair \in expanded : Explained(pair),
           NEW V \in [Term -> Term], IsCongruent(V),
           \A v \in Var : LiteralOf(v) \in reasons =>
               \A pair \in AssertedBy(v) : V[pair[1]] = V[pair[2]]
    PROVE  \A s, t \in Term : {s, t} \in expanded => V[s] = V[t]
  <1>1. edges \in Seq(Edge)
    BY DEF Inv, TypeOK
  <1> DEFINE Equal(n) == \A s, t \in Term :
                 {s, t} \in expanded /\ Connected(Upto(n), s, t) => V[s] = V[t]
             N == {n \in Nat : Equal(n)}
  <1>2. Equal(0)
    <2> SUFFICES ASSUME NEW s \in Term, NEW t \in Term, s # t
                 PROVE  ~Connected(Upto(0), s, t)
      OBVIOUS
    <2>1. {s} \in SUBSET (Term \ {t}) /\ Uncut(Upto(0), {s})
      BY <1>1, UptoFacts DEF Uncut
    <2> QED
      BY <2>1 DEF Connected
  <1>3. ASSUME NEW n \in Nat, Equal(n) PROVE Equal(n + 1)
    <2> SUFFICES ASSUME NEW s \in Term, NEW t \in Term, {s, t} \in expanded,
                        Connected(Upto(n + 1), s, t)
                 PROVE  V[s] = V[t]
      OBVIOUS
    <2>1. PICK x, y \in Term :
              /\ {s, t} = {x, y} /\ Same(x, y)
              /\ \A i \in Path(x, y) :
                     IF edges[i].reason = Congruence
                     THEN \A q \in ArgPairs(edges[i].a, edges[i].b) : Settled(q)
                     ELSE edges[i].reason \in reasons
      BY DEF Explained
    <2>2. Connected(Upto(n + 1), x, y)
      <3>1. Upto(n + 1) \in SUBSET DOMAIN edges
        BY DEF Upto
      <3>2. Connected(Upto(n + 1), t, s)
        BY <1>1, <3>1, ConnectedIsSymmetric
      <3> QED
        BY <2>1, <3>2
    <2>3. Path(x, y) \subseteq Upto(n + 1)
      BY <1>1, <2>2, PathIsOld
    <2>4. ASSUME NEW i \in Path(x, y)
          PROVE  V[edges[i].a] = V[edges[i].b]
      <3>1. i \in DOMAIN edges /\ i <= n + 1 /\ edges[i] \in Edge
        BY <1>1, <2>3, UptoFacts DEF Upto
      <3>2. CASE edges[i].reason = Congruence
        <4>1. ASSUME NEW k \in DOMAIN ArgsOf[edges[i].a]
              PROVE  V[ArgsOf[edges[i].a][k]] = V[ArgsOf[edges[i].b][k]]
          <5>0. PICK u, w : u = ArgsOf[edges[i].a][k] /\ w = ArgsOf[edges[i].b][k]
            OBVIOUS
          <5>1. /\ u \in Term /\ w \in Term /\ Connected(Upto(i - 1), u, w)
                /\ {u, w} \in ArgPairs(edges[i].a, edges[i].b)
            BY <3>1, <3>2, <5>0, ArgumentsAreConnected
          <5>2. Upto(i - 1) \subseteq Upto(n)
            BY <1>1, <3>1, UptoFacts
          <5>3. Connected(Upto(n), u, w)
            BY <5>1, <5>2, ConnectedIsMonotone
          <5>4. Settled({u, w})
            BY <2>1, <3>2, <5>1
          <5>5. u = w \/ {u, w} \in expanded
            BY <5>4 DEF Settled
          <5> QED
            BY <1>3, <5>0, <5>1, <5>3, <5>5
        <4>2. /\ edges[i].a \in AppTerm /\ edges[i].b \in AppTerm
              /\ FunOf[edges[i].a] = FunOf[edges[i].b]
              /\ DOMAIN ArgsOf[edges[i].a] = DOMAIN ArgsOf[edges[i].b]
          BY <3>1, <3>2 DEF Inv, CongruenceEdgesMatch
        <4>3. SameUnder(V, edges[i].a, edges[i].b)
          BY <4>1, <4>2 DEF SameUnder
        <4> QED
          BY <4>2, <4>3 DEF IsCongruent
      <3>3. CASE edges[i].reason # Congruence
        <4>1. PICK v \in Var : /\ edges[i].reason = LiteralOf(v)
                               /\ <<edges[i].a, edges[i].b>> \in AssertedBy(v)
          BY <3>1, <3>3 DEF Forest, EdgesAreAsserted
        <4>2. LiteralOf(v) \in reasons
          BY <2>1, <3>3, <4>1
        <4> QED
          BY <4>1, <4>2
      <3> QED
        BY <3>2, <3>3
    <2>5. Connected(Path(x, y), x, y)
      BY <1>1, <2>1, PathConnects DEF Forest
    <2>6. V[x] = V[y]
      <3> DEFINE S == {u \in Term : V[u] = V[x]}
      <3>1. \A i \in Path(x, y) : edges[i].a \in Term /\ edges[i].b \in Term
        <4>1. \A i \in DOMAIN edges : edges[i] \in Edge
          BY <1>1
        <4> QED
          BY <4>1 DEF Path, Edge
      <3>2. Uncut(Path(x, y), S)
        BY <2>4, <3>1 DEF Uncut
      <3>3. S \in SUBSET Term /\ x \in S
        OBVIOUS
      <3>4. y \in S
        <4> HIDE DEF S
        <4> QED
          BY <2>5, <3>2, <3>3, Closure
      <3> QED
        BY <3>4
    <2> QED
      BY <2>1, <2>6
  <1> HIDE DEF Equal
  <1>4. N = Nat
    <2>1. N \in SUBSET Nat /\ 0 \in N /\ \A n \in N : n + 1 \in N
      BY <1>2, <1>3
    <2> HIDE DEF N
    <2> QED
      BY <2>1, Induction
  <1> SUFFICES ASSUME NEW s \in Term, NEW t \in Term, {s, t} \in expanded
               PROVE  V[s] = V[t]
    OBVIOUS
  <1>5. Equal(Len(edges))
    BY <1>1, <1>4
  <1>6. Upto(Len(edges)) = DOMAIN edges
    BY <1>1, UptoFacts
  <1>7. Same(s, t)
    <2>1. PICK x, y \in Term : {s, t} = {x, y} /\ Same(x, y)
      BY DEF Explained
    <2> QED
      BY <2>1 DEF Same
  <1>8. Connected(Upto(Len(edges)), s, t)
    BY <1>6, <1>7 DEF Forest, SpanningForest
  <1> QED
    BY <1>5, <1>8 DEF Equal

-----------------------------------------------------------------------------
(* The clause of a finished explanation is a lemma, since a structure that *)
(* falsifies it satisfies the reasons, gives the denied pair one value by  *)
(* them, and two by the literal that denies it.                            *)
LEMMA ExplanationRefutes ==
    ASSUME Inv, Forest, Explanation, pc = "explain", todo = {}
    PROVE  ValidLemma(atoms, ConflictClause)
  <1> SUFFICES ASSUME NEW V \in Interpretations, V[TrueTerm] # V[FalseTerm],
                      \A l \in ConflictClause :
                          Satisfies(V, atoms[IF l > 0 THEN l ELSE -l],
                                    IF l > 0 THEN -1 ELSE 1)
               PROVE  FALSE
    BY DEF ValidLemma
  <1>1. atoms \in AtomTables /\ \A v \in Var : assignment[v] \in {-1, 1}
    BY DEF Inv, TypeOK, Forest, IsAssigned
  <1>2. ASSUME NEW v \in Var, LiteralOf(v) \in reasons
        PROVE  /\ \A pair \in AssertedBy(v) : V[pair[1]] = V[pair[2]]
               /\ \A pair \in DeniedAt(v) : V[pair[1]] # V[pair[2]]
    <2>1. -LiteralOf(v) \in ConflictClause /\ v \in Nat \ {0}
      BY <1>2 DEF ConflictClause, Var
    <2>2. Satisfies(V, atoms[v], assignment[v])
      <3>1. CASE assignment[v] = 1
        BY <2>1, <3>1 DEF LiteralOf
      <3>2. CASE assignment[v] = -1
        <4>1. LiteralOf(v) = -v /\ -(-v) = v
          BY <2>1, <3>2 DEF LiteralOf
        <4> QED
          BY <2>1, <3>2, <4>1
      <3> QED
        BY <1>1, <3>1, <3>2
    <2> QED
      BY <1>1, <2>2, LiteralMeaning
  <1>3. PICK pair \in DeniedAt(var) :
            Same(pair[1], pair[2]) /\ Settled(Pair(pair[1], pair[2]))
    BY DEF Explanation
  <1>4. pair[1] \in Term /\ pair[2] \in Term
    BY <1>1, ArenaAssumption, TheoryAssumption DEF Explanation, DeniedAt, Atom, Var
  <1>5. V[pair[1]] = V[pair[2]]
    <2>1. V \in [Term -> Term] /\ IsCongruent(V)
      BY DEF Interpretations, Valuations
    <2>2. CASE {pair[1], pair[2]} \in expanded
      BY <1>2, <1>4, <2>1, <2>2, ExplainedAreEqual DEF Explanation
    <2>3. CASE pair[1] = pair[2]
      BY <2>3
    <2> QED
      BY <1>3, <2>2, <2>3 DEF Settled, Pair
  <1>6. CASE var = 0
    BY <1>3, <1>5, <1>6 DEF DeniedAt
  <1>7. CASE var # 0
    <2>1. var \in Var
      BY <1>7, ArenaAssumption DEF Explanation, Var
    <2>2. assignment[var] = -1
      BY <1>3, <1>7 DEF DeniedAt
    <2>3. LiteralOf(var) \in reasons
      BY <1>7, <2>2 DEF Explanation, LiteralOf
    <2> QED
      BY <1>2, <1>3, <1>5, <2>1, <2>3
  <1> QED
    BY <1>6, <1>7

(* The literals of a clause are the opposites of literals that hold.       *)
LEMMA ReasonsAreTrue ==
    ASSUME Inv, Forest, Explanation, pc = "explain", NEW l \in ConflictClause
    PROVE  assignment[IF l > 0 THEN l ELSE -l] = (IF l > 0 THEN -1 ELSE 1)
  <1>1. PICK v \in Var : l = -LiteralOf(v)
    BY DEF Explanation, ConflictClause
  <1>2. v \in Nat \ {0} /\ assignment[v] \in {-1, 1}
    BY DEF Inv, TypeOK, Forest, IsAssigned, Var
  <1>3. CASE assignment[v] = 1
    BY <1>1, <1>2, <1>3 DEF LiteralOf
  <1>4. CASE assignment[v] = -1
    <2>1. l = v
      BY <1>1, <1>2, <1>4 DEF LiteralOf
    <2> QED
      BY <1>2, <1>4, <2>1
  <1> QED
    BY <1>2, <1>3, <1>4

(* The explanation starts with the denied pair on its list, and the        *)
(* literal that denies it taken.                                           *)
LEMMA ExplanationStarts == Inv /\ Forest /\ StartExplanation => Explanation'
  <1> SUFFICES ASSUME Inv, Forest, StartExplanation PROVE Explanation'
    OBVIOUS
  <1>1. PICK pair \in DeniedAt(var) :
            Same(pair[1], pair[2]) /\ todo' = {Pair(pair[1], pair[2])}
    BY DEF StartExplanation
  <1>2. /\ expanded' = {} /\ reasons' = (IF var = 0 THEN {} ELSE {-var})
        /\ var \in 0..NumVars
        /\ UNCHANGED <<atoms, assignment, var, root, edges>>
    BY DEF StartExplanation, theory
  <1>3. pair[1] \in Term /\ pair[2] \in Term
    BY <1>2, ArenaAssumption, TheoryAssumption DEF Inv, TypeOK, DeniedAt, Atom, Var
  <1>4. \E q \in DeniedAt(var)' : Same(q[1], q[2])' /\ Settled(Pair(q[1], q[2]))'
    <2>1. DeniedAt(var)' = DeniedAt(var) /\ Same(pair[1], pair[2])'
      BY <1>1, <1>2 DEF DeniedAt, Same
    <2>2. Settled(Pair(pair[1], pair[2]))'
      BY <1>1 DEF Settled
    <2> QED
      BY <2>1, <2>2
  <1>5. ASSUME NEW l \in reasons' PROVE \E v \in Var : l = LiteralOf(v)'
    <2>1. var # 0 /\ l = -var /\ var \in Var
      BY <1>2, <1>5, ArenaAssumption DEF Var
    <2>2. assignment[var] = -1
      BY <1>1, <2>1 DEF DeniedAt
    <2> QED
      BY <1>2, <2>1, <2>2 DEF LiteralOf
  <1>6. \A q \in todo' : \E s, t \in Term : q = {s, t} /\ Same(s, t)'
    BY <1>1, <1>2, <1>3 DEF Pair, Same
  <1> QED
    BY <1>2, <1>4, <1>5, <1>6 DEF Explanation

(* A pair with two elements is not settled by being one term.              *)
LEMMA PairOfOne ==
    ASSUME NEW s, NEW t, Cardinality({s, t}) = 1
    PROVE  s = t
  <1> SUFFICES ASSUME s # t PROVE FALSE
    OBVIOUS
  <1>1. {s, t} = {s} \cup {t} /\ t \notin {s}
    OBVIOUS
  <1>2. IsFiniteSet({s}) /\ Cardinality({s}) = 1
    BY FS_Singleton
  <1>3. Cardinality({s, t}) = 2
    BY <1>1, <1>2, FS_AddElement
  <1> QED
    BY <1>3

(* What an explanation keeps as its lists change: the forest, and what was *)
(* settled, stay as they were.                                             *)
LEMMA ExplanationKept ==
    ASSUME Inv, Explanation, pc = "explain", pc' = "explain",
           UNCHANGED <<atoms, assignment, var, root, edges>>,
           reasons \subseteq reasons',
           \A q : Settled(q) => (\E t \in Term : q = {t}) \/ q \in todo' \cup expanded',
           \A l \in reasons' : \E v \in Var : l = LiteralOf(v),
           \A q \in todo' : \E s, t \in Term : q = {s, t} /\ Same(s, t),
           \A q \in expanded' \ expanded :
               \E s, t \in Term :
                   /\ q = {s, t} /\ Same(s, t)
                   /\ \A i \in Path(s, t) :
                          IF edges[i].reason = Congruence
                          THEN ArgPairs(edges[i].a, edges[i].b) \subseteq todo'
                          ELSE edges[i].reason \in reasons'
    PROVE  Explanation'
  <1>1. var' \in 0..NumVars /\ (var' # 0 => -var' \in reasons')
    BY DEF Explanation
  <1>2. \E q \in DeniedAt(var)' : Same(q[1], q[2])' /\ Settled(Pair(q[1], q[2]))'
    <2>1. PICK q \in DeniedAt(var) : Same(q[1], q[2]) /\ Settled(Pair(q[1], q[2]))
      BY DEF Explanation
    <2>2. Settled(Pair(q[1], q[2]))'
      BY <2>1 DEF Settled
    <2>3. DeniedAt(var)' = DeniedAt(var) /\ Same(q[1], q[2])'
      BY <2>1 DEF DeniedAt, Same
    <2> QED
      BY <2>1, <2>2, <2>3
  <1>3. \A l \in reasons' : \E v \in Var : l = LiteralOf(v)'
    BY DEF LiteralOf
  <1>4. \A q \in todo' : \E s, t \in Term : q = {s, t} /\ Same(s, t)'
    BY DEF Same
  <1>5. ASSUME NEW q \in expanded' PROVE Explained(q)'
    <2>1. PICK s, t \in Term :
              /\ q = {s, t} /\ Same(s, t)
              /\ \A i \in Path(s, t) :
                     IF edges[i].reason = Congruence
                     THEN \A r \in ArgPairs(edges[i].a, edges[i].b) :
                              (\E u \in Term : r = {u}) \/ r \in todo' \cup expanded'
                     ELSE edges[i].reason \in reasons'
      <3>1. CASE q \in expanded
        <4>1. Explained(q)
          BY <3>1 DEF Explanation
        <4> QED
          BY <4>1 DEF Explained
      <3>2. CASE q \notin expanded
        BY <3>2
      <3> QED
        BY <3>1, <3>2
    <2>2. Path(s, t)' = Path(s, t)
      BY DEF Path, Connected, Uncut
    <2>3. \A i : ArgPairs(edges[i].a, edges[i].b)' = ArgPairs(edges[i].a, edges[i].b)
      BY DEF ArgPairs
    <2> QED
      BY <2>1, <2>2, <2>3 DEF Explained, Settled, Same
  <1> QED
    BY <1>1, <1>2, <1>3, <1>4, <1>5 DEF Explanation

(* A call of explain_equal_inner takes the literals of the path, which     *)
(* hold, and lists the arguments of its congruence edges.                  *)
LEMMA ExplanationGoesOn == Inv /\ Forest /\ Explanation /\ ExplainPair => Explanation'
  <1> SUFFICES ASSUME Inv, Forest, Explanation, ExplainPair PROVE Explanation'
    OBVIOUS
  <1>1. /\ pc = "explain" /\ pc' = "explain"
        /\ UNCHANGED <<atoms, assignment, var, root, edges>>
    BY DEF ExplainPair, theory
  <1>2. /\ \A q \in todo : \E s, t \in Term : q = {s, t} /\ Same(s, t)
        /\ \A l \in reasons : \E v \in Var : l = LiteralOf(v)
    BY <1>1 DEF Explanation
  <1>3. ASSUME NEW pair \in todo, Cardinality(pair) = 1 \/ pair \in expanded,
               todo' = todo \ {pair}, UNCHANGED <<expanded, reasons>>
        PROVE  Explanation'
    <2>1. (\E t \in Term : pair = {t}) \/ pair \in expanded
      <3>1. PICK s, t \in Term : pair = {s, t}
        BY <1>2
      <3> QED
        BY <1>3, <3>1, PairOfOne
    <2>2. \A q : Settled(q) => (\E t \in Term : q = {t}) \/ q \in todo' \cup expanded'
      BY <1>3, <2>1 DEF Settled
    <2> QED
      BY <1>1, <1>2, <1>3, <2>2, ExplanationKept
  <1>4. ASSUME NEW pair \in todo, NEW s \in pair, NEW t \in pair \ {s},
               NEW path, path = {edges[i] : i \in Path(s, t)},
               NEW derived, derived = {e \in path : e.reason = Congruence},
               expanded' = expanded \cup {pair},
               reasons' = reasons \cup {e.reason : e \in path \ derived},
               todo' = (todo \ {pair}) \cup UNION {ArgPairs(e.a, e.b) : e \in derived}
        PROVE  Explanation'
    <2>1. pair = {s, t} /\ s \in Term /\ t \in Term /\ Same(s, t)
      BY <1>2, <1>4 DEF Same
    <2>2. \A q : Settled(q) => (\E u \in Term : q = {u}) \/ q \in todo' \cup expanded'
      BY <1>4 DEF Settled
    <2>3. \A i \in Path(s, t) :
              /\ i \in DOMAIN edges
              /\ edges[i].reason = Congruence => edges[i] \in derived
              /\ edges[i].reason # Congruence => edges[i] \in path \ derived
      BY <1>4 DEF Path
    <2>4. \A e \in path : \E i \in DOMAIN edges : e = edges[i]
      BY <1>4 DEF Path
    <2>5. \A l \in reasons' : \E v \in Var : l = LiteralOf(v)
      <3>1. ASSUME NEW e \in path \ derived
            PROVE  \E v \in Var : e.reason = LiteralOf(v)
        <4>1. PICK i \in DOMAIN edges : e = edges[i]
          BY <1>4, <2>4
        <4>2. edges[i].reason # Congruence
          BY <1>4, <3>1, <4>1
        <4>3. EdgesAreAsserted
          BY DEF Forest
        <4> QED
          BY <4>1, <4>2, <4>3 DEF EdgesAreAsserted
      <3> QED
        BY <1>2, <1>4, <3>1
    <2>6. \A q \in todo' : \E u, w \in Term : q = {u, w} /\ Same(u, w)
      <3>1. ASSUME NEW e \in derived, NEW q \in ArgPairs(e.a, e.b)
            PROVE  \E u, w \in Term : q = {u, w} /\ Same(u, w)
        <4>1. PICK i \in DOMAIN edges : e = edges[i] /\ edges[i].reason = Congruence
          BY <1>4, <2>4
        <4>2. PICK k \in DOMAIN ArgsOf[e.a] : q = {ArgsOf[e.a][k], ArgsOf[e.b][k]}
          BY DEF ArgPairs, Pair
        <4> QED
          BY <4>1, <4>2, ArgumentsAreConnected
      <3> QED
        BY <1>2, <1>4, <3>1
    <2>7. \A i \in Path(s, t) :
              IF edges[i].reason = Congruence
              THEN ArgPairs(edges[i].a, edges[i].b) \subseteq todo'
              ELSE edges[i].reason \in reasons'
      BY <1>4, <2>3
    <2>8. \A q \in expanded' \ expanded :
              \E u, w \in Term :
                  /\ q = {u, w} /\ Same(u, w)
                  /\ \A i \in Path(u, w) :
                         IF edges[i].reason = Congruence
                         THEN ArgPairs(edges[i].a, edges[i].b) \subseteq todo'
                         ELSE edges[i].reason \in reasons'
      BY <1>4, <2>1, <2>7
    <2>9. reasons \subseteq reasons'
      BY <1>4
    <2> QED
      BY <1>1, <2>2, <2>5, <2>6, <2>8, <2>9, ExplanationKept
  <1> QED
    BY <1>3, <1>4 DEF ExplainPair

(* The clauses so far are about atoms and an assignment that do not change.*)
LEMMA ConflictsKept ==
    ASSUME ConflictsAreRefutations, UNCHANGED <<atoms, assignment>>,
           conflicts' \subseteq conflicts
    PROVE  ConflictsAreRefutations'
  BY DEF ConflictsAreRefutations, ValidLemma

(* Every step keeps the explanation and the clauses found so far.          *)
LEMMA SoundNext ==
    ASSUME Inv, Forest, Explanation, ConflictsAreRefutations, [Next]_vars
    PROVE  Explanation' /\ ConflictsAreRefutations'
  <1>1. CASE Refuse \/ Start \/ AssertVar \/ AssertedAll \/ CloseApp \/ EndPass
               \/ NoConflict
    <2>1. pc' # "explain" /\ UNCHANGED <<atoms, assignment, conflicts>>
      BY <1>1 DEF Refuse, Start, AssertVar, AssertedAll, CloseApp, EndPass, NoConflict,
                  explaining
    <2> QED
      BY <2>1, ConflictsKept DEF Explanation
  <1>2. CASE StartExplanation
    BY <1>2, ExplanationStarts, ConflictsKept DEF StartExplanation
  <1>3. CASE ExplainPair
    BY <1>3, ExplanationGoesOn, ConflictsKept DEF ExplainPair
  <1>4. CASE EndExplanation
    <2>1. /\ pc = "explain" /\ pc' = "check" /\ todo = {}
          /\ conflicts' = conflicts \cup {ConflictClause}
          /\ UNCHANGED <<atoms, assignment>>
      BY <1>4 DEF EndExplanation
    <2>2. ValidLemma(atoms, ConflictClause)
      BY <2>1, ExplanationRefutes
    <2>3. \A l \in ConflictClause :
              assignment[IF l > 0 THEN l ELSE -l] = (IF l > 0 THEN -1 ELSE 1)
      BY <2>1, ReasonsAreTrue
    <2>4. ASSUME NEW clause \in conflicts'
          PROVE  /\ ValidLemma(atoms, clause)
                 /\ \A l \in clause :
                        assignment[IF l > 0 THEN l ELSE -l] = (IF l > 0 THEN -1 ELSE 1)
      BY <2>1, <2>2, <2>3 DEF ConflictsAreRefutations
    <2> QED
      BY <2>1, <2>4 DEF ConflictsAreRefutations, ValidLemma, Explanation
  <1>5. CASE Return
    BY <1>5, ConflictsKept DEF Return, Explanation
  <1>6. CASE UNCHANGED vars
    <2>1. /\ UNCHANGED <<pc, atoms, assignment, var, root, edges, todo, expanded,
                         reasons, conflicts>>
      BY <1>6 DEF vars
    <2>2. CASE pc = "explain"
      BY <2>1, <2>2, ExplanationKept, ConflictsKept DEF Explanation, Settled
    <2>3. CASE pc # "explain"
      BY <2>1, <2>3, ConflictsKept DEF Explanation
    <2> QED
      BY <2>2, <2>3
  <1> QED
    BY <1>1, <1>2, <1>3, <1>4, <1>5, <1>6 DEF Next, Done

(* On every arena, table of atoms and assignment: a conflict clause is a   *)
(* lemma of QF_UF, so adding it to the CNF removes no model, and it is     *)
(* false under the assignment, so the same candidate does not come back.   *)
THEOREM ConflictsAlwaysRefute == Spec => []ConflictsAreRefutations
  <1> DEFINE Good == Explanation /\ ConflictsAreRefutations
  <1>1. Init => Good
    BY DEF Init, Explanation, ConflictsAreRefutations
  <1>2. Inv /\ Forest /\ Good /\ [Next]_vars => Good'
    BY SoundNext
  <1>3. Good => ConflictsAreRefutations
    OBVIOUS
  <1> HIDE DEF Good
  <1> QED
    BY <1>1, <1>2, <1>3, SpecInv, ForestAlways, PTL DEF Spec
=============================================================================
