------------------------- MODULE SatPortfolioProofs -------------------------
(***************************************************************************)
(* For every problem, configuration and backend behaviour: the portfolio   *)
(* implements Decision, so its sat and unsat are the truth, and it gives   *)
(* up only after a fault of a backend or a limit.                          *)
(*                                                                         *)
(* Unsat is safe because lemmas exclude no consistent assignment, whatever *)
(* lemmas are loaded; sat is safe because the candidate has been tested,   *)
(* whatever the backend said.  Both rest on every stage working on a CNF   *)
(* that is satisfiable iff the problem's is.                               *)
(***************************************************************************)
EXTENDS SatPortfolio, FiniteSetTheorems, TLAPS

Equisatisfiable == SatisfiableCnf(completed) <=> SatisfiableCnf(base)

UnansweredUntilDone ==
    /\ stage # "done" => result = "none"
    /\ stage \notin SatStages => candidate = NoCandidate

LearnedAreLoaded == learned \subseteq clauses

Honest ==
    ~faulted => /\ result # "unsupported"
                /\ candidate # NoCandidate => SatisfiesAll(candidate)

Inv == TypeOK /\ Equisatisfiable /\ UnansweredUntilDone /\ LearnedAreLoaded /\ Honest

-----------------------------------------------------------------------------
(* The first stage of solve_bool_problem holds the CNF it is given.        *)
THEOREM InitInv == Init => Inv
  <1> SUFFICES ASSUME Init PROVE Inv
    OBVIOUS
  <1>1. TypeOK
    BY DEF Init, TypeOK
  <1>2. Equisatisfiable
    BY Zenon DEF Init, Equisatisfiable
  <1>3. UnansweredUntilDone /\ LearnedAreLoaded /\ Honest
    BY DEF Init, UnansweredUntilDone, SatStages, LearnedAreLoaded, Honest
  <1> QED
    BY <1>1, <1>2, <1>3 DEF Inv

(* The problem of a call does not change.                                  *)
LEMMA EquisatisfiableIsFixed ==
    ASSUME Inv, UNCHANGED problem
    PROVE  Equisatisfiable' /\ UNCHANGED base
  <1>1. UNCHANGED <<config, base, completed>>
    BY DEF problem
  <1>2. SatisfiableCnf(completed)' = SatisfiableCnf(completed)
          /\ SatisfiableCnf(base)' = SatisfiableCnf(base)
    BY <1>1 DEF SatisfiableCnf
  <1> QED
    BY <1>1, <1>2, Zenon DEF Inv, Equisatisfiable

(* Entering a stage and concluding: what every handler ends with.          *)
LEMMA EnterFacts ==
    ASSUME Inv, NEW next \in SatStages, NEW cnf \in {base, completed},
           NEW lemmas \in SUBSET Lemma, Enter(next, cnf, lemmas),
           faulted' \in BOOLEAN, stage # "done"
    PROVE  Inv' /\ UNCHANGED <<base, result>>
  <1>1. /\ UNCHANGED <<config, base, completed, result>>
        /\ stage' \in SatStages /\ formula' \in {base, completed}
        /\ clauses' \subseteq Lemma /\ candidate' = NoCandidate
        /\ learned' = {} /\ round' = 1
    BY PortfolioAssumption DEF Enter, problem
  <1>2. TypeOK'
    BY <1>1 DEF Inv, TypeOK
  <1>3. Equisatisfiable'
    BY EquisatisfiableIsFixed DEF Enter
  <1>4. UnansweredUntilDone' /\ LearnedAreLoaded' /\ Honest'
    BY <1>1 DEF Inv, UnansweredUntilDone, LearnedAreLoaded, Honest
  <1> QED
    BY <1>1, <1>2, <1>3, <1>4 DEF Inv

(* An answer ends the call and keeps the invariant.                        *)
LEMMA ConcludeFacts ==
    ASSUME Inv, NEW answer \in {"sat", "unsat", "unsupported"}, Conclude(answer),
           faulted' \in BOOLEAN, answer = "unsupported" => faulted'
    PROVE  Inv' /\ UNCHANGED base /\ result' = answer
  <1>1. /\ UNCHANGED <<config, base, completed, formula, clauses, learned, round>>
        /\ stage' = "done" /\ candidate' = NoCandidate /\ result' = answer
    BY DEF Conclude, problem
  <1>2. TypeOK'
    BY <1>1 DEF Inv, TypeOK
  <1>3. Equisatisfiable'
    BY EquisatisfiableIsFixed DEF Conclude
  <1>4. UnansweredUntilDone' /\ LearnedAreLoaded' /\ Honest'
    BY <1>1 DEF Inv, UnansweredUntilDone, LearnedAreLoaded, Honest
  <1> QED
    BY <1>1, <1>2, <1>3, <1>4 DEF Inv

(* The stages that handlers hand over to.                                  *)
LEMMA EnteringFacts ==
    ASSUME Inv, stage # "done", faulted' \in BOOLEAN,
           \/ EnterCadicalOnce \/ EnterKissat \/ EnterDynamic \/ EnterVarisat
           \/ RefineOr(base) \/ RefineOr(completed) \/ EnterRefine(base)
    PROVE  Inv' /\ UNCHANGED <<base, result>>
  <1>1. FirstPassLemmas \subseteq Lemma /\ {} \subseteq Lemma /\ Congruence \subseteq Lemma
    BY PortfolioAssumption DEF FirstPassLemmas
  <1>2. {"cadical-once", "kissat", "dynamic", "refine", "varisat"} = SatStages
    BY DEF SatStages
  <1>3. ASSUME NEW next \in SatStages, NEW lemmas \in SUBSET Lemma,
               Enter(next, base, lemmas) \/ Enter(next, completed, lemmas)
        PROVE  Inv' /\ UNCHANGED <<base, result>>
    <2>1. PICK cnf \in {base, completed} : Enter(next, cnf, lemmas)
      BY <1>3
    <2> QED
      BY <2>1, EnterFacts
  <1>4. CASE EnterCadicalOnce \/ EnterKissat
    BY <1>1, <1>2, <1>3, <1>4 DEF EnterCadicalOnce, EnterKissat
  <1>5. CASE EnterDynamic
    BY <1>1, <1>2, <1>3, <1>5 DEF EnterDynamic
  <1>6. CASE EnterVarisat
    BY <1>1, <1>2, <1>3, <1>6 DEF EnterVarisat
  <1>7. CASE EnterRefine(base) \/ EnterRefine(completed)
    BY <1>1, <1>2, <1>3, <1>7 DEF EnterRefine
  <1> QED
    BY <1>4, <1>5, <1>6, <1>7 DEF RefineOr

(* Giving up on a stage: only Varisat, the last one, gives up the call.    *)
LEMMA HandOverFacts ==
    ASSUME Inv, HandOver, faulted' \in BOOLEAN, stage = "varisat" => faulted'
    PROVE  Inv' /\ UNCHANGED base /\ result = "none"
             /\ (result' = result \/ result' = "unsupported")
  <1>1. stage # "done" /\ result = "none"
    BY DEF HandOver, Inv, UnansweredUntilDone
  <1>2. CASE stage = "varisat" /\ Conclude("unsupported")
    BY <1>1, <1>2, ConcludeFacts
  <1>3. CASE EnterVarisat \/ RefineOr(base)
    BY <1>1, <1>3, EnteringFacts
  <1> QED
    BY <1>2, <1>3 DEF HandOver

(* Every lemma in a solver spares the consistent assignments, so a solver  *)
(* that reports unsat has shown the problem unsatisfiable.                 *)
LEMMA UnsatIsTrue ==
    ASSUME Inv, ~\E a \in Assignment : SatisfiesAll(a)
    PROVE  ~SatisfiableCnf(base)
  <1>1. \A a \in Consistent : \A l \in clauses : a \notin Excludes[l]
    BY PortfolioAssumption DEF Inv, TypeOK
  <1>2. ~SatisfiableCnf(formula)
    BY <1>1, PortfolioAssumption DEF SatisfiableCnf, SatisfiesAll
  <1>3. formula = base \/ formula = completed
    BY DEF Inv, TypeOK
  <1> QED
    BY <1>2, <1>3, Zenon DEF Inv, Equisatisfiable

(* A candidate that passed both tests is a model of the problem.           *)
LEMMA SatIsTrue ==
    ASSUME Inv, candidate \in formula, {} \in ConflictsOf(candidate)
    PROVE  SatisfiableCnf(base)
  <1>1. candidate \in Consistent
    BY DEF ConflictsOf
  <1>2. SatisfiableCnf(formula)
    BY <1>1 DEF SatisfiableCnf
  <1>3. formula = base \/ formula = completed
    BY DEF Inv, TypeOK
  <1> QED
    BY <1>2, <1>3, Zenon DEF Inv, Equisatisfiable

(* With an honest backend a conflict is never a repeated one.              *)
LEMMA HonestConflictsAreNovel ==
    ASSUME Inv, ~faulted, candidate # NoCandidate,
           NEW conflicts \in ConflictsOf(candidate), conflicts # {}
    PROVE  ~(conflicts \subseteq learned)
  <1>1. SatisfiesAll(candidate)
    BY DEF Inv, Honest
  <1>2. \E l \in conflicts : candidate \in Excludes[l]
    BY DEF ConflictsOf
  <1> QED
    BY <1>1, <1>2 DEF SatisfiesAll, Inv, LearnedAreLoaded

(* What a step may do to the answer.                                       *)
Answered ==
    /\ UNCHANGED base
    /\ \/ UNCHANGED result
       \/ result = "none" /\ result' = "sat" /\ SatisfiableCnf(base)
       \/ result = "none" /\ result' = "unsat" /\ ~SatisfiableCnf(base)
       \/ result = "none" /\ result' = "unsupported"

(* Learned clauses are lemmas, so no model of the problem is lost.         *)
LEMMA LearnStep == Inv /\ Learn => Inv' /\ Answered
  <1> SUFFICES ASSUME Inv, Learn PROVE Inv' /\ Answered
    OBVIOUS
  <1>1. /\ UNCHANGED <<config, base, completed, stage, formula, result, faulted>>
        /\ round' = round + 1 /\ candidate' = NoCandidate
    BY DEF Learn, problem
  <1>2. PICK conflicts \in ConflictsOf(candidate) :
            /\ learned' = learned \cup (conflicts \ learned)
            /\ clauses' = clauses \cup (conflicts \ learned) \cup MissingCongruence
    BY DEF Learn
  <1>3. conflicts \subseteq Lemma /\ MissingCongruence \subseteq Lemma
    BY PortfolioAssumption DEF ConflictsOf, MissingCongruence
  <1>4. TypeOK'
    BY <1>1, <1>2, <1>3 DEF Inv, TypeOK
  <1>5. Equisatisfiable'
    BY EquisatisfiableIsFixed DEF Learn
  <1>6. UnansweredUntilDone' /\ LearnedAreLoaded' /\ Honest'
    BY <1>1, <1>2 DEF Inv, UnansweredUntilDone, LearnedAreLoaded, Honest
  <1> QED
    BY <1>1, <1>4, <1>5, <1>6 DEF Inv, Answered

(* A model that is answered has passed the checks.                         *)
LEMMA AnswerModelStep == Inv /\ AnswerModel => Inv' /\ Answered
  <1> SUFFICES ASSUME Inv, AnswerModel PROVE Inv' /\ Answered
    OBVIOUS
  <1>1. /\ UNCHANGED <<config, base, completed, stage, formula, clauses, learned,
                       round, result>>
        /\ candidate' \in Assignment
        /\ faulted' = (faulted \/ ~SatisfiesAll(candidate'))
    BY DEF AnswerModel, problem, solver
  <1>2. TypeOK'
    BY <1>1, Zenon DEF Inv, TypeOK
  <1>3. Equisatisfiable'
    BY EquisatisfiableIsFixed DEF AnswerModel
  <1>4. UnansweredUntilDone' /\ LearnedAreLoaded'
    BY <1>1 DEF AnswerModel, Asking, Inv, UnansweredUntilDone, LearnedAreLoaded
  <1>5. Honest'
    <2> SUFFICES ASSUME ~faulted' PROVE result' # "unsupported" /\ SatisfiesAll(candidate)'
      BY DEF Honest
    <2>1. ~faulted /\ SatisfiesAll(candidate')
      BY <1>1
    <2>2. SatisfiesAll(candidate)' <=> SatisfiesAll(candidate')
      BY <1>1 DEF SatisfiesAll
    <2> QED
      BY <1>1, <2>1, <2>2 DEF Inv, Honest
  <1> QED
    BY <1>1, <1>2, <1>3, <1>4, <1>5 DEF Inv, Answered

(* Every step keeps the invariant, and answers rightly or not at all.      *)
THEOREM NextInv == Inv /\ [Next]_vars => Inv' /\ Answered
  <1> SUFFICES ASSUME Inv, [Next]_vars PROVE Inv' /\ Answered
    OBVIOUS
  <1>1. faulted \in BOOLEAN
    BY DEF Inv, TypeOK
  <1>2. CASE Route
    <2>1. CASE \/ EnterCadicalOnce \/ EnterKissat \/ EnterRefine(base) \/ EnterVarisat
      BY <1>1, <1>2, <2>1, EnteringFacts DEF Route, Answered
    <2>2. CASE /\ stage' = "dpll"
               /\ UNCHANGED <<problem, formula, clauses, candidate, learned, round, result>>
      <3>1. UNCHANGED <<config, base, completed, faulted>>
        BY <1>2, <2>2 DEF Route, problem
      <3>2. TypeOK'
        BY <2>2, <3>1 DEF Inv, TypeOK
      <3>3. UnansweredUntilDone' /\ LearnedAreLoaded'
        BY <1>2, <2>2
        DEF Route, SatStages, Inv, UnansweredUntilDone, LearnedAreLoaded
      <3>4. Honest'
        BY <2>2, <3>1 DEF Inv, Honest, SatisfiesAll
      <3> QED
        BY <2>2, <3>1, <3>2, <3>3, <3>4, EquisatisfiableIsFixed DEF Inv, Answered
    <2> QED
      BY <1>2, <2>1, <2>2 DEF Route
  <1>3. CASE Dpll
    <2>1. result = "none" /\ faulted' \in BOOLEAN
      BY <1>1, <1>3 DEF Dpll, Inv, UnansweredUntilDone
    <2>2. PICK answer \in {"sat", "unsat", "unsupported"} :
            /\ Conclude(answer)
            /\ answer = "sat" => SatisfiableCnf(base)
            /\ answer = "unsat" => ~SatisfiableCnf(base)
            /\ answer = "unsupported" => faulted'
      BY <1>3 DEF Dpll
    <2> QED
      BY <2>1, <2>2, ConcludeFacts DEF Answered
  <1>4. CASE AnswerUnsat
    <2>1. ~SatisfiableCnf(base) /\ Conclude("unsat") /\ UNCHANGED faulted
      BY <1>4, UnsatIsTrue DEF AnswerUnsat
    <2>2. result = "none"
      BY <1>4 DEF AnswerUnsat, Asking, SatStages, Inv, UnansweredUntilDone
    <2> QED
      BY <1>1, <2>1, <2>2, ConcludeFacts DEF Answered
  <1>5. CASE AnswerModel
    BY <1>5, AnswerModelStep
  <1>6. CASE AnswerFails \/ RoundLimit \/ LemmaRefused
    BY <1>6, HandOverFacts DEF AnswerFails, RoundLimit, LemmaRefused, Answered
  <1>7. CASE Incomplete
    <2>1. faulted
      BY <1>7 DEF Incomplete, Judging, Inv, Honest, SatisfiesAll
    <2> QED
      BY <1>1, <1>7, <2>1, HandOverFacts DEF Incomplete, Answered
  <1>8. CASE AcceptModel
    <2>1. SatisfiableCnf(base) /\ Conclude("sat") /\ UNCHANGED faulted
      BY <1>8, SatIsTrue DEF AcceptModel
    <2>2. result = "none"
      BY <1>8 DEF AcceptModel, Judging, SatStages, Inv, UnansweredUntilDone
    <2> QED
      BY <1>1, <2>1, <2>2, ConcludeFacts DEF Answered
  <1>9. CASE RejectModel
    <2>1. \/ EnterVarisat \/ EnterDynamic \/ RefineOr(base) \/ RefineOr(completed)
      BY <1>9 DEF RejectModel
    <2> QED
      BY <1>1, <1>9, <2>1, EnteringFacts DEF RejectModel, Answered
  <1>10. CASE Learn
    BY <1>10, LearnStep
  <1>11. CASE Repeated
    <2>1. faulted
      BY <1>11, HonestConflictsAreNovel DEF Repeated, Judging
    <2> QED
      BY <1>1, <1>11, <2>1, HandOverFacts DEF Repeated, Answered
  <1>12. CASE UNCHANGED vars
    <2>1. UNCHANGED <<config, base, completed, stage, formula, clauses, candidate,
                      learned, round, result, faulted>>
      BY <1>12 DEF vars
    <2>2. TypeOK' /\ UnansweredUntilDone' /\ LearnedAreLoaded' /\ Honest'
      BY <2>1 DEF Inv, TypeOK, UnansweredUntilDone, LearnedAreLoaded, Honest, SatisfiesAll
    <2> QED
      BY <2>1, <2>2, EquisatisfiableIsFixed DEF Inv, Answered, problem
  <1> QED
    BY <1>2, <1>3, <1>4, <1>5, <1>6, <1>7, <1>8, <1>9, <1>10, <1>11, <1>12 DEF Next, Done

-----------------------------------------------------------------------------
(* The invariant holds in every reachable state of the portfolio.          *)
THEOREM SpecInv == Spec => []Inv
  BY InitInv, NextInv, PTL DEF Spec

(* Every variable keeps its type.                                          *)
THEOREM TypeCorrect == Spec => []TypeOK
  <1>1. Inv => TypeOK
    BY DEF Inv
  <1> QED
    BY <1>1, SpecInv, PTL

(* A call that ends with unsupported has met a fault of a backend or a     *)
(* limit: with honest backends the loops never report an incomplete model  *)
(* or a repeated conflict.                                                 *)
THEOREM GivesUpOnlyAfterFault == Spec => []UnsupportedNeedsFault
  <1>1. Inv => UnsupportedNeedsFault
    BY DEF Inv, Honest, UnsupportedNeedsFault
  <1> QED
    BY <1>1, SpecInv, PTL

-----------------------------------------------------------------------------
(* The lemmas that a loop does not start with.                             *)
Eager == IF stage = "varisat" /\ ~config.eagerOff THEN Congruence ELSE {}

Own == clauses \ (Transitivity \cup Eager)

(* Only the loops count rounds, and what they start with stays loaded.     *)
RoundInv ==
    /\ stage \in {"refine", "varisat"} => Transitivity \cup Eager \subseteq clauses
    /\ stage \notin {"refine", "varisat", "done"} => round = 1
    /\ ~faulted => round <= 1 + Cardinality(Own)

(* There are finitely many lemmas, so they can be counted.                 *)
LEMMA OwnLemmas ==
    /\ TypeOK => IsFiniteSet(Own) /\ Cardinality(Own) \in Nat
    /\ TypeOK' => IsFiniteSet(Own') /\ Cardinality(Own') \in Nat
  <1>1. \A S \in SUBSET Lemma : IsFiniteSet(S) /\ Cardinality(S) \in Nat
    BY FS_Subset, FS_CardinalityType, PortfolioAssumption
  <1>2. TypeOK => Own \in SUBSET Lemma
    BY DEF TypeOK, Own
  <1>3. TypeOK' => Own' \in SUBSET Lemma
    BY DEF TypeOK, Own
  <1> QED
    BY <1>1, <1>2, <1>3

(* A stage starts at round 1.                                              *)
LEMMA EnterRounds ==
    ASSUME Inv', \/ EnterCadicalOnce \/ EnterKissat \/ EnterDynamic \/ EnterVarisat
                 \/ RefineOr(base) \/ RefineOr(completed) \/ EnterRefine(base)
    PROVE  RoundInv'
  <1>1. Cardinality(Own') \in Nat
    BY OwnLemmas DEF Inv
  <1>2. round' = 1 /\ UNCHANGED config
    BY DEF EnterCadicalOnce, EnterKissat, EnterDynamic, EnterVarisat, RefineOr, EnterRefine,
           Enter, problem
  <1>3. stage' \in {"refine", "varisat"} =>
            /\ EnterVarisat \/ EnterRefine(base) \/ EnterRefine(completed)
            /\ Transitivity \subseteq clauses'
    BY DEF EnterCadicalOnce, EnterKissat, EnterDynamic, EnterVarisat, RefineOr, EnterRefine,
           Enter
  <1>4. stage' = "varisat" => clauses' = Transitivity
                                  \cup (IF config.eagerOff THEN {} ELSE Congruence)
    BY <1>3 DEF EnterVarisat, EnterRefine, Enter
  <1> QED
    BY <1>1, <1>2, <1>3, <1>4 DEF RoundInv, Eager

(* An answer leaves the round and the lemmas as they are.                  *)
LEMMA ConcludeRounds ==
    ASSUME Inv, RoundInv, NEW answer, Conclude(answer), Inv', faulted => faulted',
           stage \in SatStages \cup {"dpll"}
    PROVE  RoundInv'
  <1>1. stage' = "done" /\ UNCHANGED <<clauses, round, config>>
    BY DEF Conclude, problem
  <1>2. Own \in SUBSET Own'
    BY <1>1 DEF Own, Eager
  <1>3. /\ IsFiniteSet(Own') /\ Cardinality(Own') \in Nat /\ Cardinality(Own) \in Nat
        /\ round \in Nat
    <2>1. TypeOK /\ TypeOK'
      BY DEF Inv
    <2> QED
      BY <2>1, OwnLemmas DEF TypeOK
  <1>4. Cardinality(Own) <= Cardinality(Own')
    BY <1>2, <1>3, FS_Subset
  <1> QED
    BY <1>1, <1>3, <1>4 DEF RoundInv

(* The next stage, or giving up.                                           *)
LEMMA HandOverRounds ==
    ASSUME Inv, RoundInv, HandOver, Inv', faulted => faulted'
    PROVE  RoundInv'
  BY EnterRounds, ConcludeRounds DEF HandOver, SatStages

(* With a backend that keeps to its lemmas, a round of a loop loads one    *)
(* that is new: a conflict is false under the candidate, the lemmas loaded *)
(* are not.                                                                *)
LEMMA LearnRounds ==
    ASSUME Inv, RoundInv, Learn, Inv'
    PROVE  RoundInv'
  <1>1. /\ UNCHANGED <<config, stage, faulted>>
        /\ round' = round + 1
        /\ stage \in {"refine", "varisat"}
        /\ candidate # NoCandidate
    BY DEF Learn, problem, Judging
  <1>2. PICK conflicts \in ConflictsOf(candidate) :
            /\ (conflicts \ learned) \cup MissingCongruence # {}
            /\ clauses' = clauses \cup (conflicts \ learned) \cup MissingCongruence
    BY DEF Learn
  <1>3. Transitivity \cup Eager \subseteq clauses /\ UNCHANGED Eager
    BY <1>1 DEF RoundInv, Eager
  <1>4. /\ IsFiniteSet(Own') /\ Cardinality(Own') \in Nat /\ Cardinality(Own) \in Nat
        /\ round \in Nat
    <2>1. TypeOK /\ TypeOK'
      BY DEF Inv
    <2> QED
      BY <2>1, OwnLemmas DEF TypeOK
  <1>5. ASSUME ~faulted PROVE Cardinality(Own) < Cardinality(Own')
    <2>1. SatisfiesAll(candidate)
      BY <1>1, <1>5 DEF Inv, Honest
    <2>2. \A l \in conflicts : candidate \in Excludes[l]
      BY <1>2 DEF ConflictsOf
    <2>3. \A l \in MissingCongruence : l \notin clauses
      BY DEF MissingCongruence
    <2>4. PICK l \in (conflicts \ learned) \cup MissingCongruence : l \notin clauses
      BY <1>2, <2>1, <2>2, <2>3 DEF SatisfiesAll
    <2>5. Own' = clauses' \ (Transitivity \cup Eager)
      BY <1>3 DEF Own
    <2>6. Own \in SUBSET Own' /\ l \in Own' /\ l \notin Own
      BY <1>2, <1>3, <2>4, <2>5 DEF Own
    <2> QED
      BY <1>4, <2>6, FS_Subset
  <1> QED
    BY <1>1, <1>2, <1>3, <1>4, <1>5 DEF RoundInv

(* Every step of the portfolio keeps the count.                            *)
LEMMA RoundNext == Inv /\ RoundInv /\ [Next]_vars => RoundInv'
  <1> SUFFICES ASSUME Inv, RoundInv, [Next]_vars PROVE RoundInv'
    OBVIOUS
  <1>1. Inv'
    BY NextInv
  <1>2. CASE Route
    <2>1. CASE stage' = "dpll" /\ UNCHANGED <<problem, clauses, round, faulted>>
      BY <1>2, <2>1 DEF Route, RoundInv, Own, Eager, problem
    <2> QED
      BY <1>1, <1>2, <2>1, EnterRounds DEF Route
  <1>3. CASE Dpll
    BY <1>1, <1>3, ConcludeRounds DEF Dpll
  <1>4. CASE AnswerUnsat
    BY <1>1, <1>4, ConcludeRounds DEF AnswerUnsat, Asking
  <1>5. CASE AnswerModel
    <2>1. UNCHANGED <<config, stage, clauses, round>> /\ (faulted => faulted')
      BY <1>5 DEF AnswerModel, problem, solver
    <2>2. UNCHANGED <<Eager, Own>>
      BY <2>1 DEF Eager, Own
    <2> QED
      BY <2>1, <2>2 DEF RoundInv
  <1>6. CASE AnswerFails \/ RoundLimit \/ LemmaRefused \/ Incomplete \/ Repeated
    BY <1>1, <1>6, HandOverRounds
    DEF AnswerFails, RoundLimit, LemmaRefused, Incomplete, Repeated
  <1>7. CASE AcceptModel
    <2>1. stage \in SatStages
      BY <1>7 DEF AcceptModel, Judging, Inv, UnansweredUntilDone
    <2> QED
      BY <1>1, <1>7, <2>1, ConcludeRounds DEF AcceptModel
  <1>8. CASE RejectModel
    BY <1>1, <1>8, EnterRounds DEF RejectModel
  <1>9. CASE Learn
    BY <1>1, <1>9, LearnRounds
  <1>10. CASE UNCHANGED vars
    BY <1>10 DEF vars, RoundInv, Own, Eager
  <1> QED
    BY <1>2, <1>3, <1>4, <1>5, <1>6, <1>7, <1>8, <1>9, <1>10 DEF Next, Done

(* With honest backends a loop makes at most one round more than there are *)
(* lemmas, whatever its limit.                                             *)
THEOREM RoundsAlwaysProductive == Spec => []RoundsAreProductive
  <1>1. Init => Inv /\ RoundInv
    <2> SUFFICES ASSUME Init PROVE Inv /\ RoundInv
      OBVIOUS
    <2>1. Inv
      BY InitInv
    <2>2. Cardinality(Own) \in Nat
      BY <2>1, OwnLemmas DEF Inv
    <2> QED
      BY <2>1, <2>2 DEF Init, RoundInv
  <1>2. Inv /\ RoundInv => RoundsAreProductive
    BY DEF RoundInv, RoundsAreProductive, Own, Eager
  <1> QED
    BY <1>1, <1>2, RoundNext, SpecInv, PTL DEF Spec

(* The portfolio's answers are the truth, given once.                      *)
THEOREM PortfolioDecides == Spec => ImplementsDecision
  <1>1. Init => D!Unanswered
    BY DEF Init, D!Unanswered, SatisfiableCnf
  <1>2. Inv /\ [Next]_vars => [D!Answer]_<<SatisfiableCnf(base), result>>
    <2> SUFFICES ASSUME Inv, [Next]_vars
                 PROVE  \/ D!Answer
                        \/ UNCHANGED <<SatisfiableCnf(base), result>>
      BY Zenon
    <2>1. Answered
      BY NextInv
    <2>2. UNCHANGED SatisfiableCnf(base)
      BY <2>1 DEF Answered, SatisfiableCnf
    <2> QED
      BY <2>1, <2>2 DEF Answered, D!Answer, D!Truth
  <1> QED
    BY <1>1, <1>2, SpecInv, PTL DEF Spec, ImplementsDecision, D!DecisionSpec
=============================================================================
