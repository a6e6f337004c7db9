---------------------------- MODULE SatPortfolio ----------------------------
(***************************************************************************)
(* solve_bool_problem: the sequence of SAT backends one problem is given   *)
(* to, with the refinement loops of CaDiCaL and Varisat.                   *)
(*                                                                         *)
(* Each backend gets a CNF and some theory lemmas, and answers that they   *)
(* are unsatisfiable, or with a model.  A backend may leave variables      *)
(* open; the code completes them with false, so the candidate it judges    *)
(* may satisfy neither the CNF nor the lemmas.  complete_cnf_assignment    *)
(* tests the CNF, theory_conflict_clauses tests the theory, and a stage    *)
(* that cannot use a candidate hands over to the next.                     *)
(*                                                                         *)
(* A CNF is the set of the assignments that satisfy it, a lemma is known   *)
(* by the assignments it excludes.  ExplainingTheory is the call that      *)
(* turns an inconsistent assignment into lemmas.                           *)
(***************************************************************************)
EXTENDS Integers, FiniteSets

CONSTANTS
    Assignment,      \* total assignments of the CNF variables
    Consistent,      \* those that are models of the theory
    Lemma,           \* theory lemmas over the atoms
    Excludes,        \* Excludes[l]: the assignments that falsify lemma l
    Transitivity,    \* equality_transitivity_clauses
    Congruence,      \* congruence_axiom_clauses
    GroupOf,         \* congruence_clause_group; one without a group is alone
    RefineRounds,    \* the round limit of solve_cadical_euf_refining
    VarisatRounds    \* the round limit of solve_varisat_euf

ASSUME PortfolioAssumption ==
    /\ Consistent \subseteq Assignment
    /\ Excludes \in [Lemma -> SUBSET (Assignment \ Consistent)]
    /\ Transitivity \subseteq Lemma
    /\ Congruence \subseteq Lemma
    /\ IsFiniteSet(Lemma)
    /\ RefineRounds \in Nat
    /\ VarisatRounds \in Nat

(* The settings read from the environment and from the shape of the        *)
(* problem.  EUF_VIPER_EAGER_CONGRUENCE=0 also turns off the eager axioms  *)
(* of the first pass; the dynamic Ackermann pass needs the Current mode.   *)
(* A setting that the backend does not read is left FALSE.                 *)
Backend == {"auto", "kissat", "cadical", "cadical-refine", "varisat", "dpll"}

Config ==
    {c \in [backend : Backend, autoCadical : BOOLEAN, eagerFirst : BOOLEAN,
            eagerOff : BOOLEAN, dynamic : BOOLEAN, refineFallback : BOOLEAN,
            mode : {"Current", "ModelCuts"}] :
        /\ c.eagerOff => ~c.eagerFirst
        /\ c.autoCadical => c.backend = "auto"
        /\ c.eagerFirst => c.backend \in {"auto", "kissat", "cadical"}
        /\ c.dynamic \/ c.refineFallback =>
               c.backend \in {"auto", "kissat"} /\ ~c.autoCadical
        /\ c.dynamic => c.mode = "Current"
        /\ c.mode = "ModelCuts" => c.refineFallback \/ c.backend = "cadical-refine"}

NoCandidate == "no candidate"

ASSUME CandidateAssumption == NoCandidate \notin Assignment

VARIABLES
    config,
    base,        \* the CNF of the problem, with its finite domain axioms
    completed,   \* the CNF with full Ackermann completion
    stage,
    formula,     \* the CNF the stage's solver was loaded with
    clauses,     \* the lemmas in the stage's solver
    candidate,   \* the completed model waiting to be judged
    learned,     \* conflict clauses the loop has added
    round,
    result,
    faulted      \* history: a backend failed, gave a model that is not one,
                 \* or a loop reached its limit

vars == <<config, base, completed, stage, formula, clauses, candidate, learned,
          round, result, faulted>>

problem == <<config, base, completed>>
solver == <<stage, formula, clauses, learned>>

SatisfiableCnf(cnf) == cnf \cap Consistent # {}

Init ==
    /\ config \in Config
    /\ base \in SUBSET Assignment
    /\ completed \in SUBSET Assignment
    /\ SatisfiableCnf(completed) <=> SatisfiableCnf(base)
    /\ ~config.dynamic => completed = base
    /\ stage = "route"
    /\ formula = base
    /\ clauses = {}
    /\ candidate = NoCandidate
    /\ learned = {}
    /\ round = 1
    /\ result = "none"
    /\ faulted = FALSE

-----------------------------------------------------------------------------
(* A stage starts with a solver of its own, loaded with a CNF and lemmas.  *)
Enter(next, cnf, lemmas) ==
    /\ stage' = next
    /\ formula' = cnf
    /\ clauses' = Transitivity \cup lemmas
    /\ candidate' = NoCandidate
    /\ learned' = {}
    /\ round' = 1
    /\ UNCHANGED <<problem, result>>

FirstPassLemmas == IF config.eagerFirst THEN Congruence ELSE {}

(* Definitions marked Faulty are not part of the specification: each is a  *)
(* slip that the property named with it in PROJECT.json must notice.       *)

EnterCadicalOnce == Enter("cadical-once", base, FirstPassLemmas)
EnterKissat == Enter("kissat", base, FirstPassLemmas)
EnterDynamic == Enter("dynamic", completed, {})
EnterRefine(cnf) == Enter("refine", cnf, {})
EnterVarisat == Enter("varisat", base, IF config.eagerOff THEN {} ELSE Congruence)

(* An answer ends the call.                                                *)
Conclude(answer) ==
    /\ stage' = "done"
    /\ result' = answer
    /\ candidate' = NoCandidate
    /\ UNCHANGED <<problem, formula, clauses, learned, round>>

Route ==
    /\ stage = "route"
    /\ \/ config.backend = "auto" /\ config.autoCadical /\ EnterCadicalOnce
       \/ config.backend = "auto" /\ ~config.autoCadical /\ EnterKissat
       \/ config.backend = "kissat" /\ EnterKissat
       \/ config.backend = "cadical" /\ EnterCadicalOnce
       \/ config.backend = "cadical-refine" /\ EnterRefine(base)
       \/ config.backend = "varisat" /\ EnterVarisat
       \/ /\ config.backend = "dpll"
          /\ stage' = "dpll"
          /\ UNCHANGED <<problem, formula, clauses, candidate, learned, round, result>>
    /\ UNCHANGED faulted

(* Where the call goes on when a stage has no answer.                      *)
RefineOr(cnf) == IF config.refineFallback THEN EnterRefine(cnf) ELSE EnterVarisat

HandOver ==
    \/ stage \in {"cadical-once", "kissat", "refine"} /\ EnterVarisat
    \/ stage = "dynamic" /\ RefineOr(base)
    \/ stage = "varisat" /\ Conclude("unsupported")

-----------------------------------------------------------------------------
(* The answers of a backend.                                               *)
SatStages == {"cadical-once", "kissat", "dynamic", "refine", "varisat"}

Rounds == CASE stage = "refine" -> RefineRounds
            [] stage = "varisat" -> VarisatRounds
            [] OTHER -> 1

Asking == stage \in SatStages /\ candidate = NoCandidate /\ round <= Rounds

SatisfiesAll(a) == a \in formula /\ \A l \in clauses : a \notin Excludes[l]

AnswerUnsat ==
    /\ Asking
    /\ ~\E a \in Assignment : SatisfiesAll(a)
    /\ Conclude("unsat")
    /\ UNCHANGED faulted

AnswerModel ==
    /\ Asking
    /\ \E a \in Assignment : SatisfiesAll(a)
    /\ candidate' \in Assignment
    /\ faulted' = (faulted \/ ~SatisfiesAll(candidate'))
    /\ UNCHANGED <<problem, solver, round, result>>

(* An error, an interruption or a conflict limit.  Kissat runs without a   *)
(* limit and its binding has no third answer.                              *)
AnswerFails ==
    /\ Asking /\ stage \in {"cadical-once", "refine", "varisat"}
    /\ HandOver
    /\ faulted' = TRUE

RoundLimit ==
    /\ stage \in {"refine", "varisat"} /\ candidate = NoCandidate /\ round > Rounds
    /\ HandOver
    /\ faulted' = TRUE

-----------------------------------------------------------------------------
(* What becomes of a candidate.                                            *)
Judging == candidate # NoCandidate

(* complete_cnf_assignment refuses it.                                     *)
Incomplete ==
    /\ Judging /\ candidate \notin formula
    /\ HandOver
    /\ UNCHANGED faulted

(* theory_conflict_clauses: some lemmas that the candidate falsifies, none *)
(* iff it is consistent.                                                   *)
ConflictsOf(a) ==
    IF a \in Consistent THEN {{}}
    ELSE (SUBSET {l \in Lemma : a \in Excludes[l]}) \ {{}}

(* Congruence lemmas the candidate falsifies that are not in the solver,   *)
(* with all the lemmas of their groups.                                    *)
MissingCongruence ==
    IF stage = "refine" /\ config.mode = "Current"
    THEN LET missing == Congruence \ clauses
             groups == {GroupOf[l] : l \in {m \in missing : candidate \in Excludes[m]}}
         IN  {l \in missing : GroupOf[l] \in groups}
    ELSE {}

(* Faulty: what complete_cnf_assignment returns is not looked at.          *)
AcceptAnyModel ==
    /\ Judging
    /\ {} \in ConflictsOf(candidate)
    /\ MissingCongruence = {}
    /\ Conclude("sat")
    /\ UNCHANGED faulted

AcceptModel ==
    /\ Judging /\ candidate \in formula
    /\ {} \in ConflictsOf(candidate)
    /\ MissingCongruence = {}
    /\ Conclude("sat")
    /\ UNCHANGED faulted

(* Faulty: a rejected model of the first pass ends the call.               *)
RejectModelForGood ==
    /\ Judging /\ candidate \in formula
    /\ {} \notin ConflictsOf(candidate)
    /\ stage \in {"cadical-once", "kissat", "dynamic"}
    /\ Conclude("unsupported")
    /\ UNCHANGED faulted

(* Faulty: a rejected model sends the call to the same backend again.      *)
RejectModelAndRetry ==
    /\ Judging /\ candidate \in formula
    /\ {} \notin ConflictsOf(candidate)
    /\ \/ stage = "cadical-once" /\ EnterCadicalOnce
       \/ stage = "kissat" /\ EnterKissat
       \/ stage = "dynamic" /\ RefineOr(completed)
    /\ UNCHANGED faulted

(* The one-shot stages have no loop to put a conflict into.                *)
RejectModel ==
    /\ Judging /\ candidate \in formula
    /\ {} \notin ConflictsOf(candidate)
    /\ \/ stage = "cadical-once" /\ EnterVarisat
       \/ stage = "kissat" /\ config.dynamic /\ EnterDynamic
       \/ stage = "kissat" /\ ~config.dynamic /\ RefineOr(base)
       \/ stage = "dynamic" /\ RefineOr(completed)
    /\ UNCHANGED faulted

(* Faulty: the conflicts are remembered, but not added to the solver.      *)
LearnUnloaded ==
    /\ Judging /\ candidate \in formula
    /\ stage \in {"refine", "varisat"}
    /\ \E conflicts \in ConflictsOf(candidate) :
        /\ (conflicts \ learned) \cup MissingCongruence # {}
        /\ learned' = learned \cup conflicts
        /\ clauses' = clauses \cup MissingCongruence
    /\ round' = round + 1
    /\ candidate' = NoCandidate
    /\ UNCHANGED <<problem, stage, formula, result, faulted>>

(* The loops add the missing congruence lemmas and the conflicts that are  *)
(* not among the learned ones, and ask again.                              *)
Learn ==
    /\ Judging /\ candidate \in formula
    /\ stage \in {"refine", "varisat"}
    /\ \E conflicts \in ConflictsOf(candidate) :
        LET novel == conflicts \ learned
            missing == MissingCongruence
        IN  /\ novel \cup missing # {}
            /\ learned' = learned \cup novel
            /\ clauses' = clauses \cup novel \cup missing
    /\ round' = round + 1
    /\ candidate' = NoCandidate
    /\ UNCHANGED <<problem, stage, formula, result, faulted>>

(* A conflict, and nothing of it is new: the loop gives up.                *)
Repeated ==
    /\ Judging /\ candidate \in formula
    /\ stage \in {"refine", "varisat"}
    /\ \E conflicts \in ConflictsOf(candidate) :
        conflicts # {} /\ conflicts \subseteq learned
    /\ MissingCongruence = {}
    /\ HandOver
    /\ UNCHANGED faulted

(* CaDiCaL refuses a lemma: solve_cadical_euf_refining returns None.       *)
LemmaRefused ==
    /\ Judging /\ candidate \in formula /\ stage = "refine"
    /\ {} \notin ConflictsOf(candidate) \/ MissingCongruence # {}
    /\ HandOver
    /\ faulted' = TRUE

(* The fallback for a backend of another name: the DPLL(T) search decides  *)
(* or stops at its node limit.                                             *)
Dpll ==
    /\ stage = "dpll"
    /\ \/ /\ Conclude(IF SatisfiableCnf(base) THEN "sat" ELSE "unsat")
          /\ UNCHANGED faulted
       \/ Conclude("unsupported") /\ faulted' = TRUE

Done == stage = "done" /\ UNCHANGED vars

Next ==
    \/ Route \/ Dpll
    \/ AnswerUnsat \/ AnswerModel \/ AnswerFails \/ RoundLimit
    \/ Incomplete \/ AcceptModel \/ RejectModel
    \/ Learn \/ Repeated \/ LemmaRefused
    \/ Done

(* One thread runs the stages, and every backend call returns.             *)
Spec == Init /\ [][Next]_vars /\ WF_vars(Next)

-----------------------------------------------------------------------------
TypeOK ==
    /\ config \in Config
    /\ base \subseteq Assignment /\ completed \subseteq Assignment
    /\ stage \in SatStages \cup {"route", "dpll", "done"}
    /\ formula \in {base, completed}
    /\ clauses \subseteq Lemma
    /\ candidate \in Assignment \cup {NoCandidate}
    /\ learned \subseteq Lemma
    /\ round \in Nat
    /\ result \in {"none", "sat", "unsat", "unsupported"}
    /\ faulted \in BOOLEAN

(* Whatever path the call takes through the stages, whichever lemmas each  *)
(* solver holds and whatever models the backends invent, sat and unsat are *)
(* the truth and the answer is given once.                                 *)
D == INSTANCE Decision WITH satisfiable <- SatisfiableCnf(base)

ImplementsDecision == D!DecisionSpec

(* The call gives up only for a reason: with backends whose models satisfy *)
(* what they were given, and limits not reached, every candidate yields a  *)
(* lemma that is not there yet, so the messages "returned an incomplete    *)
(* model" and "repeated an existing EUF conflict clause" are unreachable.  *)
UnsupportedNeedsFault == result = "unsupported" => faulted

(* A conflict is false under the candidate it came from, so with backends  *)
(* that keep to their lemmas every round of a loop puts a new lemma into   *)
(* the solver, and there are at most as many rounds as lemmas.             *)
RoundsAreProductive ==
    LET loaded == IF stage = "varisat" /\ ~config.eagerOff THEN Congruence ELSE {}
    IN  ~faulted => round <= 1 + Cardinality(clauses \ (Transitivity \cup loaded))

(* Every call is answered.                                                 *)
Answers == <>(result # "none")
=============================================================================
