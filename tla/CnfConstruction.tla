-------------------------- MODULE CnfConstruction --------------------------
(***************************************************************************)
(* From the assertions of a problem to the clauses the first SAT backend   *)
(* is loaded with: solve_bool_problem up to the choice of the backend, and *)
(* solve_dynamic_full_ackermann, which builds its own CNF from the same    *)
(* assertions and facts.  The finite domain axioms are in a module of      *)
(* their own.                                                              *)
(*                                                                         *)
(* Definitions marked Faulty are not part of the specification: each is a  *)
(* slip that the property named with it in PROJECT.json must notice.       *)
(***************************************************************************)
EXTENDS CnfEncoding, EagerLemmas, SparseFill

CONSTANT Problems    \* [assertions, dataTerms, facts], see ProblemsAssumption

(* What the structures say of the atoms: the models of the theory.         *)
TheoryModels ==
    {[atom \in Atoms |-> AtomHolds(V, atom)] : V \in StructuresOver(Term, {})}

(* The facts are equalities that the equality abstraction has derived.     *)
ASSUME ProblemsAssumption ==
    \A problem \in Problems :
        \A truth \in TheoryModels :
            (\A i \in DOMAIN problem.assertions : Value(truth, problem.assertions[i]))
              => \A i \in DOMAIN problem.facts : truth[problem.facts[i]]

(* EUF_VIPER_FULL_ACKERMANN, EUF_VIPER_CHORDAL_TRANSITIVITY and            *)
(* EUF_VIPER_EAGER_CONGRUENCE; "dynamic" is the second CNF, which is       *)
(* always completed and never has a Tseitin root.                          *)
Config ==
    {c \in [root : {"tseitin", "direct", "negated"},
            completion : {"none", "chordal", "full", "dynamic"},
            eager : BOOLEAN, mode : {"auto", "canonical"}] :
        /\ c.completion = "dynamic" => c.root # "tseitin"
        /\ c.completion \in {"full", "dynamic"} => ~c.eager
        /\ c.mode = "canonical" => c.eager}

VARIABLES
    problem,
    config,
    pc,
    todo,            \* the assertions to come
    cnf,
    transitivity,    \* the lemmas that the backend is given with the CNF
    congruence

vars == <<problem, config, pc, todo, cnf, transitivity, congruence, fillVars>>
input == <<problem, config>>

Init ==
    /\ problem \in Problems
    /\ config \in Config
    /\ pc = "atomize"
    /\ todo = problem.assertions
    /\ cnf = EmptyProblem
    /\ transitivity = {} /\ congruence = {}
    /\ NoFill(Term)

Running(step) == pc = step /\ ~cnf.aborted

AtomizeData ==
    /\ Running("atomize")
    /\ cnf' = AtomizeBoolData(cnf, problem.dataTerms)
    /\ pc' = "encode"
    /\ UNCHANGED <<input, todo, transitivity, congruence, fillVars>>

(* One assertion after the other.                                          *)
AddNextAssertion ==
    /\ Running("encode") /\ todo # <<>>
    /\ cnf' = AddRoot(cnf, todo[1], config.root)
    /\ todo' = Tail(todo)
    /\ UNCHANGED <<input, pc, transitivity, congruence, fillVars>>

(* The accepted facts of the equality abstraction are unit clauses.        *)
AddFacts ==
    /\ Running("encode") /\ todo = <<>>
    /\ cnf' = FoldLeft(LAMBDA p, fact : AddUnit(AtomLit(p, fact), 1), cnf, problem.facts)
    /\ pc' = "complete"
    /\ UNCHANGED <<input, todo, transitivity, congruence, fillVars>>

(* Faulty: the fill is made from the graph as it was before the expansion. *)
CompleteStaleGraph ==
    /\ Running("complete")
    /\ IF config.completion \in {"full", "dynamic"}
       THEN cnf' = FullAckermann(cnf) ELSE UNCHANGED cnf
    /\ IF config.completion = "none"
       THEN pc' = "lemmas" /\ UNCHANGED fillVars
       ELSE pc' = "fill" /\ Load(Term, EqEdges(cnf))
    /\ UNCHANGED <<input, todo, transitivity, congruence>>

(* add_full_ackermann_completion, or the fill alone.                       *)
Complete ==
    /\ Running("complete")
    /\ IF config.completion \in {"full", "dynamic"}
       THEN cnf' = FullAckermann(cnf) ELSE UNCHANGED cnf
    /\ IF config.completion = "none"
       THEN pc' = "lemmas" /\ UNCHANGED fillVars
       ELSE pc' = "fill" /\ Load(Term, EqEdges(cnf'))
    /\ UNCHANGED <<input, todo, transitivity, congruence>>

Fill ==
    /\ Running("fill")
    /\ FillStep
    /\ UNCHANGED <<input, pc, todo, cnf, transitivity, congruence>>

EdgeAtom(edge) ==
    LET least == CHOOSE s \in edge : \A t \in edge : s <= t
    IN  EqAtom(least, CHOOSE t \in edge : t # least)

(* The fill edges get atoms, in the order of the pairs, unless the limit   *)
(* was reached: then the CNF is as it was.                                 *)
EndFill ==
    /\ Running("fill")
    /\ \/ /\ filling = "refused"
          /\ UNCHANGED <<cnf, fillVars>>
       \/ /\ Finish
          /\ LET Earlier(a, b) == Before(<<a.left, a.right>>, <<b.left, b.right>>)
                 atoms == SetToSortSeq({EdgeAtom(edge) : edge \in fill}, Earlier)
             IN  cnf' = FoldLeft(LAMBDA p, atom : AtomLit(p, atom).p, cnf, atoms)
    /\ pc' = "lemmas"
    /\ UNCHANGED <<input, todo, transitivity, congruence>>

WriteLemmas ==
    /\ Running("lemmas")
    /\ transitivity' = TransitivityClauses(cnf)
    /\ congruence' = IF config.eager THEN CongruenceClauses(cnf, config.mode) ELSE {}
    /\ pc' = "done"
    /\ UNCHANGED <<input, todo, cnf, fillVars>>

Stopped == (pc = "done" \/ cnf.aborted) /\ UNCHANGED vars

Next ==
    \/ AtomizeData \/ AddNextAssertion \/ AddFacts
    \/ Complete \/ Fill \/ EndFill \/ WriteLemmas
    \/ Stopped

Spec == Init /\ [][Next]_vars

-----------------------------------------------------------------------------
AssertionsHold(truth) ==
    \A i \in DOMAIN problem.assertions : Value(truth, problem.assertions[i])

(* What the variables stand for, when the atoms have these truth values.   *)
Extension(truth) == [v \in 1..VarCount(cnf) |-> Value(truth, cnf.means[v])]

TypeOK ==
    /\ problem \in Problems /\ config \in Config
    /\ pc \in {"atomize", "encode", "complete", "fill", "lemmas", "done"}
    /\ Len(cnf.means) = VarCount(cnf)
    /\ cnf.trueLit \in 0..VarCount(cnf)
    /\ \A v, w \in 1..VarCount(cnf) :
           /\ cnf.atoms[v] = Normalized(cnf.atoms[v])
           /\ v # w => cnf.atoms[v] = NoAtom \/ cnf.atoms[v] # cnf.atoms[w]
    /\ active \subseteq Term
    /\ filling \in {"no", "yes", "done", "refused"}

(* The flat store holds what was pushed: its offsets rise to the number of *)
(* its literals, which u32 can hold, and each clause is read back between  *)
(* its own two offsets, whatever was pushed before and after it.  An atom  *)
(* has one variable.                                                       *)
StoreIsFaithful ==
    /\ Clauses(cnf.clauses) = cnf.added
    /\ cnf.clauses.endOffsets[ClauseCount(cnf.clauses) + 1] = Len(cnf.clauses.literals)

(* The edges of a fill that is given up get no variables.                  *)
RefusedFillIsForgotten ==
    filling = "refused" => \A edge \in fill : ~HasAtom(cnf, EdgeAtom(edge))

CnfIsWellFormed == TypeOK /\ StoreIsFaithful /\ RefusedFillIsForgotten

(* Nothing is lost: a model of the theory in which the assertions hold     *)
(* satisfies every clause and every lemma when each Tseitin variable has   *)
(* the value of the expression it stands for.  An "unsat" of the backend   *)
(* is then the truth.                                                      *)
NothingIsLost ==
    pc = "done" =>
        \A truth \in TheoryModels : AssertionsHold(truth) =>
            LET values == Extension(truth)
            IN  /\ SatisfiesClauses(values, cnf.added)
                /\ SatisfiesLemmas(values, transitivity)
                /\ SatisfiesLemmas(values, congruence)

(* Nothing is added: whatever satisfies the clauses satisfies the          *)
(* assertions, and gives every Tseitin variable the value of its           *)
(* expression, theory or not.  (An atom that got no variable, as the only  *)
(* child of an Iff, may have any value.)                                   *)
NothingIsAdded ==
    pc = "complete" /\ ~cnf.aborted =>
        \A values \in [1..VarCount(cnf) -> BOOLEAN] :
            SatisfiesClauses(values, cnf.added) =>
                LET truth == [atom \in UNION {AtomsOf(problem.assertions[i]) :
                                                  i \in DOMAIN problem.assertions}
                                       \cup {cnf.atoms[v] : v \in 1..VarCount(cnf)} |->
                                  HasAtom(cnf, atom) /\ values[VarOfAtom(cnf, atom)]]
                IN  /\ AssertionsHold(truth)
                    /\ values = Extension(truth)

(* A fill that ends within its limit makes the graph of the equality atoms *)
(* chordal: with the Ackermann clauses, the triangles leave only models of *)
(* the theory, so the first model of the backend is right.  (With Boolean  *)
(* terms as arguments the theory says more than the clauses.)              *)
CompletionDecides ==
    /\ pc = "done" /\ filling = "done" /\ problem.dataTerms = <<>>
    /\ config.completion \in {"full", "dynamic"}
    => LET atomVars == {v \in 1..VarCount(cnf) : cnf.atoms[v] # NoAtom}
           possible == {[v \in atomVars |-> truth[cnf.atoms[v]]] : truth \in TheoryModels}
       IN  \A values \in [1..VarCount(cnf) -> BOOLEAN] :
               /\ SatisfiesClauses(values, cnf.added)
               /\ SatisfiesLemmas(values, transitivity)
               => [v \in atomVars |-> values[v]] \in possible
=============================================================================
