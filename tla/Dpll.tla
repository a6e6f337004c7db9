-------------------------------- MODULE Dpll --------------------------------
(***************************************************************************)
(* DpllSolver: the DPLL(T) search, one step at a time.  The recursion of   *)
(* search is the stack of its callers; propagate alternates between unit   *)
(* propagation and the theory until neither has anything to say.           *)
(*                                                                         *)
(*   "start"      initial_units                                            *)
(*   "enter"      a call of search is made: the node is counted            *)
(*   "propagate"  units while a variable is pending, else the theory       *)
(*   "choose"     a variable to branch on, or the answer sat               *)
(*   "refuted"    the call returns Unsat to its caller                     *)
(*                                                                         *)
(* propagate_theory runs congruence_closure, the loop of module            *)
(* ExplainingTheory without its reasons.  Here the classes are what that   *)
(* loop computes (MergesAreEntailed, ClosureIsComplete): the consequences  *)
(* of the literals assigned so far.                                        *)
(*                                                                         *)
(* Definitions marked Faulty are not part of the specification: each is a  *)
(* slip that the property named with it in PROJECT.json must notice.       *)
(***************************************************************************)
EXTENDS Euf

CONSTANTS
    Atoms,         \* CnfProblem.var_atoms
    Cnfs,          \* the lists of clauses a solver may be made for
    NodeLimit      \* node_limit (1000000)

Clause == Seq(Literal)

ASSUME DpllAssumption ==
    /\ Atoms \in [Var -> Atom]
    /\ Cnfs \subseteq Seq(Clause)
    /\ NodeLimit \in Nat

VARIABLES
    pc,
    clauses,      \* CnfProblem.clauses
    assignment,   \* of the running call: 1, -1, or 0 for unassigned
    callers,      \* the calls that wait for it, and what they branched on
    pending,      \* variables whose clauses have not been looked at
    todo,         \* the clauses left of the variable popped last
    dirty,        \* theory_dirty
    nodes,
    result

vars == <<pc, clauses, assignment, callers, pending, todo, dirty, nodes, result>>

VarOf(l) == IF l > 0 THEN l ELSE -l

(* lit_status *)
Status(a, l) == IF l > 0 THEN a[l] ELSE -a[-l]

IsAtom(v) == Atoms[v].kind # "None"

Sat(a, clause) == \E k \in DOMAIN clause : Status(a, clause[k]) = 1

(* The positions of the open literals: one that occurs twice counts twice. *)
Open(a, clause) == {k \in DOMAIN clause : Status(a, clause[k]) = 0}

(* clauses_by_var *)
ClausesOf(v) == {i \in DOMAIN clauses : \E k \in DOMAIN clauses[i] : VarOf(clauses[i][k]) = v}

Init ==
    /\ pc = "start"
    /\ clauses \in Cnfs
    /\ assignment = [v \in Var |-> 0]
    /\ callers = <<>>
    /\ pending = {}
    /\ todo = {}
    /\ dirty = TRUE
    /\ nodes = 0
    /\ result = "none"

Conclude(answer) ==
    /\ pc' = "done"
    /\ result' = answer
    /\ UNCHANGED <<clauses, assignment, callers, pending, todo, dirty>>

-----------------------------------------------------------------------------
Units == {clauses[i][1] : i \in {j \in DOMAIN clauses : Len(clauses[j]) = 1}}

(* initial_units: an empty clause or two contrary units end the call.      *)
Begin ==
    /\ pc = "start"
    /\ \/ /\ \/ \E i \in DOMAIN clauses : clauses[i] = <<>>
             \/ \E l \in Units : -l \in Units
          /\ Conclude("unsat")
       \/ /\ \A i \in DOMAIN clauses : clauses[i] # <<>>
          /\ \A l \in Units : -l \notin Units
          /\ assignment' = [v \in Var |-> IF v \in Units THEN 1
                                          ELSE IF -v \in Units THEN -1 ELSE 0]
          /\ pending' = {VarOf(l) : l \in Units}
          /\ pc' = "enter"
          /\ UNCHANGED <<clauses, callers, todo, dirty, result>>
    /\ UNCHANGED nodes

(* Faulty: the limit refutes.                                              *)
EnterOrRefute ==
    /\ pc = "enter"
    /\ nodes' = nodes + 1
    /\ \/ nodes >= NodeLimit /\ Conclude("unsat")
       \/ /\ nodes < NodeLimit
          /\ pc' = "propagate"
          /\ UNCHANGED <<clauses, assignment, callers, pending, todo, dirty, result>>

(* A node too many: Limit is returned through all the callers.             *)
Enter ==
    /\ pc = "enter"
    /\ nodes' = nodes + 1
    /\ \/ nodes >= NodeLimit /\ Conclude("unsupported")
       \/ /\ nodes < NodeLimit
          /\ pc' = "propagate"
          /\ UNCHANGED <<clauses, assignment, callers, pending, todo, dirty, result>>

-----------------------------------------------------------------------------
PopPending ==
    /\ pc = "propagate" /\ todo = {}
    /\ \E v \in pending :
        /\ pending' = pending \ {v}
        /\ todo' = ClausesOf(v)
    /\ UNCHANGED <<pc, clauses, assignment, callers, dirty, nodes, result>>

Refuted ==
    /\ pc' = "refuted"
    /\ pending' = {} /\ todo' = {} /\ dirty' = FALSE
    /\ UNCHANGED <<clauses, assignment, callers, nodes, result>>

(* Faulty: a unit does not wake the theory.                                *)
LookWithoutTheory ==
    /\ pc = "propagate"
    /\ \E i \in todo :
        LET clause == clauses[i]
            open == Open(assignment, clause)
        IN  \/ /\ Sat(assignment, clause) \/ Cardinality(open) > 1
               /\ todo' = todo \ {i}
               /\ UNCHANGED <<pc, clauses, assignment, callers, pending, dirty, nodes, result>>
            \/ ~Sat(assignment, clause) /\ open = {} /\ Refuted
            \/ \E k \in open :
               /\ ~Sat(assignment, clause) /\ open = {k}
               /\ todo' = todo \ {i}
               /\ assignment' = [assignment EXCEPT
                      ![VarOf(clause[k])] = IF clause[k] > 0 THEN 1 ELSE -1]
               /\ pending' = pending \cup {VarOf(clause[k])}
               /\ UNCHANGED <<pc, clauses, callers, dirty, nodes, result>>

(* One clause of the popped variable: satisfied or still open, falsified,  *)
(* or unit.                                                                *)
LookAtClause ==
    /\ pc = "propagate"
    /\ \E i \in todo :
        LET clause == clauses[i]
            open == Open(assignment, clause)
        IN  \/ /\ Sat(assignment, clause) \/ Cardinality(open) > 1
               /\ todo' = todo \ {i}
               /\ UNCHANGED <<pc, clauses, assignment, callers, pending, dirty, nodes, result>>
            \/ ~Sat(assignment, clause) /\ open = {} /\ Refuted
            \/ \E k \in open :
               /\ ~Sat(assignment, clause) /\ open = {k}
               /\ todo' = todo \ {i}
               /\ assignment' = [assignment EXCEPT
                      ![VarOf(clause[k])] = IF clause[k] > 0 THEN 1 ELSE -1]
               /\ pending' = pending \cup {VarOf(clause[k])}
               /\ dirty' = (dirty \/ IsAtom(VarOf(clause[k])))
               /\ UNCHANGED <<pc, clauses, callers, nodes, result>>

-----------------------------------------------------------------------------
(* The equality that the value of v puts into the theory.                  *)
AssertedBy(a, v) ==
    IF Atoms[v].kind = "Eq" /\ a[v] = 1
    THEN {<<Atoms[v].left, Atoms[v].right>>}
    ELSE IF Atoms[v].kind = "BoolTerm" /\ a[v] # 0
    THEN {<<Atoms[v].left, IF a[v] = 1 THEN TrueTerm ELSE FalseTerm>>}
    ELSE {}

Models(a) ==
    {V \in Interpretations :
        \A v \in Var : \A pair \in AssertedBy(a, v) : V[pair[1]] = V[pair[2]]}

(* Two terms with one root after congruence_closure.                       *)
Equal(models, s, t) == \A V \in models : V[s] = V[t]

DeniedBy(a) == {v \in Var : Atoms[v].kind = "Eq" /\ a[v] = -1}

TheoryRefutes(a) ==
    LET models == Models(a)
    IN  \/ Equal(models, TrueTerm, FalseTerm)
        \/ \E v \in DeniedBy(a) : Equal(models, Atoms[v].left, Atoms[v].right)

(* The values the theory gives to the unassigned atoms: an equality holds  *)
(* if its terms have one root, it fails if their roots are those of an     *)
(* equality denied.                                                        *)
MustHold(a, models, v) ==
    \/ Atoms[v].kind = "Eq" /\ Equal(models, Atoms[v].left, Atoms[v].right)
    \/ Atoms[v].kind = "BoolTerm" /\ Equal(models, Atoms[v].left, TrueTerm)

MustFail(a, models, v) ==
    \/ /\ Atoms[v].kind = "Eq"
       /\ \E d \in DeniedBy(a) :
            \/ /\ Equal(models, Atoms[v].left, Atoms[d].left)
               /\ Equal(models, Atoms[v].right, Atoms[d].right)
            \/ /\ Equal(models, Atoms[v].left, Atoms[d].right)
               /\ Equal(models, Atoms[v].right, Atoms[d].left)
    \/ Atoms[v].kind = "BoolTerm" /\ Equal(models, Atoms[v].left, FalseTerm)

Implied(a) ==
    LET models == Models(a)
    IN  [v \in Var |-> IF a[v] # 0 THEN a[v]
                       ELSE IF MustHold(a, models, v) THEN 1
                       ELSE IF MustFail(a, models, v) THEN -1
                       ELSE 0]

Quiet == pc = "propagate" /\ pending = {} /\ todo = {}

TheoryFails ==
    /\ Quiet /\ dirty
    /\ TheoryRefutes(assignment)
    /\ Refuted

(* Faulty: the theory is asked again until it refutes.                     *)
TheoryPropagatesForever ==
    /\ Quiet /\ dirty
    /\ ~TheoryRefutes(assignment)
    /\ assignment' = Implied(assignment)
    /\ pending' = {v \in Var : assignment[v] # assignment'[v]}
    /\ UNCHANGED <<pc, clauses, callers, todo, dirty, nodes, result>>

TheoryPropagates ==
    /\ Quiet /\ dirty
    /\ ~TheoryRefutes(assignment)
    /\ assignment' = Implied(assignment)
    /\ pending' = {v \in Var : assignment[v] # assignment'[v]}
    /\ dirty' = FALSE
    /\ UNCHANGED <<pc, clauses, callers, todo, nodes, result>>

Settle ==
    /\ Quiet /\ ~dirty
    /\ pc' = "choose"
    /\ UNCHANGED <<clauses, assignment, callers, pending, todo, dirty, nodes, result>>

-----------------------------------------------------------------------------
(* choose_var: a variable of a clause that is not satisfied yet, and if    *)
(* there is none an atom.  Which one is a heuristic, left open here.       *)
OpenVars(clause) == {VarOf(clause[k]) : k \in Open(assignment, clause)}

Undecided ==
    UNION {OpenVars(clauses[i]) : i \in {j \in DOMAIN clauses : ~Sat(assignment, clauses[j])}}

Candidates ==
    IF Undecided # {} THEN Undecided
    ELSE {v \in Var : assignment[v] = 0 /\ IsAtom(v)}

(* A call for one value of the variable, in a copy of the assignment.      *)
Call(a, v, value) ==
    /\ assignment' = [a EXCEPT ![v] = value]
    /\ pending' = {v}
    /\ dirty' = IsAtom(v)
    /\ pc' = "enter"
    /\ UNCHANGED <<clauses, todo, nodes, result>>

Branch ==
    /\ pc = "choose"
    /\ \E v \in Candidates :
        /\ callers' = Append(callers, [assignment |-> assignment, var |-> v, value |-> 1])
        /\ Call(assignment, v, 1)

Leaf ==
    /\ pc = "choose"
    /\ Candidates = {}
    /\ Conclude("sat")
    /\ UNCHANGED nodes

(* Faulty: a caller passes Unsat on without trying its other value.        *)
BacktrackAtOnce ==
    /\ pc = "refuted"
    /\ \/ /\ callers = <<>>
          /\ Conclude("unsat")
          /\ UNCHANGED nodes
       \/ /\ callers # <<>>
          /\ assignment' = callers[Len(callers)].assignment
          /\ callers' = SubSeq(callers, 1, Len(callers) - 1)
          /\ UNCHANGED <<pc, clauses, pending, todo, dirty, nodes, result>>

(* Unsat goes to the caller: it tries the other value, or is refuted too.  *)
Backtrack ==
    /\ pc = "refuted"
    /\ \/ /\ callers = <<>>
          /\ Conclude("unsat")
          /\ UNCHANGED nodes
       \/ /\ callers # <<>> /\ callers[Len(callers)].value = 1
          /\ callers' = [callers EXCEPT ![Len(callers)].value = -1]
          /\ Call(callers[Len(callers)].assignment, callers[Len(callers)].var, -1)
       \/ /\ callers # <<>> /\ callers[Len(callers)].value = -1
          /\ assignment' = callers[Len(callers)].assignment
          /\ callers' = SubSeq(callers, 1, Len(callers) - 1)
          /\ UNCHANGED <<pc, clauses, pending, todo, dirty, nodes, result>>

Done == pc = "done" /\ UNCHANGED vars

Next ==
    \/ Begin \/ Enter
    \/ PopPending \/ LookAtClause
    \/ TheoryFails \/ TheoryPropagates \/ Settle
    \/ Branch \/ Leaf \/ Backtrack
    \/ Done

Spec == Init /\ [][Next]_vars /\ WF_vars(Next)

-----------------------------------------------------------------------------
Value == {-1, 0, 1}
Caller == [assignment : [Var -> Value], var : Var, value : {-1, 1}]

TypeOK ==
    /\ pc \in {"start", "enter", "propagate", "choose", "refuted", "done"}
    /\ clauses \in Cnfs
    /\ assignment \in [Var -> Value]
    /\ callers \in Seq(Caller)
    /\ pending \subseteq Var
    /\ todo \subseteq DOMAIN clauses
    /\ dirty \in BOOLEAN
    /\ nodes \in 0..(NodeLimit + 1)
    /\ result \in {"none", "sat", "unsat", "unsupported"}

(* The truth: the total assignments that satisfy the clauses and QF_UF.    *)
TheoryModels == {m : m \in {n \in [Var -> {-1, 1}] : Consistent(Atoms, n)}}

Solutions(cnf) == {m \in TheoryModels : \A i \in DOMAIN cnf : Sat(m, cnf[i])}

Agrees(m, decisions) == \A c \in decisions : m[c.var] = c.value

Above(k) == {callers[j] : j \in 1..(k - 1)}

(* Propagation adds consequences only: whatever the running call, or one   *)
(* of its callers, has assigned is so in all the solutions with the        *)
(* values branched on up to it.  A branch is left for the other value, or  *)
(* for the caller, only if it has no solution.                             *)
AssignedIsImplied ==
    \A m \in Solutions(clauses) :
        /\ Agrees(m, Above(Len(callers) + 1)) =>
               \A v \in Var : assignment[v] \in {0, m[v]} \/ pc = "refuted"
        /\ \A k \in DOMAIN callers : Agrees(m, Above(k)) =>
               \A v \in Var : callers[k].assignment[v] \in {0, m[v]}

RefutedHasNoSolution ==
    \A m \in Solutions(clauses) :
        /\ pc = "refuted" => ~Agrees(m, Above(Len(callers) + 1))
        /\ \A k \in DOMAIN callers :
               callers[k].value = -1 => ~(Agrees(m, Above(k)) /\ m[callers[k].var] = 1)

NoSolutionIsLost == TypeOK /\ AssignedIsImplied /\ RefutedHasNoSolution

(* When propagate returns true, units and theory have both had the last    *)
(* word: no clause is false or unit, and the theory neither refutes the    *)
(* assignment nor implies another value.                                   *)
PropagationIsComplete ==
    pc = "choose" =>
        /\ \A i \in DOMAIN clauses :
               Sat(assignment, clauses[i]) \/ Cardinality(Open(assignment, clauses[i])) > 1
        /\ ~TheoryRefutes(assignment)
        /\ Implied(assignment) = assignment

(* The search answers once, and sat and unsat are the truth.               *)
D == INSTANCE Decision WITH satisfiable <- Solutions(clauses) # {}

ImplementsDecision == D!DecisionSpec

(* The search answers.                                                     *)
Answers == <>(result # "none")
=============================================================================
