--------------------------- MODULE QuotientSearch ---------------------------
(***************************************************************************)
(* solve_quotient_states: an exact search over the quotients of the terms  *)
(* of a finite ground EUF problem.  A rollback union-find holds the classes *)
(* of the current path with their possible values; a node of the search    *)
(* propagates to a fixed point, then tries the branches of one decision,   *)
(* undoing each.  The answer is a total model, a refutation tree, or       *)
(* "abstain" at any cap: never a refutation of what was not explored.      *)
(*                                                                         *)
(* The recursion of dfs is an explicit stack of frames, one per decision   *)
(* on the path.  An answer other than a refutation returns through all     *)
(* frames without another branch, so it ends the search at once.           *)
(***************************************************************************)
EXTENDS QuotientAudit

CONSTANTS
    Problems,     \* finite EUF problems as a caller may state them, invalid ones too
    Caps          \* records of bounds: SearchCaps and the trail's

Application == [fun : Nat, args : Seq(Nat), result : Nat]

ASSUME SearchAssumption ==
    /\ Problems \subseteq
          [values : Nat, terms : Nat, arities : Seq(Nat), apps : Seq(Application),
           equalities : Seq(Nat \X Nat), disequalities : Seq(Nat \X Nat),
           domains : Seq(SUBSET Nat)]
    /\ Caps \subseteq
          [values : Nat, terms : Nat, functions : Nat, arity : Nat, apps : Nat, relations : Nat,
           nodes : Nat, decisions : Nat, propagations : Nat, conflicts : Nat, depth : Nat,
           trail : Nat, certificate : Nat, cells : Nat]

VARIABLES
    problem, caps, pc,
    state,        \* RollbackState
    asserted,     \* the equalities of the problem asserted so far
    path, frames,
    used,         \* SearchTelemetry: the counters that a cap bounds
    proof,        \* the refutation that the last node returned
    outcome

input == <<problem, caps>>
search == <<state, path, frames>>
searchVars == <<input, pc, search, asserted, used, proof, outcome>>

-----------------------------------------------------------------------------
(* RollbackState.  No path is compressed, so that undoing a union restores *)
(* one parent.                                                             *)
BaseDisequalities(p) ==
    LET pairs == {OrderedPair(pair[1], pair[2]) : pair \in Range(p.disequalities)}
    IN  [i \in 1..Cardinality(pairs) |->
            CHOOSE x \in pairs : Cardinality({y \in pairs : Before(y, x)}) = i - 1]

NewState(p) ==
    [parent |-> [t \in Terms(p) |-> t],
     size |-> [t \in Terms(p) |-> 1],
     domain |-> [t \in Terms(p) |-> DomainOf(p, t)],
     disequalities |-> BaseDisequalities(p),
     trail |-> <<>>]

FindIn(s, term) ==
    LET find[t \in DOMAIN s.parent] == IF s.parent[t] = t THEN t ELSE find[s.parent[t]]
    IN  find[term]

RootsIn(s) == {t \in DOMAIN s.parent : s.parent[t] = t}

TrailEntries(s) == Len(s.trail) + Len(s.disequalities) - Len(BaseDisequalities(problem))

(* ensure_trail_capacity, for one more entry                               *)
HasRoom(s) == TrailEntries(s) + 1 <= caps.trail

(* The larger class keeps its root, of two equal ones the smaller root.    *)
Keeps(s, root, other) ==
    s.size[root] > s.size[other] \/ (s.size[root] = s.size[other] /\ root < other)

UnionIn(s, left, right) ==
    LET roots == <<FindIn(s, left), FindIn(s, right)>>
        parent == IF Keeps(s, roots[1], roots[2]) THEN roots[1] ELSE roots[2]
        child == IF parent = roots[1] THEN roots[2] ELSE roots[1]
    IN  [s EXCEPT !.parent[child] = parent,
                  !.size[parent] = @ + s.size[child],
                  !.domain[parent] = @ \cap s.domain[child],
                  !.trail = Append(@, [kind |-> "Union", child |-> child, root |-> parent,
                                       size |-> s.size[parent], domain |-> s.domain[parent]])]

(* intersect_domain, where it reduces the domain                           *)
Restricted(s, term, values) ==
    LET root == FindIn(s, term)
    IN  [s EXCEPT !.domain[root] = @ \cap values,
                  !.trail = Append(@, [kind |-> "Domain", child |-> root, root |-> root,
                                       size |-> s.size[root], domain |-> s.domain[root]])]

Separated(s, left, right) ==
    [s EXCEPT !.disequalities = Append(@, OrderedPair(left, right))]

Snapshot(s) == [trail |-> Len(s.trail), disequalities |-> Len(s.disequalities)]

(* Faulty: a union gives back its child, not the domain that it narrowed.  *)
UndoneButForDomains(s) ==
    LET entry == Last(s.trail)
    IN  [s EXCEPT !.trail = Front(@),
                  !.parent[entry.child] = entry.child,
                  !.size[entry.root] = entry.size,
                  !.domain[entry.root] = IF entry.kind = "Domain" THEN entry.domain ELSE @]

(* One turn of rollback: the last entry of the trail is undone.            *)
Undone(s) ==
    LET entry == Last(s.trail)
    IN  [s EXCEPT !.trail = Front(@),
                  !.parent[entry.child] = entry.child,
                  !.size[entry.root] = entry.size,
                  !.domain[entry.root] = entry.domain]

Rollback(s, snapshot) ==
    LET entries == Len(s.trail) - snapshot.trail
        undone[n \in 0..entries] == IF n = 0 THEN s ELSE Undone(undone[n - 1])
    IN  [undone[entries] EXCEPT
            !.disequalities = SubSeq(@, 1, snapshot.disequalities)]

(* The least term of each class.                                           *)
Representative(s, root) == Min({t \in DOMAIN s.parent : FindIn(s, t) = root})
Representatives(s) == {Representative(s, root) : root \in RootsIn(s)}

ApartRoots(s) ==
    {<<FindIn(s, pair[1]), FindIn(s, pair[2])>> : pair \in Range(s.disequalities)}
HasDisequalityBetween(s, left, right) ==
    <<left, right>> \in ApartRoots(s) \/ <<right, left>> \in ApartRoots(s)

ChooseStateDecision(s, values) ==
    LET reps == Representatives(s)
        apart == {p \in reps \X reps : HasDisequalityBetween(s, FindIn(s, p[1]), FindIn(s, p[2]))}
    IN  Decision(values, reps, [t \in reps |-> s.domain[FindIn(s, t)]], apart)

-----------------------------------------------------------------------------
(* One turn of propagate looks at these in this order.                     *)
Contradiction(s) ==
    \/ \E root \in RootsIn(s) : s.domain[root] = {}
    \/ \E pair \in Range(s.disequalities) : FindIn(s, pair[1]) = FindIn(s, pair[2])

(* Faulty: the arguments themselves, not their classes.                    *)
SignatureOfTerms(s, app) == [fun |-> app.fun, args |-> app.args]

Signature(s, app) == [fun |-> app.fun, args |-> [i \in DOMAIN app.args |-> FindIn(s, app.args[i])]]

(* The first application whose result is not yet equal to that of the      *)
(* first one with its signature, paired with that one.                     *)
Collisions(s) ==
    LET signature == [i \in DOMAIN problem.apps |-> Signature(s, problem.apps[i])]
        First(i) == Min({j \in DOMAIN signature : signature[j] = signature[i]})
        late == {i \in DOMAIN signature :
                    FindIn(s, problem.apps[First(i)].result) # FindIn(s, problem.apps[i].result)}
    IN  IF late = {} THEN {}
        ELSE {<<problem.apps[First(Min(late))].result, problem.apps[Min(late)].result>>}

(* Two classes with the same only value.                                   *)
ForcedPairs(s) ==
    {p \in RootsIn(s) \X RootsIn(s) : p[1] < p[2] /\ SameSingleton(s.domain[p[1]], s.domain[p[2]])}

(* <<a, b>>: the only value of class a is still a value of class b, though *)
(* the i-th disequality separates them.                                    *)
Cuts(s, i) ==
    LET sides == <<FindIn(s, s.disequalities[i][1]), FindIn(s, s.disequalities[i][2])>>
    IN  {p \in {<<sides[1], sides[2]>>, <<sides[2], sides[1]>>} :
            IsSingleton(s.domain[p[1]]) /\ s.domain[p[1]] \subseteq s.domain[p[2]]}

Cutting(s) == {i \in DOMAIN s.disequalities : Cuts(s, i) # {}}

-----------------------------------------------------------------------------
NoOutcome == [kind |-> "None", reason |-> "none"]
Answer(kind, reason) == [kind |-> kind, reason |-> reason]

Unused == [nodes |-> 0, decisions |-> 0, propagations |-> 0, conflicts |-> 0, certificate |-> 0]
EmptyState == [parent |-> <<>>, size |-> <<>>, domain |-> <<>>, disequalities |-> <<>>, trail |-> <<>>]

SearchInit ==
    /\ problem \in Problems
    /\ caps \in Caps
    /\ pc = "start"
    /\ state = EmptyState
    /\ asserted = 0
    /\ path = <<>> /\ frames = <<>>
    /\ used = Unused
    /\ proof = Leaf(EmptyDomain(0))
    /\ outcome = NoOutcome

End(kind, reason) == pc' = "done" /\ outcome' = Answer(kind, reason)
Abstain(reason) == End("Abstain", reason)

(* The caps on the shape of the problem.                                   *)
Fits ==
    /\ problem.values <= caps.values
    /\ problem.terms <= caps.terms
    /\ Len(problem.arities) <= caps.functions
    /\ Len(problem.apps) <= caps.apps
    /\ Len(problem.equalities) + Len(problem.disequalities) <= caps.relations
    /\ \A i \in DOMAIN problem.arities : problem.arities[i] <= caps.arity

Start ==
    /\ pc = "start"
    /\ \/ ~Valid(problem) /\ End("InvalidInput", "input") /\ UNCHANGED state
       \/ Valid(problem) /\ ~Fits /\ Abstain("structure") /\ UNCHANGED state
       \/ /\ Valid(problem) /\ Fits
          /\ state' = NewState(problem)
          /\ pc' = "equalities" /\ UNCHANGED outcome
    /\ UNCHANGED <<input, asserted, path, frames, used, proof>>

(* A union or a reduction of propagation: room on the trail is needed      *)
(* before it, its count is checked after it.                               *)
Propagated(after, nextPc) ==
    \/ ~HasRoom(state) /\ Abstain("trail entries") /\ UNCHANGED <<state, used>>
    \/ /\ HasRoom(state) /\ used.propagations >= caps.propagations
       /\ state' = after
       /\ Abstain("propagations") /\ UNCHANGED used
    \/ /\ HasRoom(state) /\ used.propagations < caps.propagations
       /\ state' = after
       /\ used' = [used EXCEPT !.propagations = @ + 1]
       /\ pc' = nextPc /\ UNCHANGED outcome

AssertEquality ==
    /\ pc = "equalities"
    /\ asserted < Len(problem.equalities)
    /\ LET pair == problem.equalities[asserted + 1]
       IN  IF FindIn(state, pair[1]) = FindIn(state, pair[2])
           THEN UNCHANGED <<pc, state, used, outcome>>
           ELSE Propagated(UnionIn(state, pair[1], pair[2]), pc)
    /\ asserted' = asserted + 1
    /\ UNCHANGED <<input, path, frames, proof>>

BeginSearch ==
    /\ pc = "equalities"
    /\ asserted = Len(problem.equalities)
    /\ pc' = "enter"
    /\ UNCHANGED <<input, search, asserted, used, proof, outcome>>

(* A step that counts one more of a capped resource, or abstains.          *)
Counted(resource, limit, nextPc) ==
    \/ used[resource] >= limit /\ Abstain(resource) /\ UNCHANGED used
    \/ /\ used[resource] < limit
       /\ used' = [used EXCEPT ![resource] = @ + 1]
       /\ pc' = nextPc /\ UNCHANGED outcome

EnterNode ==
    /\ pc = "enter"
    /\ \/ Len(frames) > caps.depth /\ Abstain("depth") /\ UNCHANGED used
       \/ Len(frames) <= caps.depth /\ Counted("nodes", caps.nodes, "propagate")
    /\ UNCHANGED <<input, search, asserted, proof>>

-----------------------------------------------------------------------------
(* propagate: one turn of its loop.                                        *)
MergeSignature ==
    /\ pc = "propagate"
    /\ ~Contradiction(state)
    /\ \E pair \in Collisions(state) : Propagated(UnionIn(state, pair[1], pair[2]), pc)
    /\ UNCHANGED <<input, asserted, path, frames, proof>>

MergeForcedValue ==
    /\ pc = "propagate"
    /\ ~Contradiction(state) /\ Collisions(state) = {}
    /\ ForcedPairs(state) # {}
    /\ LET pair == FirstPair(ForcedPairs(state))
       IN  /\ ~HasDisequalityBetween(state, pair[1], pair[2])
           /\ Propagated(UnionIn(state, pair[1], pair[2]), pc)
    /\ UNCHANGED <<input, asserted, path, frames, proof>>

ReduceDomain ==
    /\ pc = "propagate"
    /\ ~Contradiction(state) /\ Collisions(state) = {} /\ ForcedPairs(state) = {}
    /\ Cutting(state) # {}
    /\ \E pair \in Cuts(state, Min(Cutting(state))) :
          Propagated(Restricted(state, pair[2], state.domain[pair[2]] \ state.domain[pair[1]]), pc)
    /\ UNCHANGED <<input, asserted, path, frames, proof>>

ReachFixpoint ==
    /\ pc = "propagate"
    /\ ~Contradiction(state) /\ Collisions(state) = {} /\ ForcedPairs(state) = {}
    /\ Cutting(state) = {}
    /\ pc' = "decide"
    /\ UNCHANGED <<input, search, asserted, used, proof, outcome>>

FindConflict ==
    /\ pc = "propagate"
    /\ \/ Contradiction(state)
       \/ /\ Collisions(state) = {} /\ ForcedPairs(state) # {}
          /\ LET pair == FirstPair(ForcedPairs(state))
             IN  HasDisequalityBetween(state, pair[1], pair[2])
    /\ pc' = "conflict"
    /\ UNCHANGED <<input, search, asserted, used, proof, outcome>>

(* conflict_leaf: the claim is that of the audit, not of the search.       *)
ConflictLeaf ==
    /\ pc = "conflict"
    /\ LET audit == Audit(problem, path)
           next == [used EXCEPT !.conflicts = @ + 1]
       IN  \/ /\ used.conflicts >= caps.conflicts
              /\ Abstain("conflicts") /\ UNCHANGED <<used, proof>>
           \/ /\ used.conflicts < caps.conflicts /\ ~audit.conflict
              /\ Abstain("internal") /\ UNCHANGED <<used, proof>>
           \/ /\ used.conflicts < caps.conflicts /\ audit.conflict
              /\ next.certificate >= caps.certificate
              /\ Abstain("certificate") /\ used' = next /\ UNCHANGED proof
           \/ /\ used.conflicts < caps.conflicts /\ audit.conflict
              /\ next.certificate < caps.certificate
              /\ used' = [next EXCEPT !.certificate = @ + 1]
              /\ proof' = Leaf(audit.claim)
              /\ pc' = "return" /\ UNCHANGED outcome
    /\ UNCHANGED <<input, search, asserted>>

-----------------------------------------------------------------------------
Frame(decision) ==
    [decision |-> decision, todo |-> decision, proofs |-> <<>>, snapshot |-> Snapshot(state)]

Decide ==
    /\ pc = "decide"
    /\ LET decision == ChooseStateDecision(state, problem.values)
       IN  /\ decision # Complete
           /\ Counted("decisions", caps.decisions, "branch")
           /\ frames' = Append(frames, Frame(decision))
    /\ UNCHANGED <<input, state, path, asserted, proof>>

(* The next branch: its assumption is applied, and the node under it       *)
(* entered.                                                                *)
TryBranch ==
    /\ pc = "branch"
    /\ LET frame == Last(frames)
           a == Head(frame.todo)
           after == CASE a.kind = "Equal" -> UnionIn(state, a.left, a.right)
                      [] a.kind = "Distinct" -> Separated(state, a.left, a.right)
                      [] a.kind = "Value" -> Restricted(state, a.left, {a.right})
       IN  /\ frame.todo # <<>>
           /\ path' = Append(path, a)
           /\ frames' = [frames EXCEPT ![Len(frames)].todo = Tail(@)]
           /\ \/ ~HasRoom(state) /\ Abstain("trail entries") /\ UNCHANGED state
              \/ HasRoom(state) /\ state' = after /\ pc' = "enter" /\ UNCHANGED outcome
    /\ UNCHANGED <<input, asserted, used, proof>>

(* A branch was refuted: what it assumed and derived is undone.            *)
BranchRefuted ==
    /\ pc = "return"
    /\ frames # <<>>
    /\ path' = Front(path)
    /\ state' = Rollback(state, Last(frames).snapshot)
    /\ frames' = [frames EXCEPT ![Len(frames)].proofs = Append(@, proof)]
    /\ pc' = "branch"
    /\ UNCHANGED <<input, asserted, used, proof, outcome>>

(* All branches of the decision are refuted, and so is its node.           *)
AllRefuted ==
    /\ pc = "branch"
    /\ LET frame == Last(frames)
       IN  /\ frame.todo = <<>>
           /\ proof' = Split(frame.decision, frame.proofs)
    /\ Counted("certificate", caps.certificate, "return")
    /\ frames' = Front(frames)
    /\ UNCHANGED <<input, state, path, asserted>>

Refute ==
    /\ pc = "return"
    /\ frames = <<>>
    /\ End("Unsat", "none")
    /\ UNCHANGED <<input, search, asserted, used, proof>>

-----------------------------------------------------------------------------
(* build_total_witness.  A table is 0 where no application has its value.  *)
TermValues == [t \in Terms(problem) |-> TheValue(state.domain[FindIn(state, t)])]

ArgValues(app) == [i \in DOMAIN app.args |-> TermValues[app.args[i]]]

Observed(f, values) ==
    {i \in DOMAIN problem.apps : problem.apps[i].fun = f /\ ArgValues(problem.apps[i]) = values}

Witness ==
    [terms |-> TermValues,
     tables |-> [f \in DOMAIN problem.arities |->
                    [values \in [1..problem.arities[f] -> Carrier(problem)] |->
                        IF Observed(f, values) = {} THEN 0
                        ELSE TermValues[problem.apps[Min(Observed(f, values))].result]]]]

TotalCells ==
    FoldLeft(LAMBDA sum, arity : sum + problem.values ^ arity, 0, problem.arities)

(* Applications with the same argument values retain different results.    *)
ResultsClash ==
    \E i, j \in DOMAIN problem.apps :
        /\ problem.apps[i].fun = problem.apps[j].fun
        /\ ArgValues(problem.apps[i]) = ArgValues(problem.apps[j])
        /\ TermValues[problem.apps[i].result] # TermValues[problem.apps[j].result]

AllSingleton == \A root \in RootsIn(state) : IsSingleton(state.domain[root])

CompleteModel ==
    /\ pc = "decide"
    /\ ChooseStateDecision(state, problem.values) = Complete
    /\ \/ ~AllSingleton /\ Abstain("internal")
       \/ AllSingleton /\ TotalCells > caps.cells /\ Abstain("cells")
       \/ /\ AllSingleton /\ TotalCells <= caps.cells
          /\ IF ResultsClash \/ ~IsWitness(problem, Witness) THEN Abstain("internal")
             ELSE End("Sat", "none")
    /\ UNCHANGED <<input, search, asserted, used, proof>>

Terminating == pc = "done" /\ UNCHANGED searchVars

SearchNext ==
    \/ Start \/ AssertEquality \/ BeginSearch \/ EnterNode
    \/ MergeSignature \/ MergeForcedValue \/ ReduceDomain \/ ReachFixpoint \/ FindConflict
    \/ ConflictLeaf \/ Decide \/ TryBranch \/ BranchRefuted \/ AllRefuted \/ Refute
    \/ CompleteModel \/ Terminating

SearchSpec == SearchInit /\ [][SearchNext]_searchVars

-----------------------------------------------------------------------------
Running == pc \notin {"start", "equalities", "done"}

SearchTypeOK ==
    /\ problem \in Problems /\ caps \in Caps
    /\ asserted \in 0..Len(problem.equalities)
    /\ Running =>
          /\ state.parent \in [Terms(problem) -> Terms(problem)]
          /\ \A root \in RootsIn(state) :
                state.size[root] = Cardinality({t \in Terms(problem) : FindIn(state, t) = root})
          /\ TrailEntries(state) <= caps.trail
    /\ \A i \in DOMAIN frames : frames[i].decision # Complete
    /\ outcome.kind \in {"None", "InvalidInput", "Abstain", "Sat", "Unsat"}

(* The union-find that is changed and undone step by step is always that   *)
(* of the assumptions on the path: where it rests its classes, values and  *)
(* next decision are those that the audit computes from the path alone,    *)
(* and it is in conflict only where the audit is.                          *)
StateIsOfThePath ==
    LET audit == Audit(problem, path)
    IN  /\ SearchTypeOK
        /\ pc = "decide" =>
              /\ ~audit.conflict
              /\ \A t \in Terms(problem) :
                    /\ audit.labels[t] = Representative(state, FindIn(state, t))
                    /\ audit.domains[audit.labels[t]] = state.domain[FindIn(state, t)]
              /\ ChooseStateDecision(state, problem.values) = AuditDecision(problem, audit)
        /\ pc = "conflict" => audit.conflict

(* Total interpretations by brute force: a function can be totalized if    *)
(* applications with equal arguments have equal results.                   *)
IsModel(p, value) ==
    /\ \A t \in Terms(p) : value[t] \in DomainOf(p, t)
    /\ \A pair \in Range(p.equalities) : value[pair[1]] = value[pair[2]]
    /\ \A pair \in Range(p.disequalities) : value[pair[1]] # value[pair[2]]
    /\ \A i, j \in DOMAIN p.apps :
          LET left == p.apps[i]
              right == p.apps[j]
          IN  left.fun = right.fun
                  /\ (\A k \in DOMAIN left.args : value[left.args[k]] = value[right.args[k]])
              => value[left.result] = value[right.result]

HasModel(p) == \E value \in [Terms(p) -> Carrier(p)] : IsModel(p, value)

(* An answer is right: there is a model after Sat and none after Unsat,    *)
(* the refutation is accepted by the checker under the caps of the search, *)
(* and the search abstains because of a cap only, never because of a       *)
(* contradiction in itself.                                                *)
OutcomeIsRight ==
    /\ outcome.kind = "Sat" => HasModel(problem)
    /\ outcome.kind = "Unsat" =>
          /\ ~HasModel(problem)
          /\ Accepted(problem, caps.certificate, caps.depth, proof)
    /\ outcome.reason # "internal"

(* A forger's refutation: the tree of the decisions, in which a branch     *)
(* that has a model is cut out, or closed by a conflict that is none.      *)
Assumption == [kind : {"Equal", "Distinct", "Value"}, left : Nat, right : Nat]

ForgedNode(style, audit, decision, below) ==
    LET Kept(i) == style # "cut" \/ below[i] # Leaf(EmptyDomain(0))
        closed == SelectSeq([i \in DOMAIN decision |-> i], Kept)
    IN  IF audit.conflict THEN Leaf(audit.claim)
        ELSE IF decision = Complete THEN Leaf(EmptyDomain(0))
        ELSE Split([i \in DOMAIN closed |-> decision[closed[i]]],
                   [i \in DOMAIN closed |-> below[closed[i]]])

Forgery(style) ==
    LET tree[assumed \in Seq(Assumption)] ==
            LET audit == Audit(problem, assumed)
                decision == AuditDecision(problem, audit)
            IN  ForgedNode(style, audit, decision,
                           [i \in DOMAIN decision |-> tree[Append(assumed, decision[i])]])
    IN  tree[<<>>]

(* The checker does not believe the search: whatever tree it accepts, the  *)
(* problem has no model.                                                   *)
ForgeriesAreRefused ==
    outcome.kind = "Sat" =>
        \A style \in {"cut", "close"} :
            ~Accepted(problem, caps.certificate, caps.depth, Forgery(style))
=============================================================================
