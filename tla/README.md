# A TLA+ verification of euf-viper

euf-viper decides quantifier-free formulas over equality and uninterpreted
functions (the SMT-LIB logic QF_UF). It is one Rust program, `src/src/main.rs`
with a few analysis modules beside it, and a set of Python scripts that run
benchmark campaigns and check certificates. This directory models the parts
whose correctness is hard to see from a test, checks the models with TLC on
small instances, and proves what matters most about them with TLAPS.

Paths in this file are relative to the repository, lines are those of
`src/main.rs` unless another file is named. `PROJECT.json` maps every
definition to its lines.

## Inventory

| Component | State | Operations | Talks to | What is hard |
|---|---|---|---|---|
| Front end (218-1815, 6543-6760, `smt2_stream.rs`) | interners, declarations, scoped bindings, term arena, assertions | two readers, one handler per SMT-LIB command, a preprocessor for disjunctions | fills the arena and the Boolean problem | scopes of `let` on error paths; Booleans as data; two readers and a prepass on one text; unsupported commands must not change the answer |
| Term arena (145-193) | terms, intern table, list of applications | `intern_typed` | read by everything later | none once filled |
| Union-find (1815-1860) | parents, u8 ranks | `root_const`, `find`, `union` | theory solver, DPLL(T) | compression hidden in lookups; saturating rank; recursion depth |
| Theory conflict analysis (1864-2003, 4299-4370) | union-find, forest of reasons, signature map | `merge`, `close_congruence`, `explain_equal`, `theory_conflict_clauses` | called by every SAT stage on a candidate | stale signatures; explanations cut short by a visited set; an empty list means "model" |
| CNF encoding (2005-2517) | flat clauses, atom of each variable | `push`, `atom_lit`, direct, root-flattened and Tseitin encoding | read by the stages | u32 offsets; equisatisfiability |
| Lemma generators (2519-2950) | none kept | transitivity triangles and the fill, congruence, Ackermann | loaded into the stages | a lemma that is not one; the fill's stale queue and its limit |
| Finite domain axioms (2950-3960, `finite_analysis.rs`) | membership variables, completeness flags | detection, channeling, permutation support, symmetry breaking | add to the CNF, switch lemmas off | symmetry breaking that loses the last model; flags set too early |
| Equality abstraction (`eq_abstraction.rs`, 5810-5982) | interned nodes, memoised partitions | evaluation with a work budget, integration of facts | adds unit clauses before the stages | reuse of memoised values; all or nothing |
| DPLL(T) (3970-4279) | assignment, node count | unit and theory propagation, branching | fallback of an unknown backend name | propagation both ways; node limit |
| SAT portfolio (4372-5141, 6224-6507) | stage, solver of the stage, learned clauses, round | five stages, two refinement loops | SAT backends, theory conflict analysis | wrong or partial models, limits, hand-over between stages |
| Research: quotient state search (`quotient_state_search.rs`) | rollback union-find, domains, trail, frames, refutation tree | propagate, decide, undo, certify, check a certificate | tests and telemetry | what a rollback leaves behind; caps; forged certificates |
| Research: bounded CSP (`quotient_csp.rs`) | one domain per term, frames | propagation rounds, canonical branching, table completion | tests and telemetry | symmetry of values against tables |
| Research: DAG projection (`bool_dag_projection.rs`) | canonical graph, definitions per polarity | graph building, the second CNF | tests and telemetry | a half definition that is missing |
| Research: the rest (`forbidden_*`, `hall_*`, `stabilizer_order`, `novelty_census`, ...) | none kept | telemetry | no answer depends on them | out of scope |
| Certificates (5144-5572, `scripts/cert/*.py`) | none kept | emission, independent check | after UNSAT | agreement of two implementations |
| Router, command line (6825-6915, 7282-7360) | none | options, scores, output | calls the solver | none |
| Locked campaign runner (`scripts/bench/run_locked_campaign.py`) | journal file, raw output, summary; in memory the journal's copy and fingerprints | verify, lock, load, append, run a job, publish | solver children, the file system | kills, power loss, two runners, artifacts replaced while it runs |
| Shadow campaign (`scripts/cert/shadow_campaign.py`) | journal, attempt directories, summary | as above, with certificates | solver, checker | a crash between directory and record |
| Campaign preparation, analysis (`scripts/bench`) | none | files to files | makes the lock, reads the outputs | none that has state |

What makes each of the main components correct:

- front end: both readers and the prepass agree on every text; what is made of a
  script that follows the rules has the models of the script; a scope is taken
  back on every path; what is not understood is reported;
- union-find: seen through `root_const` it is a partition; parents have no
  cycle and ranks do not saturate;
- theory conflict analysis: everything merged follows from the literals, nothing
  is missed, every clause is a lemma of QF_UF that the candidate falsifies, the
  list is empty exactly for a consistent candidate, and the call returns;
- CNF and lemmas: the clauses have the models of the assertions, at every
  operator and polarity; with the completion they decide the problem;
- finite domains and equality facts: they lose no answer and promise nothing
  that the clauses do not hold;
- portfolio: one answer; sat and unsat are the truth whatever lemmas a stage
  holds and whatever model a backend invents; giving up has a cause;
- research searches: a refutation is one, a model is one, a cap is neither;
- campaign runner: the journal is a chain that holds a prefix of the schedule,
  published files agree with it and never change, an interrupted campaign can be
  finished, and a replaced artifact is noticed.

## Modules

| Module | Contents |
|---|---|
| `SmtReader` | the two readers and the structural prepass, from characters to trees |
| `SmtFrontEnd`, `SmtScript` | `ParseCtx`: terms, sorts, scopes, Boolean data; the commands, the collector, the preprocessor, the answer short of search |
| `SmtMeaning`, `MCFrontEnd` | what a script means by the rules of SMT-LIB; texts and scripts |
| `Partition`, `UnionFind`, `UnionFindProofs` | abstract union-find; the arrays that implement it; its theorems |
| `Euf` | the arena, atoms, literals, and what consistency and lemma mean in QF_UF |
| `ExplainingTheory`, `MCExplainingTheory`, `ExplainingTheoryProofs` | one call of `theory_conflict_clauses`; two arenas; theorems about the closure, and about the reasons and the clauses |
| `TermArena`, `Formula` | the arena, its atoms and its Boolean expressions; what they mean, over all structures |
| `FlatClauses`, `CnfProblem`, `CnfEncoding` | the clause store; the atom table, literals and the clauses of each operator; the encodings |
| `EagerLemmas`, `SparseFill` | the lemmas; the chordal fill |
| `CnfConstruction`, `BoolDag`, `MCCnfConstruction` | `solve_bool_problem` up to the stages; the projection; instances of both |
| `CnfProofs` | theorems about the clause store, the fill, the lemmas, the Tseitin clauses and the equality abstraction |
| `FiniteAnalysis`, `FiniteDomain`, `MCFiniteDomain` | what the assertions say of a domain; the axioms; problems |
| `EqEvaluation`, `EqAbstraction`, `MCDomainsAndFacts` | the evaluation of the equality abstraction; its routing and the integration of its facts; problems, next to those of the axioms |
| `Decision`, `SatPortfolio`, `MCSatPortfolio`, `SatPortfolioProofs` | what a solver call promises; `solve_bool_problem`; an instance; its theorems |
| `Dpll`, `MCDpll`, `DpllProofs` | the DPLL(T) search; an instance; its theorems |
| `QuotientAudit`, `QuotientSearch`, `QuotientSearchProofs`, `QuotientCsp`, `MCQuotientSearch` | the declarative audit and the certificate checker; the search; its theorems; the bounded CSP search; instances of both, next to the solver's union-find |
| `LockedCampaign`, `MCLockedCampaign`, `LockedCampaignProofs` | the campaign runner; schedules; its theorems |
| `NumberInduction` | induction in a form the provers can use |

How they compose. `UnionFind` implements `Partition` (property
`ImplementsPartition`), and `ExplainingTheory` is written on `Partition`: its
`root` is what `root_const` returns. `EmptyMeansConsistent` and
`ConflictsAreRefutations` of `ExplainingTheory` are what `SatPortfolio` assumes of a
call of `theory_conflict_clauses` in `ConflictsOf`: some lemmas that the
candidate falsifies, none iff it is consistent. `SatPortfolio` implements `Decision`.
`Dpll` takes the classes of a theory call from `MergesAreEntailed` and
`ClosureIsComplete` (its `congruence_closure` is the closure loop of `ExplainingTheory`
without reasons) and implements `Decision`, which is what the step `Dpll` of
`SatPortfolio` assumes.
`SmtScript` ends where `CnfConstruction` begins: `Formula` is the Boolean problem
in the form of the CNF modules. What needs no recursion over formulas (`TermArena`, `CnfProblem`,
`EagerLemmas`, `EqEvaluation`) is kept apart from what does, so that theorems can be stated about it. `CnfConstruction` composes `CnfEncoding`, `EagerLemmas`
and `SparseFill`; what it shows (`NothingIsLost`, `NothingIsAdded`, `CompletionDecides`) is what `SatPortfolio` assumes of
its base and completed CNF and of its lemmas. `FiniteDomain` and `EqAbstraction` start from the same encoding, each
with the CNF it extends. `BoolDag` uses the production encoding for its first arm.
`QuotientSearch` is checked by `QuotientAudit` as the code checks itself; that the two agree is
`StateIsOfThePath`, which is proved.
`LockedCampaign` stands alone: a solver run is an opaque job for it.

Two or three modules in one run are a disjoint sum: a behaviour is one of either, and the
variables of the others stay as they are (`MCCnfConstruction`, `MCDomainsAndFacts`,
`MCQuotientSearch` with three, `MCFrontEnd`).

### State and actions against the code

`SmtReader`: `phase` and `pos` are where the reader is, `stack` and `trees` what
`parse_sexps` builds; the streaming reader runs twice, with `depth`, `awaiting` and
`asserts` the locals of the prepass. A text is a sequence of characters of the
classes that the scanners tell apart.

`SmtFrontEnd` and `SmtScript`: `ctx` is `ParseCtx`, one `ReadCommand` is one call of
`parse_command` with all it calls; `Solve` is `solve_problem` short of search. Expressions are
evaluated by recursive operators that thread the context, failures included, as
the code's `?` does: what a failing call has changed stays changed. `mode` is the scoped
or the cloned environment for `let`. Left out: the term limit of the preprocessor
(1024), the limit on pairs of the common consequences, and names that were looked up but never
declared; symbols that begin with `@` are used by the code alone, except where a script collides with one on purpose.

`UnionFind`: `parent` and `rank` are the two arrays; `Find` and `Union` are the
methods, the path compressions of `union` included. The recursions of `root_const` and `find` are the
recursive functions `Roots` and `Paths`.

`ExplainingTheory`: `pc` is the position in `theory_conflict_clauses`; `Refuse` is
its first return; `AssertVar` one turn of the loop over the variables;
`CloseApp` and `EndPass` the two loops of `close_congruence`, with the hash map as
`signatures` (inverted: which key was inserted for which application, so that a
key stays as it was when roots change); `StartExplanation`, `ExplainPair`,
`EndExplanation` the collection of reasons for true = false (at 0) and for each
false equality; `Return` the sort, deduplication and truncation. The code first
collects the false equalities into a list, the model looks at the variables
again: neither the atoms nor the assignment change in between. Two abstractions:
the breadth-first search returns the path between two terms, which is given as
the edges whose removal separates them (the edges form a forest, which
`ProofForest` checks); and the recursion of `explain_equal_inner` is a set of
pairs still to be visited, since only the set of collected literals matters.

`CnfProblem`, `CnfEncoding`, `CnfConstruction`: a `CnfProblem` is a record; its history fields `means` and
`added` say what a variable stands for and which clauses the code pushed, so that
they can be compared with the flat store. `Encode` is one root assertion, then come
the data terms, the facts, and by `config` the lemmas of either kind or the Ackermann completion with the
fill, one step of the elimination at a time. `BoolDag`: one action per phase of the
projection, the second arm one root at a time.

`FiniteDomain`: one action per phase of `add_finite_domain_axioms`. Where the code
iterates over a hash set the model chooses (`DomainChoices`). `EqEvaluation`: the explicit stack of
`evaluate` is `stack`, and `Visit` and `Compute` are its two halves. They are the steps of `Evaluate` in
`EqAbstraction`, where `Cap` is the budget running out,
which may happen before any step, so that budgets of every size are covered.

`SatPortfolio`: `config` is what the environment and the shape of the problem decide
(settings that a backend never reads are left FALSE); `stage` the function that runs; `formula`
and `clauses` what its solver was loaded with; `candidate` the completed model
between the backend's answer and the verdict on it; `learned` and `round` the
loops' variables. A CNF is the set of assignments that satisfy it, a lemma is
known by the assignments it excludes. `faulted` is a history variable: a backend
failed or returned a model of something else, or a limit was reached. The last
resort in `solve_problem`, the search by equalities alone, answers only without a Boolean problem.

`Dpll`: the recursion of `search` is explicit. `assignment` is the vector of the running
call, `callers` the vectors and branching variables of the calls that wait for it;
`pc` is "enter" at the top of `search`, "propagate" in `propagate`, "choose" after it,
"refuted" when a call has returned Unsat. `pending` and `dirty` are the arguments of
`propagate`, `todo` the clauses of the popped variable that are still to be looked at.
The vector `pending` and the order of the clauses are sets: any order of propagation
is allowed, as is any choice of `choose_var` among the open variables of unsatisfied
clauses (its preference for short clauses and frequent variables is a heuristic).
`TheoryFails` and `TheoryPropagates` are the two outcomes of `propagate_theory`.

`QuotientSearch`: the recursion of `dfs` is `frames`; `state` is the rollback union-find with
its trail (`FindIn`, `UnionIn` and `Restricted` are `find`, `union` and `restrict` on it, `Rollback` undoes entry by entry);
a refutation tree is built on the way back and audited by
`check_unsat_certificate`. The loops of `audit_path` are recursive functions over a number of
turns that is enough: each turn of the outer one makes a class fewer (`AuditTurn`), each of the inner
one a value (`Reduction`). The recursion of the checker is the set of nodes of the tree down to the depth cap, each with its path (`Visited`). Left out: the fingerprint of the problem, the cap on audit rounds, telemetry,
64-bit overflow; an answer other than a refutation leaves all frames in one step.
`QuotientCsp`: the reasons for refusing an input are one, "refused"; domains are
discarded at a conflict, as nothing reads them. `BoolDag`: the depth cap, the clock and failed allocations are left
out, occurrences are their expressions, limits are looked at after the step, and provenance is counted in records.

`LockedCampaign`: `journal`, `torn`, `durable` are the journal file, whether its
last line is partial, and how much an `fsync` has covered; `raw`, `summary`,
`unsynced` the published files and the renames no directory `fsync` covers; `content`
and `stamp` what an artifact holds and its fingerprint. Per runner: `snapshot`, `own`
(its invocation number), `view` (its copy of the journal), `pending`. `Open`
is `Journal.__enter__` (flock and load), `Begin` the branch at the top of
`run_campaign`, `CheckJob`-`SpawnJob`-`EndJob` a job, `WriteRecord` and
`SyncRecord` `Journal.append`, and four actions publish. `Stop` is any kill or
interruption, `ShortWrite` a full disk, `PowerLoss` the machine, `Drift` somebody who
replaces an artifact or puts it back. `Launch` checks all the hashes in one step:
the fingerprints are taken before the bytes are read, and a replacement during
the check differs from one right after it in nothing a later check sees. The hash chain is
abstracted to the number of records the writer knew of.

Definitions marked "Faulty" in the modules are not part of any specification.
They are slips (a dropped guard, a missing reset, a swapped order) that
`PROJECT.json` pairs with the property that must notice them.

## Runs

| Run | Instance | States | What it shows |
|---|---|---|---|
| `theory_chain` | six terms on a chain of unary applications, every assignment, every order of the equalities | 66,652 | closure in several passes with nested explanations is sound, complete and ends |
| `theory_predicate` | a binary predicate whose applications are Boolean terms | 5,194 | conflicts of true = false, congruence over two arguments |
| `portfolio` | every CNF over three assignments, every setting, backends that may invent models | 53,165 | one answer, which is the truth; giving up only after a fault |
| `dpll` | 220 CNFs over equalities that imply each other, any order of propagation and branching | 25,439 | only consequences are assigned, no branch with a solution is left, the answer is right or the node limit |
| `campaign_crash` | two runners, three jobs, two solvers; one kill, one power loss, two replacements | 254,403 | the journal loads, the outputs agree with it, nothing is rewritten, replacements are caught, a resumed campaign ends |
| `cnf` | about 350 formulas and 63 equality graphs in every form and lemma setting | 94,651 | the CNF has the models of the assertions, lemmas are valid, the fill is chordal or without a trace |
| `domains_and_facts` | 22 domain problems under seven settings, 28 abstraction problems under twelve | 23,099 | symmetry breaking keeps the answer, flags are deserved, facts are entailed and enter all or not at all |
| `quotient_search` | 336 problems under ten sets of caps, 1,100 calls of the CSP search; beside them the solver's union-find over five terms | 62,171 | the rollback union-find is that of its path, certificates are accepted and forgeries refused, pruning is exact; the arrays implement a partition and no rank saturates |
| `frontend` | texts of up to four characters, about 400 scripts, both modes for `let` | 27,764 | both readers agree, scripts keep their meaning, scopes close |
| `campaign_resumed` (violation) | one runner, a replacement that is undone | | a run made with a replaced solver is published after a resume |
| `frontend_unsupported` (violation) | the scripts of `frontend` | | `push` and `pop` are recorded as unsupported and answered all the same |
| `frontend_preprocess` (violation) | the scripts of `frontend` | | the preprocessor rejects a script that the parser has read |

The bounds and why they are enough.

- `theory_chain`: the chain has the
  shortest arena where a pass with a merge is followed by two more, and where an
  explanation nests twice; its tables put the equalities in every order, since the
  order of assertion decides the forest. `MaxConflicts` is 2 and the
  chain reaches three conflicts, so the truncation happens.
- `portfolio`: the round limits are 2 and 3: the first is
  reached, the second is not by honest backends and is by a lying
  one; a group of two lemmas is loaded by the violation of one.
- `dpll`: the clauses are all the triples from a pool of twelve, with an empty
  clause, units, a literal that occurs twice and a tautology; the equalities among
  a, f(a) and f(f(a)) imply each other by congruence, so that unit and theory
  propagation take turns. Refutations after several branches and the node limit both
  occur, and the node limit ends the search below branches already refuted.
- `campaign_crash`: one
  stop and one power loss, in either order, allow a crash, a resume and a second crash,
  in the middle of a write or anywhere else. Two replacements are the least with one that is undone. Three alternating jobs are the least
  where a job is followed by one with another solver and again by one with the
  same. `MaxStops`, `MaxLosses` and `MaxDrifts` are the counters that are capped.
- `cnf`: every operator over up to three children, once more under another operator, each also
  negated, so that every operator is reached at both polarities as root and below one;
  all graphs over six equalities of five terms, among them the pentagon, whose fill
  needs two edges where `MaxFillEdges` allows one. `MaxEndOffset` is 50, which the larger
  formulas exceed. The limits of the projection are each set to values that are reached and values that are not.
- `domains_and_facts`: domains of three and of four values, the least where a
  permutation is more than a swap; tables of one or two functions and a predicate, complete and
  with an entry missing. The limits for cliques are 1 and 2 and are reached. Two facts fit the smaller quota, three do not.
- `quotient_search`: three terms with every relation of every pair, as the module's own
  exhaustive tests have it, and larger ones with three values; every cap is hit in the middle of a search. In the union-find
  five terms give ranks 0 to 2 and unions of
  trees of unequal height; the argument that ranks do not saturate is the arithmetic
  `ClassesOutgrowRanks` states (rank 255 needs 2^255 terms).
- `frontend`: `MaxNesting` is 2 (the code's limits are large constants): all texts of up to four characters contain every pair of
  adjacent classes, an unfinished string, symbol or comment at the end of a
  text, and a stray parenthesis; deeper and longer cases are listed. Scripts are one assertion
  over each operator with all pairs of arguments of the kinds the parser distinguishes, scopes, broken forms, and sequences of commands. The sort U has three values in the meaning.

`CHECK_DEADLOCK FALSE` is used in the
campaign runs only: nobody has to launch a runner, so the system may stop.

### Properties

- `MeaningIsKept`, `RuleAbidingIsRead`: the parser against a semantics of scripts
  that is written without it: same models, no rejection, whatever the scope mode.
  `ContextIsWellFormed` is part of the former: terms are well sorted and hash-consed, scopes are closed.
- `ReadersAgree`: both readers see the same tokens and fail on the same texts, and the
  prepass counts the assertions that the parser will see.
- `ClosureIsComplete`, `MergesAreEntailed`: the union-find agrees with
  *consequence*, defined in `Euf` by interpretations and not by the algorithm.
- `ProofForest`: the reasons form a spanning forest, and the arguments of a congruence edge are connected by older
  edges alone. It is why the visited set cannot cut an explanation short.
- `ConflictsAreRefutations`, `EmptyMeansConsistent`: the
  contract of the call towards the refinement loops.
- `RankDiscipline`, `ImplementsPartition`: ranks grow upward and classes outgrow them; the arrays are a partition.
- `CnfIsWellFormed`: the flat store holds the clauses pushed, each literal has a
  variable, each variable its meaning, and a refused fill leaves no variable behind. `NothingIsLost`, `NothingIsAdded`: models of the assertions
  extend to the clauses and lemmas, and models of the clauses satisfy the assertions. `CompletionDecides`: with the
  Ackermann clauses and a finished fill, every model of the clauses is one of the
  theory. `FillIsOrderly`: the queue has a current entry of every vertex, each eliminated vertex
  leaves a clique. `ArmsAgree`: the two CNFs of the
  projection have the same models over the atoms, node definitions follow polarity, and a limit never changes the result.
- `NoModelIsLost`: without symmetry breaking every structure of the problem satisfies
  the axioms, with it one of them does if there is one. `TablesAreDecided`: where a flag says that equalities or
  predicates are complete, the lemmas that are skipped would add nothing. `AnalysisIsRight`: domains,
  tables and cliques against their definitions.
- `AbstractionIsSound`, `IntegrationIsAllOrNothing`: every memoised partition, at any
  moment, holds in every meaning of its node; facts enter all or not at all.
- `RoundsAreProductive`, `UnsupportedNeedsFault`: with backends that keep to
  their clauses every round adds a clause, so the messages "repeated an existing
  EUF conflict clause" and "incomplete model" are unreachable.
- `ImplementsDecision`: the answer, against the truth about the base CNF (`SatPortfolio`)
  or about the clauses (`Dpll`).
- `NoSolutionIsLost`: through any depth of calls, what a
  call or a waiting caller has assigned holds in all the solutions under its branch
  values, and a value is given up only if it has none. `PropagationIsComplete`: no
  branch starts while the clauses or the theory still have something to say.
- `StateIsOfThePath`: after any number of rollbacks the classes and domains are those of
  the assumptions on the path. `OutcomeIsRight`, `ForgeriesAreRefused`: an answer is the truth and its certificate is
  accepted; changed certificates and those of satisfiable problems are not. `PruningIsExact`: the CSP search with
  interchangeable values, all-different groups and tables against plain enumeration.
- `JournalLoads`: what any interleaving writes is what `Journal._load` accepts.
- `PublishedIsTheJournal`, `Immutable`: the outputs against
  the journal, over crashes; the clauses for a power loss say what is lost.
- `Resumes`: if runners keep being launched the campaign is published, unless
  an artifact stays replaced or a torn or lost record blocks every resume.
- `DriftIsCaught`: fingerprints see a replacement that was undone.

### Fairness

`ExplainingTheory`, `SatPortfolio` and `Dpll` are sequential code: weak fairness of the
next-state relation says that the thread keeps running and that backend calls
return (they may return a failure). In `LockedCampaign` each runner has weak
fairness of its own steps only: the timeout of a job and the kill of its process
group end every job. Launching is a person's or a scheduler's decision and is
not fair; `Resumes` states it as a hypothesis. Kills, power loss and drift are
never fair. The other modules have no liveness property: they are loops over
finite data without waiting, and TLC explores their finite state spaces to the end.

## Proofs

`ExplainingTheoryProofs` proves, for every arena, atom table, assignment and number
of variables, type correctness, `CongruenceEdgesMatch` (the `debug_assert`s of `explain_equal_inner`), `MergesAreEntailed`,
`ClosureIsComplete` and `EmptyMeansConsistent`. None of them is inductive. The
invariant `Inv` adds

- for soundness, `SignaturesAreEntailed`: the key stored for an application has, in
  every interpretation of the asserted equalities, the values of its arguments.
  A key may be stale, its roots absorbed since; it is still true, so a hit is a
  sound merge.
- for completeness, `AssertedAreMerged` and `QuietPassFound`: as long as a pass has
  merged nothing, each visited application is in the class of one that is in the
  map under its current signature. A whole pass without a merge therefore leaves
  equal signatures equal (`ClosureIsCongruent`), the classes themselves are an
  interpretation of the literals (`ClassesAreAModel`), and a term pair that is not
  merged is told apart by it.
- `ConflictsFollowLookups`, a second invariant on top: there is a clause iff one of the
  denied equalities looked up so far was derived.

Its second part proves `ProofForest` and `ConflictsAreRefutations` for the same call. What edges
connect is defined without walks: two terms are connected if no set of terms that holds
one and not the other is left by no edge. In a forest the edges whose single removal separates two connected terms
connect them (`PathConnects`): a component that holds one end of such a path could be left only by an edge
of the path. Two invariants are added:

- `Forest`: the edges connect what is merged (`SpanningForest`), each edge is a bridge, the arguments of
  a congruence edge are connected by older edges (`ReasonsAreOlder`), which needs `SignaturesAreRooted`: a signature
  in the map names terms that are still in the classes of the arguments, however often the classes were merged since.
- `Explanation`: while a conflict is explained, each pair in `expanded` has the reasons of its path among the
  literals, or the arguments of its congruences on one of the two lists.

When `todo` is empty, every expanded pair is equal in each interpretation of the collected literals. The
pairs may wait for each other in a circle in `expanded`, which is a set; the induction goes over the
age of the edges instead (`ExplainedAreEqual`): the arguments of an edge are connected by older ones. So the
visited set never loses a reason.

`SatPortfolioProofs` proves, for every finite set of lemmas, every set of assignments, CNF and round
limit, type correctness, `UnsupportedNeedsFault`, `RoundsAreProductive` and `ImplementsDecision`: the
initial states map to initial states of `Decision` and every step to an answer or
a stutter. The invariant says that the completed CNF is equisatisfiable with the
base, that learned clauses are loaded, and that without a fault the candidate
satisfies what the solver holds. For `RoundsAreProductive` a second invariant, `RoundInv`, says that what a loop starts with stays loaded and that it has
had at most one round more than it has learned lemmas: the candidate satisfies what is loaded and falsifies its conflicts, so that they are new. That
the lemmas are finitely many is a conjunct of `PortfolioAssumption`; the code makes them over finitely many variables.

Assumptions: `ArenaAssumption` and `TheoryAssumption` (types of the arena and of the atom
tables), `PortfolioAssumption` (in particular that lemmas exclude no consistent
assignment) and `CandidateAssumption`. TLC evaluates them in the runs. Two more are in the
initial states of `SatPortfolio` and in `AnswerUnsat`: Ackermann completion preserves
satisfiability, and a backend that answers unsat is right. The solver's code
has the same trust: it checks models and does not check refutations (that is what
the certificates are for).

`DpllProofs` proves, for every arena, atom table, list of clauses and node limit, type
correctness, `NoSolutionIsLost`, `PropagationIsComplete` and `ImplementsDecision`. Its invariant adds to them

- `RunningInv`: a clause that is false or unit is still to be looked at, or has a variable that is
  (`Watched`), and a theory that nobody has woken since has nothing to say (`TheoryIsDone`). It
  must survive a unit or a branch on a variable that is no atom, for which the code does not wake the
  theory, and the theory's own propagation, after which the code does not ask again: what
  it has derived has no further consequences (`ImpliedIsClosed`).
- `CallersInv`: every caller that waits has a complete assignment, as `search` branches only then.
- `SolutionInv`: a solution that agrees with the branch values of the stack agrees with the
  assignment on it; a value that was given up has no solution.

At a leaf the classes of the asserted equalities are an interpretation (`ClassesAreAModel`), so that
the assignment extends to a solution (`LeafIsSolution`): sat is right. Unsat is `SolutionInv` with an empty stack.

`LockedCampaignProofs` proves, for every set of runners and artifacts, every schedule and any number of
kills, power losses and replacements, type correctness, `JournalLoads`, `PublishedIsTheJournal`,
`Immutable` and `DriftIsCaught`. The invariant `Inv` says that there is one holder of the lock at most, that its copy of the
journal is the journal, that what it has prepared fits the end of it (`Prepared`), and that the
summary's directory entry is not older than the raw output's (`RenamesInOrder`). For drift,
`DriftInv` says that stamps only grow, so that an artifact which a runner sees replaced stays so, that a
run with other bytes leaves its runner with an artifact it sees replaced, and that such a run is the last of
its invocation with these artifacts. What is collected from a journal is a recursive function; that it exists
and what it yields is proved by induction on the length.

`UnionFindProofs` proves, for every set of fewer than 2^256 terms, `RankDiscipline` and
`ImplementsPartition`. Here `RankDiscipline` is inductive: a root that gains a rank has a class that has
doubled. Roots and paths are recursive functions up the parents; that they exist is proved by
induction on the distance of a rank from the largest, and that a compression changes no root by
uniqueness of that function (`RootsUnique`).

`QuotientSearchProofs` proves, for every set of problems and every caps, type correctness, `StateIsOfThePath`,
`OutcomeIsRight` and `ForgeriesAreRefused`. The search and the audit find their classes and values in
different orders, the one incrementally with rollbacks, the other from nothing, so that no step of the one is a step of the other.
They are compared through `Closed`: classes and values that need no further step under the assumptions of a path.

- The audit comes to a conflict only if nothing is closed; otherwise its result is closed, and everything
  closed refines it (`AuditIsRight`, over both loops, with the bounds on their turns).
- A state of the search obeys the assumptions of its path and holds nothing but what everything closed obeys (`StateIsRight`). Each rule of
  propagation keeps this. Where none applies any more the state is closed itself (`FixpointIsClosed`), so it has the
  classes and values of the audit (`RestIsAudited`) and decides the same (`SameChoice`); where it is in
  conflict nothing is closed, and so is the audit.
- The values of a model are closed (`ModelIsClosed`), and one branch of every decision holds in the model
  (`BranchFacts`). `CheckerIsSound` follows by induction over the depth:
  the model would lead down a branch at every split, and no leaf holds for it. It is about any tree, whatever made it.

The invariant `SearchInv` joins to this what the rollbacks and the way back need. Each entry of the trail undoes the
change that was made with it (`Pushed`), so what comes after a snapshot cannot be seen through it (`RollbackPushed`,
`RollbackSeparated`): a rollback to a frame gives back the state in which it decided (`FramesAreRight`). And there is a set of
nodes, no more than the certificate has been charged for, in which each holds and those below it are
in it too, which has all the refutations recorded by the frames (`RefutedAre`). At the root it is the whole certificate. That no
abstention is "internal" is the part where these meet: the certificate that the search makes passes its own checker,
the model it finds passes the witness check, and the tables do not clash.

The assumption is `SearchAssumption`, the types of problems and caps; that a problem is well formed is what
`Valid` (`FiniteEufProblem::validate`) finds out at run time, and nothing is assumed of the search before it.

`NumberInduction` states induction over the natural numbers with sets in the place of predicates, by way of well-founded orders;
the five modules whose proofs go by induction use it.

`CnfProofs` proves four parts of the CNF construction. For the flat store, `PushAppends`: a clause that fits is
appended, the clauses before it are read as before, and the conversion of the end offset to u32 wraps
nothing. For the fill of any finite graph under any limit, `FillIsOrderly`, with the invariant
`FillInv`, and `TrianglesDecide`: when the queue is empty, every choice of true edges that satisfies the triangles
is the equality of some classes. It is the reason why the code adds no lemma over longer cycles.
The part of the invariant that carries it is `Extends`: classes of the active vertices that agree with
the choice extend to classes of all vertices. At first all vertices with an edge are active; an elimination
takes one away, which then joins the class of the neighbours that it is equal to. They are in one class, as
the elimination has joined them. In the end no vertex is active, and the
empty partition extends. Both are theorems about `FillSpec`, the fill on its own. In
`CnfConstruction` the variables of the fill take the steps of `FillSpec`, over the graph of the equality
variables of the CNF.

For the lemmas, of any arena and any table of atoms: the clauses of transitivity hold under every
assignment of values to terms (`TransitivityIsValid`), those of congruence in every structure, in either mode
(`CongruenceIsValid`), so that neither excludes a model; and over a finished fill whose edges have atoms,
whatever satisfies the clauses of transitivity is the equality of some classes (`TransitivityDecides`, with
`TrianglesDecide` as it is proved of the fill). The congruence clauses are not complete, by design:
candidates over the limit are skipped, and refinement finds what they miss.

For the encodings: the clauses of a conjunction or disjunction of any number of children, of an equivalence
and of an if-then-else hold exactly when the literal has the value of the operator (`AndIsEquivalent` and its
three companions; both directions, which one-sided clauses would not give). The operations by which all
passes change a CNF keep it well formed (`IsProblem`: the store reads back what was pushed, every atom is
normalized and has one variable): `AddClauseKeepsProblem`, `AtomLitKeepsProblem` and the lemmas for a new variable and the
constants. These are the steps of an induction over a formula that the prover cannot make: `EncodeExpr` is
recursive. That it visits every child, and that the whole has the models of the assertions, stays with TLC.

For the equality abstraction, `EvaluationIsSound`: over every set of nodes that holds their children, every finite set
of terms and every structure, the evaluation keeps four things. Each memoised value is a partition of the terms, and
holds in the structure if the node has the polarity that the value is for (`MemoIsRight`). An expanded frame on the top
has all its dependencies in the memo, so `memo_value` never panics (`DependenciesAreKnown`). If all
assertions hold, the conclusion is feasible and its star edges hold (`ConclusionIsRight`): a problem
called infeasible has no model, and no fact excludes one. And the star edges hold exactly if the classes share
their values (`EdgesSayTheClasses`). The invariant is `EvaluationInv`; the part that carries it is
`StackIsOrdered`, that what an expanded frame depends on is in the memo or in a frame above it. It is needed since one
node may wait on the stack several times: a frame whose value is known when its turn comes is dropped, and
those below still find it. The step of `compute` is the lemma `ComputedFacts`, one case per operator, over the meet
(`MergedShares`: closed sets that do not tell apart what a structure makes equal), the join (`JoinedShares`)
and the list of dependencies (`DependencyFacts`, four entries per child of an equivalence). The hypotheses
`NodesOver` and `IsValuation` say what a node is and what its truth value is; those of the nodes of an expression,
with the values that `Value` of `Formula` gives them, satisfy both. That the interner gives nodes with the
meaning of the assertions is recursive, and stays with TLC, as does the integration of the facts.

The assumptions are again those on the constants: `CampaignAssumption` (numbers and the schedule; a
missing file is no sequence of records, a missing record no record), the arena's, that of the quotient search, and for the union-find `Small`, a hypothesis of its
theorems.

Only model-checked is what is said about the front end, the CNF as a whole (`CnfIsWellFormed`, `NothingIsLost`,
`NothingIsAdded`, `CompletionDecides`, `ArmsAgree`), the Ackermann expansion, the domain axioms, the interner of the equality abstraction and the integration of its facts, the bounded CSP search (`PruningIsExact`) and the DAG projection: their operators
recurse over formulas, trees and tables, which the prover cannot follow. Out of its
reach are also the liveness properties (`Returns`, `Answers`, `Resumes`), which rest on fairness and
`ENABLED`, and what a recursive definition computes for every formula.

## Findings

`campaign_resumed`: `run_campaign` journals a finished job (`run_locked_campaign.py`
1929) before it looks at the artifacts again. If a solver binary was replaced
between the check (1918) and the exec, the record says `solver_sha256` of the lock
though other bytes ran. The next check aborts the invocation, but the record is
durable; when the artifact is put back a resume accepts it and publishes it. The
documentation says that campaign locks bind every input and solver binary
(`research-vault/06-results/2026-07-12-p0-foundation.md:25`). `DriftIsCaught` states
what does hold: no second run in the same invocation, and no publication by it.

`frontend_unsupported`: `parse_command` records a command that it does not know
in `unsupported` (796), and `solve_problem` decides to search by looking at
`bool_problem.unsupported` alone (6142). A script with `push` and `pop` is answered as if they
were not there. `MEMORY.md:22` says that unsupported syntax is reported rather than approximated. The other
commands of the kind (`define-fun` with arguments, `declare-datatypes`, ...) take the same way.

`frontend_preprocess`: the preprocessor for disjunctions runs the older collector over an
assertion that has been read already, and passes its errors on (674). The collector
cannot read a Boolean bound by `let`, so the script is rejected, though the same assertion next to a second one is read.
`JOURNAL.md:21` calls the preprocessor safe.

One more, without a text that promises otherwise: `ChannelTables` of `FiniteDomain` reaches
`pc = "panicked"`. A term f(t) that the assertions cover itself, while t ranges over no domain,
makes the pass index `membership` with a pair it has no variable for (3508). The runs
pass over these states: the properties speak of what the pass returns.

## Not modelled, and the plan

Not modelled: printing and JSON layout, timing and resource
accounting, the SAT backends' search, certificates and the shadow campaign, the table
diagrams, Hall certificates and other telemetry modules, campaign preparation and analysis.
An orphaned solver child after a SIGKILL of the runner is not modelled: it disturbs
measured times, which are abstracted. A crash of the shadow campaign between the
directory of an attempt and its record blocks every resume; it needs the module that is planned first below.

Plan, in order:

1. done: the union-find, the theory call and the portfolio with proofs, `Dpll`, the front
   end, the CNF and its lemmas, finite domains, equality facts, the three larger research modules, `LockedCampaign`.
2. done: proofs of the union-find, the DPLL(T) search and the campaign runner.
3. `ShadowCampaign`: attempt directories against the journal, summaries that lag.
4. certificate emission and the independent checker.
5. the forbidden-table diagrams (`forbidden_table_mdd.rs`, `forbidden_table_mvdd.rs`) against
   the set of tables they stand for.
6. done: proofs of the reasons and the conflict clauses, of the refinement rounds, of the fill, the clause store, the eager lemmas and the Tseitin clauses.
7. done: proofs of the quotient search, its answers and its certificates, and of the evaluation of the equality abstraction.
8. proofs: the domain axioms and the encoder, once their recursion over formulas is written as functions on a
   numbered list of subformulas.
