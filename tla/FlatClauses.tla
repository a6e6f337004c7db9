---------------------------- MODULE FlatClauses ----------------------------
(***************************************************************************)
(* FlatClauses: the clauses of a CNF one behind the other in one vector of *)
(* literals, with the offset at which each ends in a vector of u32.        *)
(***************************************************************************)
EXTENDS Integers, Sequences

CONSTANT MaxEndOffset     \* u32::MAX

ASSUME MaxEndOffsetAssumption == MaxEndOffset \in Nat

EmptyStore == [literals |-> <<>>, endOffsets |-> <<0>>]

ClauseCount(store) == Len(store.endOffsets) - 1

(* Faulty: a clause is refused only when the store is full already.        *)
FitsFirstLiteral(store, clause) == Len(store.literals) <= MaxEndOffset

(* checked_end_offset: the last literal must have an offset in u32.        *)
Fits(store, clause) == Len(store.literals) + Len(clause) <= MaxEndOffset

(* The two appends of a clause that fits; the conversion to u32 wraps.     *)
Pushed(store, clause) ==
    [literals |-> store.literals \o clause,
     endOffsets |-> Append(store.endOffsets,
                           (Len(store.literals) + Len(clause)) % (MaxEndOffset + 1))]

(* FlatClauseIter, and the index operator.                                 *)
ClauseAt(store, i) ==
    SubSeq(store.literals, store.endOffsets[i] + 1, store.endOffsets[i + 1])

Clauses(store) == [i \in 1..ClauseCount(store) |-> ClauseAt(store, i)]
=============================================================================
