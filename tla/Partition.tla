----------------------------- MODULE Partition ------------------------------
(***************************************************************************)
(* What a union-find promises its callers: terms are grouped in classes,   *)
(* every class has one of its terms as root, and a union makes one of the  *)
(* two roots the root of both classes.                                     *)
(***************************************************************************)
CONSTANT Term
VARIABLE root

Singletons == root = [t \in Term |-> t]

Same(a, b) == root[a] = root[b]

Absorb(winner, loser) ==
    root' = [t \in Term |-> IF root[t] = loser THEN winner ELSE root[t]]

Join(a, b) ==
    /\ ~Same(a, b)
    /\ Absorb(root[a], root[b]) \/ Absorb(root[b], root[a])

PartitionSpec == Singletons /\ [][\E a, b \in Term : Join(a, b)]_root
=============================================================================
