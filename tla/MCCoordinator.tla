---------------------------- MODULE MCCoordinator ----------------------------
(* Small instances of Coordinator.                                         *)
EXTENDS Coordinator, TLC

CONSTANTS t1, t2, r1, r2, s1, s2, p1, p2, h1, h2, w1, w2

\* The last step is the irreversible one.
LastIrreversible == [t \in Tasks |-> {NumSteps - 1}]
AllReversible == [t \in Tasks |-> {}]
RuntimeSymmetry == Permutations(Runtimes)
=============================================================================
