---------------------------- MODULE MCTaskBoard ----------------------------
(* Instances of TaskBoard for TLC.                                         *)
EXTENDS TaskBoard, TLC

CONSTANTS t1, t2, p1, p2, p3, w1, w2

(* A task without arguments and one that expects an integer.               *)
MCTask  == {t1, t2}
MCFnSig == t1 :> NULL @@ t2 :> "i"
MCInst  == {p1, p2, p3}
MCWorker == {w1, w2}

Symmetry == Permutations(MCInst) \cup Permutations(MCWorker)
=============================================================================
