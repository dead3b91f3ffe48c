---------------------------- MODULE MCClientSync ----------------------------
(* Model-checking instance of ClientSync. *)
EXTENDS ClientSync, TLC

CONSTANTS m1, m2, other

\* Two messages for this device; the first also has a copy for another one.
SomeCopies == {<<m1, Local>>, <<m1, other>>, <<m2, Local>>}

WorkerSymmetry == Permutations(Workers)
=============================================================================
