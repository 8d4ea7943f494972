---------------------------- MODULE MCEditQueue ----------------------------
(* EditQueue on small instances. *)
EXTENDS EditQueue, TLC

\* Consumers are interchangeable.
Symmetry == Permutations(Consumer)
=============================================================================
