------------------------- MODULE MCTranslationJobs -------------------------
(* TranslationJobs on small instances. *)
EXTENDS TranslationJobs, TLC

\* Processes, attempts and pollers are interchangeable.
Symmetry == Permutations(Proc) \cup Permutations(Attempt) \cup Permutations(Poller)
=============================================================================
