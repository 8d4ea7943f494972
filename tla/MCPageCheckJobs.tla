-------------------------- MODULE MCPageCheckJobs --------------------------
(* PageCheckJobs on small instances. *)
EXTENDS PageCheckJobs, TLC

\* Processes are interchangeable, and so are jobs.
ProcSymmetry == Permutations(Proc)
JobSymmetry  == Permutations(Job)
=============================================================================
