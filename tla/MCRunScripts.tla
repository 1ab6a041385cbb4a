---------------------------- MODULE MCRunScripts ----------------------------
(* Symmetry for the runs of RunScripts.                                    *)
EXTENDS RunScripts, TLC

\* Processes and run IDs are told apart by nothing but their state.
ScriptSymmetry == Permutations(Proc) \cup Permutations(Run)
=============================================================================
