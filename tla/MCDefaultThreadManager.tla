---------------------- MODULE MCDefaultThreadManager ----------------------
(* Calls and owners are interchangeable: they differ only in what they are *)
(* seen to do.  The symmetry is used in the runs of safety properties.     *)
EXTENDS DefaultThreadManager, TLC

Symmetry == Permutations(Tasks) \cup Permutations(Owners)
=============================================================================
