--------------------------- MODULE MCCompileCache ---------------------------
(* CompileCache with two processes and two texts, which are alike.         *)
EXTENDS CompileCache, TLC

Symmetry == Permutations(Procs) \cup Permutations(Texts)

=============================================================================
