---------------------------- MODULE MCNetThread ----------------------------
(* NetThread for TLC.  The connectors are interchangeable: no definition   *)
(* chooses among them.                                                     *)
EXTENDS NetThread, TLC

Symmetry == Permutations(Connectors)
=============================================================================
