---------------------------- MODULE MCHttpServer ----------------------------
(***************************************************************************)
(* Instances of HttpServer for TLC, and the properties they check.         *)
(***************************************************************************)
EXTENDS HttpServer, TLC

Symmetry == Permutations(Conns) \cup Permutations(Timers)
=============================================================================
