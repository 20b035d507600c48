----------------------------- MODULE MCCompiled -----------------------------
(* Small programs, compiled and executed. *)
EXTENDS Compiled, MCPrograms

MCIntMin == -8
None == {}
=============================================================================
