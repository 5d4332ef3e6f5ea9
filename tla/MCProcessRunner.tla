--------------------------- MODULE MCProcessRunner ----------------------------
(* ProcessRunner with an output of three chunks against a cap of two. *)
EXTENDS ProcessRunner
===============================================================================
