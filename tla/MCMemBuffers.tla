---------------------------- MODULE MCMemBuffers -----------------------------
(* Instances of MemBuffers for model checking.                             *)
EXTENDS MemBuffers

=============================================================================
