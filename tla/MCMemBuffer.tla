----------------------------- MODULE MCMemBuffer -----------------------------
(* Instances of MemBuffer for model checking.                              *)
EXTENDS MemBuffer

=============================================================================
