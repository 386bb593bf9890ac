-------------------------- MODULE MCContextRWMutex --------------------------
(***************************************************************************)
(* A handful of goroutines around one gate.                                *)
(***************************************************************************)
EXTENDS ContextRWMutex, TLC

=============================================================================
