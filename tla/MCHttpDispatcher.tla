-------------------------- MODULE MCHttpDispatcher --------------------------
(***************************************************************************)
(* The instance of HttpDispatcher for TLC: three pipelined requests let    *)
(* two answers of the pool race each other and a rejection.                *)
(***************************************************************************)
EXTENDS HttpDispatcher

=============================================================================
