------------------------------- MODULE MCApi -------------------------------
EXTENDS Api, TLC

CONSTANTS w1, w2

(* One goroutine makes two calls, the other one. *)
MCMaxCalls == (w1 :> 2) @@ (w2 :> 1)
============================================================================
