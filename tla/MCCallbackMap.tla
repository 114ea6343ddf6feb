----------------------------- MODULE MCCallbackMap -----------------------------
(***************************************************************************)
(* Instances of CallbackMap for TLC. Requests are interchangeable.         *)
(***************************************************************************)
EXTENDS CallbackMap, TLC

Symmetry == Permutations(Requests)
===============================================================================
