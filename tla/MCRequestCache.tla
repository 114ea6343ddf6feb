---------------------------- MODULE MCRequestCache ----------------------------
(***************************************************************************)
(* Instances of RequestCache for TLC.                                      *)
(***************************************************************************)
EXTENDS RequestCache, TLC

CONSTANTS r1, r2

(* three requests that compete for the same deque *)
SameKind == [r \in Requests |-> "get"]

(* two that do, and a file, which uses no deque *)
GetsAndFile == [r \in Requests |-> IF r = r1 THEN "post_file" ELSE "get"]

(* a form and a JSON document share one deque *)
PostKinds == [r \in Requests |-> IF r = r2 THEN "post_json" ELSE "post_form"]

HandleSymmetry == Permutations(Handles)
Symmetry == HandleSymmetry \cup Permutations(Requests)
===============================================================================
