---------------------------- MODULE RequestPromise ----------------------------
(***************************************************************************)
(* What the library promises a caller of get, postForm, ... about one      *)
(* HttpCallback (curl_native/src/main/java/.../HttpCallback.java): after   *)
(* the call the answer is owed; then there is one success, or one fail, or *)
(* the request is lost without an answer, and nothing after that.          *)
(***************************************************************************)
CONSTANT Requests

VARIABLE answer     \* what the caller knows of each request

Settled == {"success", "fail", "lost"}

Init == answer = [r \in Requests |-> "unasked"]

Settle(r, from, to) ==
    /\ answer[r] = from
    /\ answer' = [answer EXCEPT ![r] = to]

Ask(r) == Settle(r, "unasked", "owed")

Succeed(r) == Settle(r, "owed", "success")

Fail(r) == Settle(r, "owed", "fail")

(* the closure was refused, was still queued at shutdown, had no curl handle,
   or nobody was listening *)
Lose(r) == Settle(r, "owed", "lost")

(* a shutdown loses every queued request at once *)
LoseAll ==
    \E lost \in SUBSET Requests :
        /\ \A r \in lost : answer[r] = "owed"
        /\ answer' = [r \in Requests |-> IF r \in lost THEN "lost" ELSE answer[r]]

Next ==
    \/ \E r \in Requests : Ask(r) \/ Succeed(r) \/ Fail(r) \/ Lose(r)
    \/ LoseAll

Spec == Init /\ [][Next]_answer
===============================================================================
