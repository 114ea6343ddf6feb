----------------------------- MODULE TaskExecutor -----------------------------
(***************************************************************************)
(* What stdx::ThreadPool promises its users, without threads, locks or     *)
(* condition variables: a task handed to commit is accepted or dropped,    *)
(* an accepted task is started at most once, nothing is accepted or        *)
(* started once the executor is closed, the tasks that are running then    *)
(* are allowed to end, and only after that is the executor terminated; the *)
(* tasks still queued at that moment are dropped without having run.       *)
(***************************************************************************)
CONSTANT Tasks

VARIABLES
    status,     \* what became of each task
    open        \* "open", then "closed", then "terminated"

vars == <<status, open>>

Statuses == {"new", "queued", "running", "done", "dropped"}

Init ==
    /\ status = [t \in Tasks |-> "new"]
    /\ open = "open"

Move(t, from, to) ==
    /\ status[t] = from
    /\ status' = [status EXCEPT ![t] = to]
    /\ UNCHANGED open

(* commit puts the task in the queue; a closed executor never does *)
Submit(t) == open = "open" /\ Move(t, "new", "queued")

(* commit returns without queueing: it saw the quit sign, or it could not
   create the thread it wanted *)
Drop(t) == open # "terminated" /\ Move(t, "new", "dropped")

(* a worker takes the task *)
Start(t) == open = "open" /\ Move(t, "queued", "running")

(* the task has returned or thrown *)
Finish(t) == open # "terminated" /\ Move(t, "running", "done")

Close ==
    /\ open = "open"
    /\ open' = "closed"
    /\ UNCHANGED status

(* the destructor returns: every started task has ended *)
Terminate ==
    /\ open = "closed"
    /\ \A t \in Tasks : status[t] # "running"
    /\ open' = "terminated"
    /\ status' = [t \in Tasks |-> IF status[t] = "queued" THEN "dropped"
                                                          ELSE status[t]]

Next ==
    \/ \E t \in Tasks : Submit(t) \/ Drop(t) \/ Start(t) \/ Finish(t)
    \/ Close
    \/ Terminate

Spec == Init /\ [][Next]_vars

TypeOK ==
    /\ status \in [Tasks -> Statuses]
    /\ open \in {"open", "closed", "terminated"}
===============================================================================
