------------------------------- MODULE SharedFile -------------------------------
(***************************************************************************)
(* What the writers of one file promise, when each opens the file by       *)
(* truncating it and then writes the same contents from its beginning      *)
(* through a descriptor of its own: whoever opened the file last           *)
(* determines whether it is whole in the end.                              *)
(***************************************************************************)
EXTENDS Integers

CONSTANTS
    Writers,
    Size            \* of the contents

VARIABLES
    file,           \* the positions that hold what they should
    at,             \* for each writer: up to where it has written
    writing,        \* the writers that have the file open
    last            \* the writer that opened it last, as a set of at most one

vars == <<file, at, writing, last>>

Init ==
    /\ file = {}
    /\ at = [w \in Writers |-> 0]
    /\ writing = {}
    /\ last = {}

Open(w) ==
    /\ w \notin writing
    /\ file' = {}
    /\ at' = [at EXCEPT ![w] = 0]
    /\ writing' = writing \cup {w}
    /\ last' = {w}

Write(w, n) ==
    /\ w \in writing
    /\ at[w] <= n
    /\ file' = file \cup at[w] .. n - 1
    /\ at' = [at EXCEPT ![w] = n]
    /\ UNCHANGED <<writing, last>>

(* the last bytes may be written as the file is closed, or never *)
Close(w, n) ==
    /\ w \in writing
    /\ at[w] <= n
    /\ file' = file \cup at[w] .. n - 1
    /\ at' = [at EXCEPT ![w] = n]
    /\ writing' = writing \ {w}
    /\ UNCHANGED last

(* the process of some writers ends *)
Abandon(W) ==
    /\ writing' = writing \ W
    /\ UNCHANGED <<file, at, last>>

Next ==
    \/ \E w \in Writers : Open(w)
    \/ \E w \in Writers, n \in 0 .. Size : Write(w, n) \/ Close(w, n)
    \/ \E W \in SUBSET Writers : Abandon(W)

Spec == Init /\ [][Next]_vars
===============================================================================
