------------------------------- MODULE FileUpload -------------------------------
(***************************************************************************)
(* Uploads of one file: HttpPostFileRequest of request/postfilerequest.h,  *)
(* used by RequestManager::post_file.                                      *)
(*                                                                         *)
(* The main thread opens the file and takes its size; later a worker reads *)
(* it, in pieces of the size libcurl asks for, while others may change the *)
(* file. exists and file are changed by those others: file has the         *)
(* positions that hold what they should, a position below its end that is  *)
(* missing holds zeros. The stream buffers, so that it may have fetched    *)
(* more than it has given.                                                 *)
(***************************************************************************)
EXTENDS Integers

CONSTANTS
    Uploads,
    Size            \* of the file

VARIABLES
    exists, file,   \* the file
    stage,          \* "new", "queued", "performing", "called" or "closed"
    told,           \* the final callback: "none", "success" or "failed"
    m_file,         \* the stream: "none", "open", "ended" (at its end) or "closed"
    m_filesize,     \* as it was when the file was opened
    m_uploadsize,   \* what libcurl has been given
    fetched,        \* up to where the stream has read
    zeros           \* the positions that were missing when they were fetched

vars == <<stage, told, m_file, m_filesize, m_uploadsize, fetched, zeros>>

Init ==
    /\ stage = [u \in Uploads |-> "new"]
    /\ told = [u \in Uploads |-> "none"]
    /\ m_file = [u \in Uploads |-> "none"]
    /\ m_filesize = [u \in Uploads |-> 0]
    /\ m_uploadsize = [u \in Uploads |-> 0]
    /\ fetched = [u \in Uploads |-> 0]
    /\ zeros = [u \in Uploads |-> {}]

-------------------------------------------------------------------------------
(* the file ends behind the last position anybody has written *)
EndsAt(n) == (\A p \in file : p < n) /\ (n > 0 => n - 1 \in file)

(* set_filepath in the main thread, and the commit *)
set_filepath(u) ==
    /\ stage[u] = "new" /\ exists
    /\ stage' = [stage EXCEPT ![u] = "queued"]
    /\ m_file' = [m_file EXCEPT ![u] = "open"]
    /\ \E n \in 0 .. Size : EndsAt(n) /\ m_filesize' = [m_filesize EXCEPT ![u] = n]
    /\ UNCHANGED <<told, m_uploadsize, fetched, zeros>>

(* the part stays without data, and the request is made nevertheless; also when
   libcurl could not create m_mime *)
OpenFails(u) ==
    /\ stage[u] = "new"
    /\ stage' = [stage EXCEPT ![u] = "queued"]
    /\ UNCHANGED <<told, m_file, m_filesize, m_uploadsize, fetched, zeros>>

Perform(u) ==
    /\ stage[u] = "queued"
    /\ stage' = [stage EXCEPT ![u] = "performing"]
    /\ UNCHANGED <<told, m_file, m_filesize, m_uploadsize, fetched, zeros>>

(* the stream has read the file up to position e *)
Fetch(u, e) ==
    /\ fetched' = [fetched EXCEPT ![u] = e]
    /\ zeros' = [zeros EXCEPT ![u] = @ \cup ((fetched[u] .. e - 1) \ file)]

(* mutant: the end is not noticed *)
StreamAfterNoEnd(u, b, e) == "open"

(* gcount: what is given of b bytes asked for *)
Given(u, b, e) == IF e - m_uploadsize[u] < b THEN e - m_uploadsize[u] ELSE b

(* a short read leaves the stream at its end; one of nothing closes it *)
StreamAfter(u, b, e) ==
    IF e = m_uploadsize[u] THEN "closed" ELSE
    IF e - m_uploadsize[u] < b THEN "ended" ELSE "open"

(* readfunc with a buffer of b: the stream fetches what it needs, or up to the end,
   unless the file has become shorter than what has been fetched *)
readfunc(u, b) ==
    /\ stage[u] = "performing" /\ m_file[u] = "open"
    /\ \E n \in 0 .. Size, e \in fetched[u] .. Size :
          /\ EndsAt(n)
          /\ e <= n \/ e = fetched[u]
          /\ e >= m_uploadsize[u] + b \/ e >= n
          /\ Fetch(u, e)
          /\ m_uploadsize' = [m_uploadsize EXCEPT ![u] = @ + Given(u, b, e)]
          /\ m_file' = [m_file EXCEPT ![u] = StreamAfter(u, b, e)]
    /\ UNCHANGED <<stage, told, m_filesize>>

Called(u, result) ==
    /\ stage' = [stage EXCEPT ![u] = "called"]
    /\ told' = [told EXCEPT ![u] = result]
    /\ UNCHANGED <<m_file, m_filesize, m_uploadsize, fetched, zeros>>

(* libcurl has been given 0, or as much as had been announced *)
Succeed(u) ==
    /\ stage[u] = "performing"
    /\ m_file[u] # "open" \/ m_uploadsize[u] >= m_filesize[u]
    /\ Called(u, "success")

Fail(u) ==
    /\ stage[u] = "performing"
    /\ Called(u, "failed")

(* the destructor, when the request is done or the pool is deleted *)
Close(u) ==
    /\ stage[u] \in {"queued", "called"}
    /\ stage' = [stage EXCEPT ![u] = "closed"]
    /\ m_file' = [m_file EXCEPT ![u] = IF @ = "none" THEN "none" ELSE "closed"]
    /\ UNCHANGED <<told, m_filesize, m_uploadsize, fetched, zeros>>

(* the process is killed *)
Killed ==
    /\ stage' = [u \in Uploads |-> IF stage[u] = "new" THEN "new" ELSE "closed"]
    /\ UNCHANGED <<told, m_file, m_filesize, m_uploadsize, fetched, zeros>>

(* what a worker does with a network that works *)
Onward(u) ==
    \/ Perform(u) \/ Succeed(u) \/ Close(u)
    \/ \E b \in 1 .. Size : readfunc(u, b)

Worker(u) == Onward(u) \/ Fail(u)

-------------------------------------------------------------------------------
TypeOK ==
    /\ stage \in [Uploads -> {"new", "queued", "performing", "called", "closed"}]
    /\ told \in [Uploads -> {"none", "success", "failed"}]
    /\ m_file \in [Uploads -> {"none", "open", "ended", "closed"}]
    /\ m_filesize \in [Uploads -> 0 .. Size]
    /\ m_uploadsize \in [Uploads -> 0 .. Size]
    /\ fetched \in [Uploads -> 0 .. Size]
    /\ zeros \in [Uploads -> SUBSET (0 .. Size - 1)]
===============================================================================
