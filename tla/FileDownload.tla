------------------------------ MODULE FileDownload ------------------------------
(***************************************************************************)
(* Downloads into a file: HttpGetDownloadRequest of                        *)
(* request/downloadrequest.h, used by RequestManager::download.            *)
(*                                                                         *)
(* All downloads have the same path and the same resource, as the button   *)
(* of the application has: the main thread opens the file with each        *)
(* request, workers write to it while others open it again, and it is      *)
(* closed when the request object is destroyed, after the callback. The    *)
(* stream buffers, so that what has been written may not be on the disk;   *)
(* the disk and the network are external and may fail.                     *)
(***************************************************************************)
EXTENDS Integers

CONSTANTS
    Downloads,
    Size,           \* of the decoded body
    Announced,      \* values of its Content-Length; Unknown without one
    SizeBits        \* of size_t: 32 or 64, as the ABI has it

Unknown == -1

ASSUME FileDownloadAssumption ==
    /\ Size \in Nat
    /\ Announced \subseteq Nat \cup {Unknown}
    /\ SizeBits \in {32, 64}

VARIABLES
    stage,          \* "new", "queued", "performing", "called" or "closed"
    told,           \* the final callback: "none", "success" or "failed"
    m_file,         \* the stream: "none", "good", "bad" (open, failed) or "closed"
    m_file_len,     \* what the stream has been given
    flushed,        \* up to where the stream has written to the disk
    cl,             \* CURLINFO_CONTENT_LENGTH_DOWNLOAD_T
    progress,       \* m_file_len at the last progress callback, 0 before
    file,           \* the bytes of the resource that are in the file
    last,           \* the download that opened the file last, in a set
    badSince        \* history: m_file_len when the stream went bad

vars == <<stage, told, m_file, m_file_len, flushed, cl, progress, file, last, badSince>>

Never == -1

Init ==
    /\ stage = [d \in Downloads |-> "new"]
    /\ told = [d \in Downloads |-> "none"]
    /\ m_file = [d \in Downloads |-> "none"]
    /\ m_file_len = [d \in Downloads |-> 0]
    /\ flushed = [d \in Downloads |-> 0]
    /\ cl = [d \in Downloads |-> Unknown]
    /\ progress = [d \in Downloads |-> 0]
    /\ file = {}
    /\ last = {}
    /\ badSince = [d \in Downloads |-> Never]

-------------------------------------------------------------------------------
(* mutant: a byte is lost between two writes *)
FlushLess(d, k) ==
    /\ file' = file \cup flushed[d] + 1 .. k - 1
    /\ flushed' = [flushed EXCEPT ![d] = k]

(* The stream writes what it has been given to the disk up to position k. *)
Flush(d, k) ==
    /\ file' = file \cup flushed[d] .. k - 1
    /\ flushed' = [flushed EXCEPT ![d] = k]

(* the disk fails the stream that has been given n bytes *)
DiskFails(d, n) ==
    badSince' = IF badSince[d] = Never THEN [badSince EXCEPT ![d] = n] ELSE badSince

(* set_download_filepath, in the main thread, and the commit *)
Open(d) ==
    /\ stage[d] = "new"
    /\ stage' = [stage EXCEPT ![d] = "queued"]
    /\ m_file' = [m_file EXCEPT ![d] = "good"]
    /\ file' = {}
    /\ last' = {d}
    /\ UNCHANGED <<told, m_file_len, flushed, cl, progress, badSince>>

OpenFails(d) ==
    /\ stage[d] = "new"
    /\ stage' = [stage EXCEPT ![d] = "queued"]
    /\ DiskFails(d, 0)
    /\ UNCHANGED <<told, m_file, m_file_len, flushed, cl, progress, file, last>>

(* the response has begun *)
Perform(d) ==
    /\ stage[d] = "queued"
    /\ stage' = [stage EXCEPT ![d] = "performing"]
    /\ \E n \in Announced : cl' = [cl EXCEPT ![d] = n]
    /\ UNCHANGED <<told, m_file, m_file_len, flushed, progress, file, last, badSince>>

(* mutants: the state of the stream is not looked at; a piece that is the whole body
   is not reported *)
WritableAlways(d) == TRUE
AtMostLess(n, c) == n < c

Writable(d) == m_file[d] = "good"

(* n <= c for a size_t and a curl_off_t, which is as wide as the size_t or wider: the
   usual conversions make both unsigned or both signed *)
AtMost(n, c) == IF c < 0 THEN SizeBits = 64 ELSE n <= c

Counted(d, n) == m_file_len[d] + n

(* write_file_callback with n bytes; a failing write is not looked at *)
Write(d, n) ==
    /\ stage[d] = "performing" /\ Writable(d)
    /\ m_file_len[d] + n <= Size
    /\ m_file_len' = [m_file_len EXCEPT ![d] = Counted(d, n)]
    /\ \E k \in flushed[d] .. m_file_len[d] + n : Flush(d, k)
    /\ \/ UNCHANGED <<m_file, badSince>>
       \/ m_file' = [m_file EXCEPT ![d] = "bad"] /\ DiskFails(d, m_file_len[d] + n)
    /\ progress' = IF AtMost(n, cl[d]) THEN [progress EXCEPT ![d] = m_file_len'[d]]
                                       ELSE progress
    /\ UNCHANGED <<stage, told, cl, last>>

Called(d, result) ==
    /\ stage' = [stage EXCEPT ![d] = "called"]
    /\ told' = [told EXCEPT ![d] = result]
    /\ UNCHANGED <<m_file, m_file_len, flushed, cl, progress, file, last, badSince>>

(* it returns 0, which makes libcurl give up *)
Refuse(d) ==
    /\ stage[d] = "performing" /\ ~Writable(d)
    /\ m_file_len[d] < Size
    /\ Called(d, "failed")

Fail(d) ==
    /\ stage[d] = "performing"
    /\ Called(d, "failed")

Succeed(d) ==
    /\ stage[d] = "performing"
    /\ m_file_len[d] = Size
    /\ Called(d, "success")

(* mutant: the file is closed after a success only *)
ClosingSuccess(d) == stage[d] = "called" /\ told[d] = "success"

Closing(d) == stage[d] = "called"

(* the destructor: closefile writes the rest, unless the disk fails *)
Close(d) ==
    /\ Closing(d)
    /\ stage' = [stage EXCEPT ![d] = "closed"]
    /\ m_file' = [m_file EXCEPT ![d] = "closed"]
    /\ \/ m_file[d] = "good" /\ Flush(d, m_file_len[d]) /\ UNCHANGED badSince
       \/ m_file[d] # "none" /\ DiskFails(d, m_file_len[d])
          /\ \E k \in flushed[d] .. m_file_len[d] : Flush(d, k)
       \/ m_file[d] = "none" /\ UNCHANGED <<file, flushed, badSince>>
    /\ UNCHANGED <<told, m_file_len, cl, progress, last>>

(* the pool is deleted with the closure in its queue *)
Drop(d) ==
    /\ stage[d] = "queued"
    /\ stage' = [stage EXCEPT ![d] = "closed"]
    /\ m_file' = [m_file EXCEPT ![d] = "closed"]
    /\ UNCHANGED <<told, m_file_len, flushed, cl, progress, file, last, badSince>>

Main(d) == Open(d) \/ OpenFails(d) \/ Drop(d)

Worker(d) ==
    \/ Perform(d) \/ Refuse(d) \/ Fail(d) \/ Succeed(d) \/ Close(d)
    \/ \E n \in 1 .. Size : Write(d, n)

Next == \E d \in Downloads : Main(d) \/ Worker(d)

Spec == Init /\ [][Next]_vars

(* a worker goes on, and takes what is queued *)
FairSpec == Spec /\ \A d \in Downloads : WF_vars(Worker(d))

-------------------------------------------------------------------------------
TypeOK ==
    /\ stage \in [Downloads -> {"new", "queued", "performing", "called", "closed"}]
    /\ told \in [Downloads -> {"none", "success", "failed"}]
    /\ m_file \in [Downloads -> {"none", "good", "bad", "closed"}]
    /\ m_file_len \in [Downloads -> 0 .. Size]
    /\ flushed \in [Downloads -> 0 .. Size]
    /\ cl \in [Downloads -> Nat \cup {Unknown}]
    /\ progress \in [Downloads -> 0 .. Size]
    /\ file \subseteq 0 .. Size - 1
    /\ last \subseteq Downloads
    /\ badSince \in [Downloads -> 0 .. Size \cup {Never}]

(* If the download that opened the file last has been closed after a success, and
   the disk has not failed it, then the file is whole, whatever the other downloads
   into it have done and still do. *)
LastIsWhole ==
    \A d \in last :
        stage[d] = "closed" /\ told[d] = "success" /\ badSince[d] = Never
            => file = 0 .. Size - 1

(* A success is called back in spite of a disk that failed only if it failed the last
   bytes: a failure before them is noticed by the next piece, and a file that cannot
   be opened by the first one. *)
NoticedInTime ==
    \A d \in Downloads : told[d] = "success" => badSince[d] \in {Never, Size}

(* A download of a length that is known reports the whole of it before its success. *)
FullBeforeSuccess ==
    \A d \in Downloads :
        told[d] = "success" /\ cl[d] = Size => progress[d] = Size

(* So much a success means: *)
SuccessMeans == NoticedInTime /\ FullBeforeSuccess

(* The downloads use their file as writers of one file do. *)
HasOpen == {d \in Downloads : m_file[d] \in {"good", "bad"}}
File == INSTANCE SharedFile WITH
          Writers <- Downloads, at <- flushed, writing <- HasOpen
KeepsFile == File!Spec

(* A download that has opened its file closes it. *)
FileIsClosed == \A d \in Downloads : stage[d] = "queued" ~> stage[d] = "closed"
===============================================================================
