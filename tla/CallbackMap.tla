------------------------------ MODULE CallbackMap ------------------------------
(***************************************************************************)
(* mCallbackMap of HttpManager.java: the main thread puts callbacks into   *)
(* an android.util.SparseArray while workers look theirs up, without any   *)
(* synchronisation.                                                        *)
(*                                                                         *)
(* A SparseArray keeps sorted keys and their values in two arrays and      *)
(* counts them in mSize. A worker is certain to see the writes that came   *)
(* before its request was committed, through the mutex of the pool, and    *)
(* may or may not see each later one: whatever it reads, a field or an     *)
(* entry, comes from any version since then, and a larger array may show   *)
(* before what was copied into it.                                         *)
(***************************************************************************)
EXTENDS Integers, Sequences, FiniteSets

CONSTANTS
    Requests,
    Null,
    InitialCapacity     \* of the arrays

ASSUME CallbackMapAssumption ==
    /\ InitialCapacity \in Nat \ {0}
    /\ Null \notin Requests

VARIABLES
    caller, current,    \* the main thread, and the request it is at
    gSeq, seq,          \* the counter; the number of each request
    mKeys, mValues, mSize,  \* all versions of the fields, the last one current
    since,              \* the versions a worker is certain to see
    worker,             \* what the worker of each request does
    array,              \* the keys it searches, told by the length of the array
    lo, hi, index,      \* where it searches, and where it has found its number
    got                 \* the callback it got

field == <<mKeys, mValues, mSize>>
search == <<lo, hi, index>>
lookup == <<array, search, got>>
vars == <<caller, current, gSeq, seq, field, since, worker, lookup>>

Last(log) == log[Len(log)]

Init ==
    /\ caller = "idle" /\ current = Null
    /\ gSeq = 0 /\ seq = [r \in Requests |-> 0]
    /\ mKeys = <<[entry |-> <<>>, length |-> InitialCapacity]>>
    /\ mValues = <<[entry |-> <<>>, length |-> InitialCapacity]>>
    /\ mSize = <<0>>
    /\ since = [r \in Requests |-> <<1, 1, 1>>]
    /\ worker = [r \in Requests |-> "none"]
    /\ array = [r \in Requests |-> InitialCapacity]
    /\ lo = [r \in Requests |-> 0]
    /\ hi = [r \in Requests |-> -1]
    /\ index = [r \in Requests |-> -1]
    /\ got = [r \in Requests |-> Null]

-------------------------------------------------------------------------------
(* The arrays *)

(* an entry nobody has written is blank *)
Element(a, i, blank) == IF i < Len(a.entry) THEN a.entry[i + 1] ELSE blank

(* GrowingArrayUtils.insert, in place or into a larger array *)
growSize(n) == IF n <= 4 THEN 8 ELSE n * 2

insert(a, size, e, at) ==
    [entry |-> SubSeq(a.entry, 1, at) \o <<e>> \o SubSeq(a.entry, at + 1, size),
     length |-> IF size + 1 <= a.length THEN a.length ELSE growSize(size)]

Position(key) == Cardinality({i \in 1 .. Last(mSize) : Last(mKeys).entry[i] < key})

-------------------------------------------------------------------------------
(* The main thread: RequestManager.get *)

(* mutant: numbers count down *)
CountedDown == gSeq - 1

incrementAndGet == gSeq + 1

Number(r) ==
    /\ caller = "idle"
    /\ seq[r] = 0
    /\ gSeq' = incrementAndGet
    /\ seq' = [seq EXCEPT ![r] = incrementAndGet]
    /\ current' = r
    /\ caller' = "keys"
    /\ UNCHANGED <<field, since, worker, lookup>>

(* SparseArray.put *)
PutKey ==
    /\ caller = "keys"
    /\ mKeys' = Append(mKeys, insert(Last(mKeys), Last(mSize), seq[current],
                                     Position(seq[current])))
    /\ caller' = "values"
    /\ UNCHANGED <<current, gSeq, seq, mValues, mSize, since, worker, lookup>>

PutValue ==
    /\ caller = "values"
    /\ mValues' = Append(mValues, insert(Last(mValues), Last(mSize), current,
                                         Position(seq[current])))
    /\ caller' = "size"
    /\ UNCHANGED <<current, gSeq, seq, mKeys, mSize, since, worker, lookup>>

PutSize ==
    /\ caller = "size"
    /\ mSize' = Append(mSize, Last(mSize) + 1)
    /\ caller' = "commit"
    /\ UNCHANGED <<current, gSeq, seq, mKeys, mValues, since, worker, lookup>>

(* mutant: what the worker sees is not ordered after the registration *)
SeenAtStart == <<1, 1, 1>>

Seen == <<Len(mKeys), Len(mValues), Len(mSize)>>

(* JniCurl.get: the closure is committed through the mutex of the pool *)
Commit ==
    /\ caller = "commit"
    /\ since' = [since EXCEPT ![current] = Seen]
    /\ worker' = [worker EXCEPT ![current] = "keys"]
    /\ caller' = "idle"
    /\ UNCHANGED <<current, gSeq, seq, field, lookup>>

-------------------------------------------------------------------------------
(* A worker in callBack: SparseArray.get *)

At(r, from, to) ==
    /\ worker[r] = from
    /\ worker' = [worker EXCEPT ![r] = to]

GetKeys(r) ==
    /\ At(r, "keys", "size")
    /\ \E v \in since[r][1] .. Len(mKeys) : array' = [array EXCEPT ![r] = mKeys[v].length]
    /\ UNCHANGED <<caller, current, gSeq, seq, field, since, search, got>>

GetSize(r) ==
    /\ At(r, "size", "search")
    /\ \E v \in since[r][3] .. Len(mSize) : hi' = [hi EXCEPT ![r] = mSize[v] - 1]
    /\ lo' = [lo EXCEPT ![r] = 0]
    /\ UNCHANGED <<caller, current, gSeq, seq, field, since, array, index, got>>

(* What may be read at i of the array of this length: an entry of any version since
   `from`, or none yet if the array is newer *)
Visible(log, from, length, i, blank) ==
    {Element(log[v], i, blank) : v \in {w \in from .. Len(log) : log[w].length = length}}
        \cup {b \in {blank} : log[from].length # length}

(* ContainerHelpers.binarySearch, one round of its loop *)
mid(r) == (lo[r] + hi[r]) \div 2

Probed(r, key) ==
    \/ /\ key < seq[r]
       /\ lo' = [lo EXCEPT ![r] = mid(r) + 1]
       /\ UNCHANGED <<hi, index, worker>>
    \/ /\ key > seq[r]
       /\ hi' = [hi EXCEPT ![r] = mid(r) - 1]
       /\ UNCHANGED <<lo, index, worker>>
    \/ /\ key = seq[r]
       /\ index' = [index EXCEPT ![r] = mid(r)]
       /\ worker' = [worker EXCEPT ![r] = "value"]
       /\ UNCHANGED <<lo, hi>>

Probe(r) ==
    /\ worker[r] = "search"
    /\ lo[r] <= hi[r]
    /\ mid(r) < array[r]
    /\ \E key \in Visible(mKeys, since[r][1], array[r], mid(r), 0) : Probed(r, key)
    /\ UNCHANGED <<caller, current, gSeq, seq, field, since, array, got>>

(* no callback, or an ArrayIndexOutOfBoundsException left pending in the worker *)
GetNothing(r) ==
    /\ At(r, "search", "lost")
    /\ lo[r] <= hi[r] => mid(r) >= array[r]
    /\ UNCHANGED <<caller, current, gSeq, seq, field, since, lookup>>

(* callBack tests what it gets against null *)
GetValue(r) ==
    /\ worker[r] = "value"
    /\ \E v \in since[r][2] .. Len(mValues) :
          \E value \in Visible(mValues, since[r][2], mValues[v].length, index[r], Null) :
             /\ got' = [got EXCEPT ![r] = value]
             /\ worker' = [worker EXCEPT ![r] = IF value = Null THEN "lost" ELSE "called"]
    /\ UNCHANGED <<caller, current, gSeq, seq, field, since, array, search>>

Worker(r) == GetKeys(r) \/ GetSize(r) \/ Probe(r) \/ GetNothing(r) \/ GetValue(r)

Terminated ==
    /\ caller = "idle"
    /\ \A r \in Requests : worker[r] \in {"called", "lost"}
    /\ UNCHANGED vars

Next ==
    \/ PutKey \/ PutValue \/ PutSize \/ Commit
    \/ \E r \in Requests : Number(r) \/ Worker(r)
    \/ Terminated

Spec == Init /\ [][Next]_vars

-------------------------------------------------------------------------------
(* Types: the keys are numbers, the values requests; hi is -1 for an empty array. *)
Arrays(S) == [entry : Seq(S), length : Nat]

TypeOK ==
    /\ caller \in {"idle", "keys", "values", "size", "commit"}
    /\ current \in Requests \cup {Null}
    /\ gSeq \in Nat
    /\ seq \in [Requests -> Nat]
    /\ mKeys \in Seq(Arrays(Nat))
    /\ mValues \in Seq(Arrays(Requests))
    /\ mSize \in Seq(Nat)
    /\ since \in [Requests -> Nat \X Nat \X Nat]
    /\ worker \in [Requests -> {"none", "keys", "size", "search", "value", "called", "lost"}]
    /\ array \in [Requests -> Nat]
    /\ lo \in [Requests -> Nat]
    /\ hi \in [Requests -> Nat \cup {-1}]
    /\ index \in [Requests -> Nat \cup {-1}]
    /\ got \in [Requests -> Requests \cup {Null}]

(* A worker never gets the callback of another request, whatever versions of the
   three fields and of their entries it combines: numbers increase, so nothing put
   later moves what is there, and what is found belongs to the number that was
   looked for. *)
NeverAnothers == \A r \in Requests : worker[r] = "called" => got[r] = r

(* The requests registered after r *)
Later(r) == {q \in Requests : seq[q] > seq[r]}

(* The array r was registered in is full and has been replaced by a larger one *)
Replaced(r) == Last(mKeys).length # mKeys[since[r][1]].length

(* The answer of r is lost only if at least two requests have been registered in
   the meantime, or the arrays have been replaced: one more entry in the same
   arrays, seen or not, is never probed by the search for an earlier one. *)
LostOnlyAmongMany ==
    \A r \in Requests :
        worker[r] = "lost" => Cardinality(Later(r)) >= 2 \/ Replaced(r)
===============================================================================
