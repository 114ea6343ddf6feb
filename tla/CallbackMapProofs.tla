--------------------------- MODULE CallbackMapProofs ---------------------------
(***************************************************************************)
(* The safety properties of CallbackMap, for any number of requests and    *)
(* any initial capacity.                                                   *)
(***************************************************************************)
EXTENDS CallbackMap, FiniteSetTheorems, SequenceTheorems, TLAPS

(* The requests are numbered 1 .. gSeq. *)
NumberInv ==
    /\ \A r \in Requests : seq[r] <= gSeq
    /\ \A r, q \in Requests : seq[r] = seq[q] /\ seq[r] # 0 => r = q
    /\ \A i \in 1 .. gSeq : \E r \in Requests : seq[r] = i

(* How many versions there are, by where the main thread is. *)
PhaseInv ==
    /\ Len(mKeys) = IF caller = "keys" THEN gSeq ELSE gSeq + 1
    /\ Len(mValues) = IF caller \in {"keys", "values"} THEN gSeq ELSE gSeq + 1
    /\ Len(mSize) = IF caller \in {"keys", "values", "size"} THEN gSeq ELSE gSeq + 1
    /\ caller # "idle" =>
         current \in Requests /\ seq[current] = gSeq /\ gSeq >= 1 /\ worker[current] = "none"

(* The version v has v - 1 entries, in the order of their numbers. *)
KeysInv ==
    \A v \in 1 .. Len(mKeys) :
        Len(mKeys[v].entry) = v - 1 /\ \A i \in 1 .. v - 1 : mKeys[v].entry[i] = i

ValuesInv ==
    \A v \in 1 .. Len(mValues) :
        Len(mValues[v].entry) = v - 1 /\ \A i \in 1 .. v - 1 : seq[mValues[v].entry[i]] = i

SizeInv == \A v \in 1 .. Len(mSize) : mSize[v] = v - 1

(* An array holds its entries and is replaced only by a larger one; the arrays of the
   values are as long as those of the keys. *)
NextLength(length, n) == IF n + 1 <= length THEN length ELSE growSize(n)

LengthInv ==
    /\ \A v \in 1 .. Len(mKeys) : mKeys[v].length >= v - 1
    /\ \A v \in 1 .. Len(mKeys) - 1 :
         mKeys[v + 1].length = NextLength(mKeys[v].length, v - 1)
    /\ \A v, w \in 1 .. Len(mKeys) : v <= w => mKeys[v].length <= mKeys[w].length
    /\ \A v \in 1 .. Len(mValues) : mValues[v].length = mKeys[v].length

(* A worker is certain to see its own entry. *)
SinceInv ==
    \A r \in Requests :
        worker[r] # "none" =>
            /\ seq[r] >= 1
            /\ since[r] = <<seq[r] + 1, seq[r] + 1, seq[r] + 1>>
            /\ seq[r] < Len(mKeys) /\ seq[r] < Len(mValues) /\ seq[r] < Len(mSize)

(* At most one request has been registered since r, in the same arrays. *)
Near(r) == gSeq <= seq[r] + 1 /\ ~ Replaced(r)

(* What a search knows. *)
SearchInv ==
    \A r \in Requests :
        /\ worker[r] \in {"size", "search"} =>
             \E v \in since[r][1] .. Len(mKeys) : array[r] = mKeys[v].length
        /\ worker[r] = "search" /\ Near(r) =>
             lo[r] <= seq[r] - 1 /\ seq[r] - 1 <= hi[r] /\ hi[r] <= seq[r]
        /\ worker[r] = "value" => index[r] = seq[r] - 1

(* Who has lost its callback has not been near. *)
LostInv == \A r \in Requests : worker[r] = "lost" => ~ Near(r)

IInv ==
    /\ TypeOK /\ NumberInv /\ PhaseInv /\ KeysInv /\ ValuesInv /\ SizeInv
    /\ LengthInv /\ SinceInv /\ SearchInv /\ LostInv /\ NeverAnothers

-------------------------------------------------------------------------------
(* The arrays *)

(* A larger array has room for one more. *)
LEMMA Grown == ASSUME NEW n \in Nat PROVE growSize(n) \in Nat /\ growSize(n) >= n + 1
  BY DEF growSize

(* What is inserted behind the last entry moves none. *)
LEMMA InsertAtEnd ==
    ASSUME NEW S, NEW a \in Arrays(S), NEW n \in Nat, Len(a.entry) = n, NEW e \in S
    PROVE  /\ insert(a, n, e, n) \in Arrays(S)
           /\ Len(insert(a, n, e, n).entry) = n + 1
           /\ insert(a, n, e, n).entry[n + 1] = e
           /\ \A i \in 1 .. n : insert(a, n, e, n).entry[i] = a.entry[i]
           /\ insert(a, n, e, n).length = NextLength(a.length, n)
           /\ insert(a, n, e, n).length >= a.length
           /\ insert(a, n, e, n).length >= n + 1
<1>1. a.entry \in Seq(S) /\ a.length \in Nat
  BY DEF Arrays
<1>2. SubSeq(a.entry, 1, n) = a.entry
  BY <1>1, SubSeqFull
<1>3. SubSeq(a.entry, n + 1, n) = <<>>
  BY <1>1, SubSeqEmpty
<1> DEFINE b == a.entry \o <<e>>
<1>4. b \in Seq(S) /\ Len(b) = n + 1 /\ b[n + 1] = e /\ \A i \in 1 .. n : b[i] = a.entry[i]
  <2>1. <<e>> \in Seq(S) /\ Len(<<e>>) = 1 /\ <<e>>[1] = e
    OBVIOUS
  <2>2. /\ b \in Seq(S) /\ Len(b) = n + 1
        /\ \A i \in 1 .. n + 1 : b[i] = IF i <= n THEN a.entry[i] ELSE <<e>>[i - n]
    BY <1>1, <2>1, ConcatProperties
  <2> HIDE DEF b
  <2>3. QED
    BY <2>1, <2>2
<1>5. b \o <<>> = b
  BY <1>4, ConcatEmptySeq
<1>6. insert(a, n, e, n) =
        [entry |-> b, length |-> IF n + 1 <= a.length THEN a.length ELSE growSize(n)]
  BY <1>2, <1>3, <1>5 DEF insert
<1> HIDE DEF b
<1>7. insert(a, n, e, n).entry = b
  BY <1>6
<1>8. insert(a, n, e, n).length = IF n + 1 <= a.length THEN a.length ELSE growSize(n)
  BY <1>6
<1>9. (IF n + 1 <= a.length THEN a.length ELSE growSize(n)) \in Nat
  BY <1>1, Grown
<1>10. insert(a, n, e, n) \in Arrays(S)
  BY <1>4, <1>6, <1>9 DEF Arrays
<1>11. insert(a, n, e, n).length >= a.length /\ insert(a, n, e, n).length >= n + 1
  <2>1. growSize(n) \in Nat /\ growSize(n) >= n + 1
    BY Grown
  <2>2. CASE n + 1 <= a.length
    BY <1>1, <1>8, <2>2
  <2>3. CASE ~ n + 1 <= a.length
    <3>1. insert(a, n, e, n).length = growSize(n)
      BY <1>8, <2>3
    <3>2. a.length <= n
      BY <1>1, <2>3
    <3>3. QED
      BY <1>1, <2>1, <3>1, <3>2
  <2>4. QED
    BY <2>2, <2>3
<1>12. insert(a, n, e, n).length = NextLength(a.length, n)
  BY <1>8 DEF NextLength
<1>13. QED
  BY <1>4, <1>7, <1>10, <1>11, <1>12

(* A log that is appended to keeps its versions. *)
LEMMA Logged ==
    ASSUME NEW S, NEW log \in Seq(S), NEW e \in S
    PROVE  /\ Append(log, e) \in Seq(S)
           /\ Len(Append(log, e)) = Len(log) + 1
           /\ \A v \in 1 .. Len(log) : Append(log, e)[v] = log[v]
           /\ Append(log, e)[Len(log) + 1] = e
  BY AppendProperties

-------------------------------------------------------------------------------
LEMMA InitInv == Init => IInv
<1> SUFFICES ASSUME Init
             PROVE  IInv
  OBVIOUS
<1>1. /\ mKeys = <<[entry |-> <<>>, length |-> InitialCapacity]>>
      /\ mValues = <<[entry |-> <<>>, length |-> InitialCapacity]>>
      /\ mSize = <<0>>
  BY DEF Init
<1>2. InitialCapacity \in Nat /\ InitialCapacity >= 1
  BY CallbackMapAssumption
<1>3. \A S : [entry |-> <<>>, length |-> InitialCapacity] \in Arrays(S)
  BY <1>2 DEF Arrays
<1>4. mKeys \in Seq(Arrays(Nat)) /\ Len(mKeys) = 1 /\ mKeys[1].entry = <<>>
      /\ mKeys[1].length = InitialCapacity
  BY <1>1, <1>3
<1>5. mValues \in Seq(Arrays(Requests)) /\ Len(mValues) = 1 /\ mValues[1].entry = <<>>
      /\ mValues[1].length = InitialCapacity
  BY <1>1, <1>3
<1>6. mSize \in Seq(Nat) /\ Len(mSize) = 1 /\ mSize[1] = 0
  BY <1>1
<1>7. /\ caller = "idle" /\ current = Null /\ gSeq = 0 /\ seq = [r \in Requests |-> 0]
      /\ worker = [r \in Requests |-> "none"]
  BY DEF Init
<1>8. TypeOK
  <2>1. since \in [Requests -> Nat \X Nat \X Nat]
    BY DEF Init
  <2>2. /\ array \in [Requests -> Nat] /\ lo \in [Requests -> Nat]
        /\ hi \in [Requests -> Nat \cup {-1}] /\ index \in [Requests -> Nat \cup {-1}]
        /\ got \in [Requests -> Requests \cup {Null}]
    BY <1>2 DEF Init
  <2>3. QED
    BY <1>4, <1>5, <1>6, <1>7, <2>1, <2>2 DEF TypeOK
<1>9. KeysInv
  BY <1>4 DEF KeysInv
<1>10. ValuesInv
  BY <1>5 DEF ValuesInv
<1>11. LengthInv
  BY <1>2, <1>4, <1>5 DEF LengthInv
<1>12. SizeInv
  BY <1>6 DEF SizeInv
<1>13. NumberInv /\ PhaseInv
  BY <1>4, <1>5, <1>6, <1>7 DEF NumberInv, PhaseInv
<1>14. SinceInv /\ SearchInv /\ LostInv /\ NeverAnothers
  BY <1>7 DEF SinceInv, SearchInv, LostInv, NeverAnothers
<1>15. QED
  BY <1>8, <1>9, <1>10, <1>11, <1>12, <1>13, <1>14 DEF IInv

-------------------------------------------------------------------------------
(* The main thread *)

(* What is put last belongs behind all other entries. *)
LEMMA AtEnd ==
    ASSUME IInv, caller \in {"keys", "values"}
    PROVE  /\ gSeq \in Nat \ {0} /\ current \in Requests /\ seq[current] = gSeq
           /\ Last(mSize) = gSeq - 1
           /\ Position(seq[current]) = gSeq - 1
<1>1. /\ gSeq \in Nat \ {0} /\ current \in Requests /\ seq[current] = gSeq
      /\ Len(mSize) = gSeq
  BY DEF IInv, TypeOK, PhaseInv
<1>2. Last(mSize) = gSeq - 1
  BY <1>1 DEF IInv, SizeInv, Last
<1>3. Len(mKeys) \in {gSeq, gSeq + 1}
  BY DEF IInv, PhaseInv
<1>4. \A i \in 1 .. gSeq - 1 : Last(mKeys).entry[i] = i
  <2>1. Len(mKeys) \in 1 .. Len(mKeys) /\ Len(mKeys) \in Nat
    BY <1>1, <1>3
  <2>2. \A i \in 1 .. Len(mKeys) - 1 : Last(mKeys).entry[i] = i
    BY <2>1 DEF IInv, KeysInv, Last
  <2>3. QED
    BY <1>1, <1>3, <2>1, <2>2
<1>5. {i \in 1 .. gSeq - 1 : Last(mKeys).entry[i] < gSeq} = 1 .. gSeq - 1
  BY <1>1, <1>4
<1>6. Cardinality(1 .. gSeq - 1) = gSeq - 1
  <2>1. gSeq - 1 \in Int /\ 1 \in Int
    BY <1>1
  <2>2. Cardinality(1 .. gSeq - 1) = IF 1 > gSeq - 1 THEN 0 ELSE (gSeq - 1) - 1 + 1
    BY <2>1, FS_Interval
  <2>3. QED
    BY <1>1, <2>2
<1>7. QED
  BY <1>1, <1>2, <1>5, <1>6 DEF Position

LEMMA NumberStep ==
    ASSUME IInv, NEW r \in Requests, Number(r)
    PROVE  IInv'
<1> USE DEF IInv
<1>1. /\ caller = "idle" /\ caller' = "keys" /\ seq[r] = 0 /\ current' = r
      /\ gSeq' = gSeq + 1 /\ seq' = [seq EXCEPT ![r] = gSeq + 1]
      /\ UNCHANGED <<mKeys, mValues, mSize, since, worker, array, lo, hi, index, got>>
  BY DEF Number, incrementAndGet, field, lookup, search
<1>2. /\ gSeq \in Nat /\ seq \in [Requests -> Nat]
      /\ worker[r] = "none"
  BY <1>1 DEF TypeOK, SinceInv
<1>3. TypeOK'
  BY <1>1 DEF TypeOK
<1>4. NumberInv'
  <2>1. \A q \in Requests : seq'[q] = IF q = r THEN gSeq + 1 ELSE seq[q]
    BY <1>1, <1>2
  <2>2. \A i \in 1 .. gSeq + 1 : \E q \in Requests : seq'[q] = i
    <3> TAKE i \in 1 .. gSeq + 1
    <3>1. CASE i = gSeq + 1
      BY <2>1, <3>1
    <3>2. CASE i # gSeq + 1
      <4>1. i \in 1 .. gSeq
        BY <1>2, <3>2
      <4>2. PICK q \in Requests : seq[q] = i
        BY <4>1 DEF NumberInv
      <4>3. q # r
        BY <1>1, <4>1, <4>2
      <4>4. QED
        BY <2>1, <4>2, <4>3
    <3>3. QED
      BY <3>1, <3>2
  <2>3. \A q \in Requests : seq[q] \in Nat /\ seq[q] <= gSeq
    BY <1>2 DEF NumberInv
  <2>4. \A p, q \in Requests : seq'[p] = seq'[q] /\ seq'[p] # 0 => p = q
    BY <1>2, <2>1, <2>3 DEF NumberInv
  <2>5. \A q \in Requests : seq'[q] <= gSeq + 1
    BY <1>2, <2>1, <2>3
  <2>6. QED
    BY <1>1, <2>2, <2>4, <2>5 DEF NumberInv
<1>5. PhaseInv'
  BY <1>1, <1>2 DEF PhaseInv
<1>6. KeysInv' /\ SizeInv' /\ LengthInv'
  BY <1>1 DEF KeysInv, SizeInv, LengthInv
<1>7. ValuesInv'
  <2>1. ASSUME NEW v \in 1 .. Len(mValues), NEW i \in 1 .. v - 1
        PROVE  seq'[mValues[v].entry[i]] = i
    <3>1. seq[mValues[v].entry[i]] = i
      BY <2>1 DEF ValuesInv
    <3>2. mValues[v].entry \in Seq(Requests) /\ Len(mValues[v].entry) = v - 1
      <4>1. mValues[v] \in Arrays(Requests)
        BY ElementOfSeq DEF TypeOK
      <4>2. QED
        BY <4>1 DEF Arrays, ValuesInv
    <3>3. mValues[v].entry[i] \in Requests
      BY <3>2
    <3>4. mValues[v].entry[i] # r
      BY <1>1, <3>1
    <3>5. QED
      BY <1>1, <1>2, <3>1, <3>3, <3>4
  <2>2. QED
    BY <1>1, <2>1 DEF ValuesInv
<1>8. \A q \in Requests : worker[q] # "none" => seq'[q] = seq[q]
  BY <1>1, <1>2
<1>9. SinceInv'
  BY <1>1, <1>8 DEF SinceInv
<1>10. ASSUME NEW q \in Requests, worker[q] # "none", Near(q)'
       PROVE  Near(q)
  <2>1. seq'[q] = seq[q] /\ seq[q] \in Nat
    BY <1>2, <1>8, <1>10
  <2>2. Replaced(q)' <=> Replaced(q)
    BY <1>1 DEF Replaced, Last
  <2>3. QED
    BY <1>1, <1>2, <1>10, <2>1, <2>2 DEF Near
<1>11. SearchInv'
  BY <1>1, <1>8, <1>10 DEF SearchInv
<1>12. LostInv' /\ NeverAnothers'
  BY <1>1, <1>8, <1>10 DEF LostInv, NeverAnothers
<1>13. QED
  BY <1>3, <1>4, <1>5, <1>6, <1>7, <1>9, <1>11, <1>12

LEMMA PutKeyStep ==
    ASSUME IInv, PutKey
    PROVE  IInv'
<1> USE DEF IInv
<1> DEFINE last == Last(mKeys)
           new == insert(last, gSeq - 1, gSeq, gSeq - 1)
<1>1. /\ caller = "keys" /\ caller' = "values"
      /\ UNCHANGED <<current, gSeq, seq, mValues, mSize, since, worker>>
      /\ UNCHANGED <<array, lo, hi, index, got>>
  BY DEF PutKey, lookup, search
<1>2. gSeq \in Nat \ {0} /\ current \in Requests /\ mKeys' = Append(mKeys, new)
  BY <1>1, AtEnd DEF PutKey
<1>3. /\ mKeys \in Seq(Arrays(Nat)) /\ Len(mKeys) = gSeq /\ Len(mValues) = gSeq
      /\ last = mKeys[gSeq] /\ last \in Arrays(Nat) /\ Len(last.entry) = gSeq - 1
      /\ \A i \in 1 .. gSeq - 1 : last.entry[i] = i
  <2>1. /\ mKeys \in Seq(Arrays(Nat)) /\ Len(mKeys) = gSeq /\ Len(mValues) = gSeq
        /\ last = mKeys[gSeq]
    BY <1>1 DEF TypeOK, PhaseInv, Last
  <2>2. gSeq \in 1 .. gSeq
    BY <1>2
  <2>3. last \in Arrays(Nat)
    BY <2>1, <2>2, ElementOfSeq
  <2>4. QED
    BY <2>1, <2>2, <2>3 DEF KeysInv
<1> HIDE DEF last
<1>4. /\ new \in Arrays(Nat) /\ Len(new.entry) = gSeq /\ new.entry[gSeq] = gSeq
      /\ \A i \in 1 .. gSeq - 1 : new.entry[i] = i
      /\ new.length = NextLength(last.length, gSeq - 1)
      /\ new.length >= last.length /\ new.length >= gSeq
  <2>1. gSeq - 1 \in Nat /\ gSeq \in Nat /\ (gSeq - 1) + 1 = gSeq
    BY <1>2
  <2>2. /\ new \in Arrays(Nat) /\ Len(new.entry) = (gSeq - 1) + 1
        /\ new.entry[(gSeq - 1) + 1] = gSeq
        /\ \A i \in 1 .. gSeq - 1 : new.entry[i] = last.entry[i]
        /\ new.length = NextLength(last.length, gSeq - 1)
        /\ new.length >= last.length /\ new.length >= (gSeq - 1) + 1
    BY <1>3, <2>1, InsertAtEnd
  <2>3. QED
    BY <1>3, <2>1, <2>2
<1> HIDE DEF new
<1>5. /\ mKeys' \in Seq(Arrays(Nat)) /\ Len(mKeys') = gSeq + 1
      /\ \A v \in 1 .. gSeq : mKeys'[v] = mKeys[v]
      /\ mKeys'[gSeq + 1] = new
  BY <1>2, <1>3, <1>4, Logged
<1>6. TypeOK'
  BY <1>1, <1>5 DEF TypeOK
<1>7. NumberInv' /\ SizeInv' /\ ValuesInv' /\ NeverAnothers'
  BY <1>1 DEF NumberInv, SizeInv, ValuesInv, NeverAnothers
<1>8. PhaseInv'
  BY <1>1, <1>5 DEF PhaseInv
<1>9. KeysInv'
  <2>1. ASSUME NEW v \in 1 .. gSeq + 1
        PROVE  Len(mKeys'[v].entry) = v - 1 /\ \A i \in 1 .. v - 1 : mKeys'[v].entry[i] = i
    <3>1. CASE v \in 1 .. gSeq
      BY <1>3, <1>5, <3>1 DEF KeysInv
    <3>2. CASE v = gSeq + 1
      BY <1>2, <1>4, <1>5, <3>2
    <3>3. v \in 1 .. gSeq \/ v = gSeq + 1
      BY <1>2
    <3>4. QED
      BY <3>1, <3>2, <3>3
  <2>2. QED
    BY <1>5, <2>1 DEF KeysInv
<1>10. \A v \in 1 .. gSeq : mKeys[v].length \in Nat /\ mKeys[v].length <= last.length
  <2>1. ASSUME NEW v \in 1 .. gSeq
        PROVE  mKeys[v].length \in Nat
    <3>1. mKeys[v] \in Arrays(Nat)
      BY <1>3, ElementOfSeq
    <3>2. QED
      BY <3>1 DEF Arrays
  <2>2. QED
    BY <1>2, <1>3, <2>1 DEF LengthInv
<1>11. new.length \in Nat /\ last.length \in Nat
  BY <1>3, <1>4 DEF Arrays
<1>12. LengthInv'
  <2>1. \A v \in 1 .. gSeq + 1 : mKeys'[v].length >= v - 1
    <3> TAKE v \in 1 .. gSeq + 1
    <3>1. CASE v \in 1 .. gSeq
      BY <1>3, <1>5, <3>1 DEF LengthInv
    <3>2. CASE v = gSeq + 1
      BY <1>2, <1>4, <1>5, <1>11, <3>2
    <3>3. v \in 1 .. gSeq \/ v = gSeq + 1
      BY <1>2
    <3>4. QED
      BY <3>1, <3>2, <3>3
  <2>2. ASSUME NEW v \in 1 .. gSeq
        PROVE  mKeys'[v + 1].length = NextLength(mKeys'[v].length, v - 1)
    <3>1. CASE v = gSeq
      BY <1>2, <1>3, <1>4, <1>5, <3>1
    <3>2. CASE v # gSeq
      <4>1. v \in 1 .. Len(mKeys) - 1 /\ v + 1 \in 1 .. gSeq
        BY <1>2, <1>3, <3>2
      <4>2. QED
        BY <1>5, <4>1 DEF LengthInv
    <3>3. QED
      BY <3>1, <3>2
  <2>3. ASSUME NEW v \in 1 .. gSeq + 1, NEW w \in 1 .. gSeq + 1, v <= w
        PROVE  mKeys'[v].length <= mKeys'[w].length
    <3>1. CASE w \in 1 .. gSeq
      <4>1. v \in 1 .. gSeq
        BY <1>2, <2>3, <3>1
      <4>2. QED
        BY <1>3, <1>5, <2>3, <3>1, <4>1 DEF LengthInv
    <3>2. CASE w = gSeq + 1 /\ v \in 1 .. gSeq
      BY <1>4, <1>5, <1>10, <1>11, <3>2
    <3>3. CASE w = gSeq + 1 /\ v = gSeq + 1
      BY <1>5, <1>11, <3>3
    <3>4. w \in 1 .. gSeq \/ (w = gSeq + 1 /\ (v \in 1 .. gSeq \/ v = gSeq + 1))
      BY <1>2
    <3>5. QED
      BY <3>1, <3>2, <3>3, <3>4
  <2>4. \A v \in 1 .. Len(mValues') : mValues'[v].length = mKeys'[v].length
    BY <1>1, <1>3, <1>5 DEF LengthInv
  <2>5. Len(mKeys') - 1 = gSeq
    BY <1>2, <1>5
  <2>6. QED
    BY <1>5, <2>1, <2>2, <2>3, <2>4, <2>5 DEF LengthInv
<1>13. ASSUME NEW q \in Requests, worker[q] # "none"
       PROVE  /\ seq[q] \in Nat \ {0} /\ seq[q] < gSeq
              /\ since[q] = <<seq[q] + 1, seq[q] + 1, seq[q] + 1>>
              /\ seq[q] + 1 \in 1 .. gSeq
              /\ mKeys'[since[q][1]] = mKeys[since[q][1]]
  <2>1. /\ seq[q] \in Nat /\ seq[q] >= 1 /\ seq[q] < gSeq
        /\ since[q] = <<seq[q] + 1, seq[q] + 1, seq[q] + 1>>
    BY <1>3, <1>13 DEF SinceInv, TypeOK
  <2>2. seq[q] + 1 \in 1 .. gSeq
    BY <1>2, <2>1
  <2>3. since[q][1] = seq[q] + 1
    BY <2>1
  <2>4. QED
    BY <1>5, <2>1, <2>2, <2>3
<1>14. SinceInv'
  BY <1>1, <1>2, <1>5, <1>13 DEF SinceInv
<1>15. ASSUME NEW q \in Requests, worker[q] # "none", Near(q)'
       PROVE  Near(q)
  <2>1. since[q][1] \in 1 .. gSeq
    BY <1>13, <1>15
  <2>2. mKeys[since[q][1]].length \in Nat /\ mKeys[since[q][1]].length <= last.length
    BY <1>10, <2>1
  <2>3. new.length = mKeys[since[q][1]].length
    BY <1>1, <1>5, <1>13, <1>15 DEF Near, Replaced, Last
  <2>4. last.length = mKeys[since[q][1]].length
    BY <1>4, <1>11, <2>2, <2>3
  <2>5. QED
    BY <1>1, <1>15, <2>4 DEF Near, Replaced, last
<1>16. SearchInv'
  <2>1. ASSUME NEW q \in Requests, worker[q] \in {"size", "search"}
        PROVE  \E v \in since[q][1] .. Len(mKeys') : array[q] = mKeys'[v].length
    <3>1. PICK v \in since[q][1] .. Len(mKeys) : array[q] = mKeys[v].length
      BY <2>1 DEF SearchInv
    <3>2. since[q][1] \in 1 .. gSeq
      BY <1>13, <2>1
    <3>3. v \in 1 .. gSeq /\ v \in since[q][1] .. Len(mKeys')
      BY <1>2, <1>3, <1>5, <3>2
    <3>4. QED
      BY <1>5, <3>1, <3>3
  <2>2. QED
    BY <1>1, <1>15, <2>1 DEF SearchInv
<1>17. LostInv'
  BY <1>1, <1>15 DEF LostInv
<1>18. QED
  BY <1>6, <1>7, <1>8, <1>9, <1>12, <1>14, <1>16, <1>17

LEMMA PutValueStep ==
    ASSUME IInv, PutValue
    PROVE  IInv'
<1> USE DEF IInv
<1> DEFINE last == Last(mValues)
           new == insert(last, gSeq - 1, current, gSeq - 1)
<1>1. /\ caller = "values" /\ caller' = "size"
      /\ UNCHANGED <<current, gSeq, seq, mKeys, mSize, since, worker>>
      /\ UNCHANGED <<array, lo, hi, index, got>>
  BY DEF PutValue, lookup, search
<1>2. /\ gSeq \in Nat \ {0} /\ current \in Requests /\ seq[current] = gSeq
      /\ mValues' = Append(mValues, new)
  BY <1>1, AtEnd DEF PutValue
<1>3. /\ mValues \in Seq(Arrays(Requests)) /\ Len(mValues) = gSeq /\ Len(mKeys) = gSeq + 1
      /\ last = mValues[gSeq] /\ last \in Arrays(Requests) /\ Len(last.entry) = gSeq - 1
      /\ \A i \in 1 .. gSeq - 1 : seq[last.entry[i]] = i
      /\ last.length = mKeys[gSeq].length
      /\ mKeys[gSeq + 1].length = NextLength(mKeys[gSeq].length, gSeq - 1)
  <2>1. /\ mValues \in Seq(Arrays(Requests)) /\ Len(mValues) = gSeq /\ Len(mKeys) = gSeq + 1
        /\ last = mValues[gSeq]
    BY <1>1 DEF TypeOK, PhaseInv, Last
  <2>2. gSeq \in 1 .. gSeq /\ gSeq \in 1 .. Len(mKeys) - 1
    BY <1>2, <2>1
  <2>3. last \in Arrays(Requests)
    BY <2>1, <2>2, ElementOfSeq
  <2>4. QED
    BY <2>1, <2>2, <2>3 DEF ValuesInv, LengthInv
<1> HIDE DEF last
<1>4. /\ new \in Arrays(Requests) /\ Len(new.entry) = gSeq /\ new.entry[gSeq] = current
      /\ \A i \in 1 .. gSeq - 1 : new.entry[i] = last.entry[i]
      /\ new.length = mKeys[gSeq + 1].length
  <2>1. gSeq - 1 \in Nat /\ gSeq \in Nat /\ (gSeq - 1) + 1 = gSeq
    BY <1>2
  <2>2. /\ new \in Arrays(Requests) /\ Len(new.entry) = (gSeq - 1) + 1
        /\ new.entry[(gSeq - 1) + 1] = current
        /\ \A i \in 1 .. gSeq - 1 : new.entry[i] = last.entry[i]
        /\ new.length = NextLength(last.length, gSeq - 1)
    BY <1>2, <1>3, <2>1, InsertAtEnd
  <2>3. QED
    BY <1>3, <2>1, <2>2
<1> HIDE DEF new
<1>5. /\ mValues' \in Seq(Arrays(Requests)) /\ Len(mValues') = gSeq + 1
      /\ \A v \in 1 .. gSeq : mValues'[v] = mValues[v]
      /\ mValues'[gSeq + 1] = new
  BY <1>2, <1>3, <1>4, Logged
<1>6. TypeOK'
  BY <1>1, <1>5 DEF TypeOK
<1>7. NumberInv' /\ SizeInv' /\ KeysInv' /\ NeverAnothers'
  BY <1>1 DEF NumberInv, SizeInv, KeysInv, NeverAnothers
<1>8. PhaseInv'
  BY <1>1, <1>5 DEF PhaseInv
<1>9. ValuesInv'
  <2>1. ASSUME NEW v \in 1 .. gSeq + 1
        PROVE  /\ Len(mValues'[v].entry) = v - 1
               /\ \A i \in 1 .. v - 1 : seq[mValues'[v].entry[i]] = i
    <3>1. CASE v \in 1 .. gSeq
      BY <1>3, <1>5, <3>1 DEF ValuesInv
    <3>2. CASE v = gSeq + 1
      BY <1>2, <1>3, <1>4, <1>5, <3>2
    <3>3. v \in 1 .. gSeq \/ v = gSeq + 1
      BY <1>2
    <3>4. QED
      BY <3>1, <3>2, <3>3
  <2>2. QED
    BY <1>1, <1>5, <2>1 DEF ValuesInv
<1>10. LengthInv'
  <2>1. ASSUME NEW v \in 1 .. gSeq + 1
        PROVE  mValues'[v].length = mKeys[v].length
    <3>1. CASE v \in 1 .. gSeq
      BY <1>3, <1>5, <3>1 DEF LengthInv
    <3>2. CASE v = gSeq + 1
      BY <1>4, <1>5, <3>2
    <3>3. v \in 1 .. gSeq \/ v = gSeq + 1
      BY <1>2
    <3>4. QED
      BY <3>1, <3>2, <3>3
  <2>2. QED
    BY <1>1, <1>5, <2>1 DEF LengthInv
<1>11. SinceInv'
  <2>1. ASSUME NEW q \in Requests, worker[q] # "none"
        PROVE  seq[q] < Len(mValues')
    BY <1>2, <1>3, <1>5, <2>1 DEF SinceInv, TypeOK
  <2>2. QED
    BY <1>1, <2>1 DEF SinceInv
<1>12. \A q \in Requests : Near(q)' <=> Near(q)
  BY <1>1 DEF Near, Replaced, Last
<1>13. SearchInv' /\ LostInv'
  BY <1>1, <1>12 DEF SearchInv, LostInv
<1>14. QED
  BY <1>6, <1>7, <1>8, <1>9, <1>10, <1>11, <1>13

LEMMA PutSizeStep ==
    ASSUME IInv, PutSize
    PROVE  IInv'
<1> USE DEF IInv
<1>1. /\ caller = "size" /\ caller' = "commit"
      /\ UNCHANGED <<current, gSeq, seq, mKeys, mValues, since, worker>>
      /\ UNCHANGED <<array, lo, hi, index, got>>
  BY DEF PutSize, lookup, search
<1>2. /\ gSeq \in Nat \ {0} /\ mSize \in Seq(Nat) /\ Len(mSize) = gSeq
      /\ Last(mSize) = gSeq - 1
  <2>1. gSeq \in Nat \ {0} /\ mSize \in Seq(Nat) /\ Len(mSize) = gSeq
    BY <1>1 DEF TypeOK, PhaseInv
  <2>2. gSeq \in 1 .. Len(mSize)
    BY <2>1
  <2>3. QED
    BY <2>1, <2>2 DEF SizeInv, Last
<1>3. mSize' = Append(mSize, gSeq)
  BY <1>2 DEF PutSize
<1>4. /\ mSize' \in Seq(Nat) /\ Len(mSize') = gSeq + 1
      /\ \A v \in 1 .. gSeq : mSize'[v] = mSize[v]
      /\ mSize'[gSeq + 1] = gSeq
  BY <1>2, <1>3, Logged
<1>5. TypeOK'
  BY <1>1, <1>4 DEF TypeOK
<1>6. NumberInv' /\ KeysInv' /\ ValuesInv' /\ LengthInv' /\ NeverAnothers'
  BY <1>1 DEF NumberInv, KeysInv, ValuesInv, LengthInv, NeverAnothers
<1>7. PhaseInv'
  BY <1>1, <1>4 DEF PhaseInv
<1>8. SizeInv'
  <2>1. ASSUME NEW v \in 1 .. gSeq + 1
        PROVE  mSize'[v] = v - 1
    <3>1. CASE v \in 1 .. gSeq
      BY <1>2, <1>4, <3>1 DEF SizeInv
    <3>2. CASE v = gSeq + 1
      BY <1>2, <1>4, <3>2
    <3>3. v \in 1 .. gSeq \/ v = gSeq + 1
      BY <1>2
    <3>4. QED
      BY <3>1, <3>2, <3>3
  <2>2. QED
    BY <1>4, <2>1 DEF SizeInv
<1>9. SinceInv'
  <2>1. ASSUME NEW q \in Requests, worker[q] # "none"
        PROVE  seq[q] < Len(mSize')
    BY <1>2, <1>4, <2>1 DEF SinceInv, TypeOK
  <2>2. QED
    BY <1>1, <2>1 DEF SinceInv
<1>10. \A q \in Requests : Near(q)' <=> Near(q)
  BY <1>1 DEF Near, Replaced, Last
<1>11. SearchInv' /\ LostInv'
  BY <1>1, <1>10 DEF SearchInv, LostInv
<1>12. QED
  BY <1>5, <1>6, <1>7, <1>8, <1>9, <1>11

LEMMA CommitStep ==
    ASSUME IInv, Commit
    PROVE  IInv'
<1> USE DEF IInv
<1>1. /\ caller = "commit" /\ caller' = "idle"
      /\ since' = [since EXCEPT ![current] = Seen]
      /\ worker' = [worker EXCEPT ![current] = "keys"]
      /\ UNCHANGED <<current, gSeq, seq, mKeys, mValues, mSize>>
      /\ UNCHANGED <<array, lo, hi, index, got>>
  BY DEF Commit, field, lookup, search
<1>2. /\ gSeq \in Nat /\ gSeq >= 1 /\ current \in Requests /\ seq[current] = gSeq
      /\ worker[current] = "none"
      /\ Len(mKeys) = gSeq + 1 /\ Len(mValues) = gSeq + 1 /\ Len(mSize) = gSeq + 1
  BY <1>1 DEF PhaseInv, TypeOK
<1>3. Seen = <<gSeq + 1, gSeq + 1, gSeq + 1>> /\ Seen \in Nat \X Nat \X Nat
  BY <1>2 DEF Seen
<1>4. /\ \A q \in Requests \ {current} : since'[q] = since[q] /\ worker'[q] = worker[q]
      /\ since'[current] = Seen /\ worker'[current] = "keys"
  BY <1>1, <1>2 DEF TypeOK
<1>5. TypeOK'
  BY <1>1, <1>2, <1>3 DEF TypeOK
<1>6. NumberInv' /\ KeysInv' /\ ValuesInv' /\ SizeInv' /\ LengthInv'
  BY <1>1 DEF NumberInv, KeysInv, ValuesInv, SizeInv, LengthInv
<1>7. PhaseInv'
  BY <1>1, <1>2 DEF PhaseInv
<1>8. SinceInv'
  <2>1. ASSUME NEW q \in Requests, worker'[q] # "none"
        PROVE  /\ seq[q] >= 1
               /\ since'[q] = <<seq[q] + 1, seq[q] + 1, seq[q] + 1>>
               /\ seq[q] < Len(mKeys) /\ seq[q] < Len(mValues) /\ seq[q] < Len(mSize)
    <3>1. CASE q = current
      BY <1>2, <1>3, <1>4, <3>1
    <3>2. CASE q # current
      BY <1>4, <2>1, <3>2 DEF SinceInv
    <3>3. QED
      BY <3>1, <3>2
  <2>2. QED
    BY <1>1, <2>1 DEF SinceInv
<1>9. \A q \in Requests \ {current} : Near(q)' <=> Near(q)
  BY <1>1, <1>4 DEF Near, Replaced, Last
<1>10. SearchInv'
  <2>1. ASSUME NEW q \in Requests \ {current}
        PROVE  /\ worker'[q] \in {"size", "search"} =>
                    \E v \in since'[q][1] .. Len(mKeys) : array[q] = mKeys[v].length
               /\ worker'[q] = "search" /\ Near(q)' =>
                    lo[q] <= seq[q] - 1 /\ seq[q] - 1 <= hi[q] /\ hi[q] <= seq[q]
               /\ worker'[q] = "value" => index[q] = seq[q] - 1
    BY <1>4, <1>9 DEF SearchInv
  <2>2. QED
    BY <1>1, <1>4, <2>1 DEF SearchInv
<1>11. LostInv' /\ NeverAnothers'
  BY <1>1, <1>4, <1>9 DEF LostInv, NeverAnothers
<1>12. QED
  BY <1>5, <1>6, <1>7, <1>8, <1>10, <1>11

-------------------------------------------------------------------------------
(* The workers *)

(* A worker's step leaves the map alone. *)
LEMMA WorkerFrame ==
    ASSUME IInv, NEW r \in Requests,
           UNCHANGED <<caller, current, gSeq, seq, mKeys, mValues, mSize, since>>,
           worker[r] # "none", worker'[r] # "none",
           \A q \in Requests \ {r} : worker'[q] = worker[q]
    PROVE  /\ NumberInv' /\ PhaseInv' /\ KeysInv' /\ ValuesInv' /\ SizeInv'
           /\ LengthInv' /\ SinceInv'
           /\ \A q \in Requests : Near(q)' <=> Near(q)
<1> USE DEF IInv
<1>1. NumberInv' /\ KeysInv' /\ ValuesInv' /\ SizeInv' /\ LengthInv'
  BY DEF NumberInv, KeysInv, ValuesInv, SizeInv, LengthInv
<1>2. PhaseInv'
  BY DEF PhaseInv
<1>3. SinceInv'
  BY DEF SinceInv
<1>4. \A q \in Requests : Near(q)' <=> Near(q)
  BY DEF Near, Replaced, Last
<1>5. QED
  BY <1>1, <1>2, <1>3, <1>4

(* The versions a worker may read, and that its own entry is in all of them. *)
LEMMA SinceOwn ==
    ASSUME IInv, NEW r \in Requests, worker[r] # "none"
    PROVE  /\ seq[r] \in Nat \ {0}
           /\ since[r][1] = seq[r] + 1 /\ since[r][2] = seq[r] + 1 /\ since[r][3] = seq[r] + 1
           /\ seq[r] + 1 \in 1 .. Len(mKeys)
           /\ Len(mKeys) \in Nat /\ Len(mValues) \in Nat /\ Len(mSize) \in Nat
           /\ Len(mValues) <= Len(mKeys) /\ Len(mSize) <= gSeq + 1 /\ gSeq \in Nat
<1>1. /\ seq[r] \in Nat /\ seq[r] >= 1 /\ seq[r] < Len(mKeys)
      /\ since[r] = <<seq[r] + 1, seq[r] + 1, seq[r] + 1>>
  BY DEF IInv, SinceInv, TypeOK
<1>2. Len(mKeys) \in Nat /\ Len(mValues) \in Nat /\ Len(mSize) \in Nat /\ gSeq \in Nat
  BY DEF IInv, TypeOK
<1>3. Len(mValues) <= Len(mKeys) /\ Len(mSize) <= gSeq + 1
  BY <1>2 DEF IInv, PhaseInv, TypeOK
<1>4. QED
  BY <1>1, <1>2, <1>3

(* The arrays have not been replaced, so all versions since r have the same. *)
LEMMA SameArray ==
    ASSUME IInv, NEW r \in Requests, worker[r] # "none", ~ Replaced(r),
           NEW v \in seq[r] + 1 .. Len(mKeys)
    PROVE  mKeys[v].length = mKeys[seq[r] + 1].length
<1>1. /\ seq[r] \in Nat \ {0} /\ since[r][1] = seq[r] + 1
      /\ seq[r] + 1 \in 1 .. Len(mKeys) /\ Len(mKeys) \in Nat
  BY SinceOwn
<1>2. v \in 1 .. Len(mKeys) /\ Len(mKeys) \in 1 .. Len(mKeys) /\ seq[r] + 1 <= v
      /\ v <= Len(mKeys)
  BY <1>1
<1>3. \A w \in 1 .. Len(mKeys) : mKeys[w].length \in Nat
  <2> TAKE w \in 1 .. Len(mKeys)
  <2>1. mKeys[w] \in Arrays(Nat)
    BY ElementOfSeq DEF IInv, TypeOK
  <2>2. QED
    BY <2>1 DEF Arrays
<1>4. mKeys[Len(mKeys)].length = mKeys[seq[r] + 1].length
  BY <1>1 DEF Replaced, Last
<1>5. /\ mKeys[seq[r] + 1].length <= mKeys[v].length
      /\ mKeys[v].length <= mKeys[Len(mKeys)].length
  BY <1>1, <1>2 DEF IInv, LengthInv
<1>6. QED
  BY <1>1, <1>2, <1>3, <1>4, <1>5

(* An entry is its position, or blank; and an earlier or own one is never blank
   unless the arrays have been replaced. *)
LEMMA VisibleKey ==
    ASSUME IInv, NEW r \in Requests, worker[r] = "search", NEW i \in Nat,
           NEW key \in Visible(mKeys, since[r][1], array[r], i, 0)
    PROVE  /\ key \in {0, i + 1}
           /\ i < seq[r] /\ ~ Replaced(r) => key = i + 1
<1>1. /\ seq[r] \in Nat \ {0} /\ since[r][1] = seq[r] + 1
      /\ seq[r] + 1 \in 1 .. Len(mKeys) /\ Len(mKeys) \in Nat
  BY SinceOwn
<1>2. CASE \E v \in since[r][1] .. Len(mKeys) : key = Element(mKeys[v], i, 0)
  <2>1. PICK v \in since[r][1] .. Len(mKeys) : key = Element(mKeys[v], i, 0)
    BY <1>2
  <2>2. v \in 1 .. Len(mKeys) /\ v >= seq[r] + 1
    BY <1>1
  <2>3. Len(mKeys[v].entry) = v - 1 /\ \A j \in 1 .. v - 1 : mKeys[v].entry[j] = j
    BY <2>2 DEF IInv, KeysInv
  <2>4. CASE i < v - 1
    <3>1. i + 1 \in 1 .. v - 1
      BY <2>2, <2>4
    <3>2. QED
      BY <2>1, <2>3, <2>4, <3>1 DEF Element
  <2>5. CASE ~ i < v - 1
    <3>1. key = 0
      BY <2>1, <2>3, <2>5 DEF Element
    <3>2. ~ i < seq[r]
      BY <1>1, <2>2, <2>5
    <3>3. QED
      BY <3>1, <3>2
  <2>6. QED
    BY <2>4, <2>5
<1>3. CASE key = 0 /\ mKeys[since[r][1]].length # array[r]
  <2>1. PICK v \in since[r][1] .. Len(mKeys) : array[r] = mKeys[v].length
    BY DEF IInv, SearchInv
  <2>2. Replaced(r)
    BY <1>1, <1>3, <2>1, SameArray
  <2>3. QED
    BY <1>3, <2>2
<1>4. QED
  BY <1>2, <1>3 DEF Visible

(* What is found at the own position is the own callback, or blank if the arrays have
   been replaced. *)
LEMMA VisibleValue ==
    ASSUME IInv, NEW r \in Requests, worker[r] = "value",
           NEW v \in since[r][2] .. Len(mValues),
           NEW value \in Visible(mValues, since[r][2], mValues[v].length, index[r], Null)
    PROVE  value = r \/ (value = Null /\ Replaced(r))
<1>1. /\ seq[r] \in Nat \ {0} /\ since[r][2] = seq[r] + 1 /\ since[r][1] = seq[r] + 1
      /\ seq[r] + 1 \in 1 .. Len(mKeys)
      /\ Len(mKeys) \in Nat /\ Len(mValues) \in Nat /\ Len(mValues) <= Len(mKeys)
  BY SinceOwn
<1>2. index[r] = seq[r] - 1
  BY DEF IInv, SearchInv
<1>3. CASE \E w \in since[r][2] .. Len(mValues) : value = Element(mValues[w], index[r], Null)
  <2>1. PICK w \in since[r][2] .. Len(mValues) : value = Element(mValues[w], index[r], Null)
    BY <1>3
  <2>2. w \in 1 .. Len(mValues) /\ w >= seq[r] + 1
    BY <1>1
  <2>3. /\ Len(mValues[w].entry) = w - 1
        /\ \A j \in 1 .. w - 1 : seq[mValues[w].entry[j]] = j
    BY <2>2 DEF IInv, ValuesInv
  <2>4. seq[r] \in 1 .. w - 1 /\ index[r] < w - 1 /\ index[r] + 1 = seq[r]
    BY <1>1, <1>2, <2>2
  <2>5. value = mValues[w].entry[seq[r]]
    BY <2>1, <2>3, <2>4 DEF Element
  <2>6. seq[value] = seq[r]
    BY <2>3, <2>4, <2>5
  <2>7. value \in Requests
    <3>1. mValues[w] \in Arrays(Requests)
      BY <2>2, ElementOfSeq DEF IInv, TypeOK
    <3>2. mValues[w].entry \in Seq(Requests)
      BY <3>1 DEF Arrays
    <3>3. QED
      BY <2>3, <2>4, <2>5, <3>2, ElementOfSeq
  <2>8. value = r
    <3>1. \A p, q \in Requests : seq[p] = seq[q] /\ seq[p] # 0 => p = q
      BY DEF IInv, NumberInv
    <3>2. seq[value] # 0
      BY <1>1, <2>6
    <3>3. QED
      BY <2>6, <2>7, <3>1, <3>2
  <2>9. QED
    BY <2>8
<1>4. CASE value = Null /\ mValues[since[r][2]].length # mValues[v].length
  <2>1. v \in seq[r] + 1 .. Len(mKeys) /\ v \in 1 .. Len(mValues)
        /\ seq[r] + 1 \in 1 .. Len(mValues)
    BY <1>1
  <2>2. mKeys[seq[r] + 1].length # mKeys[v].length
    BY <1>1, <1>4, <2>1 DEF IInv, LengthInv
  <2>3. Replaced(r)
    BY <2>1, <2>2, SameArray
  <2>4. QED
    BY <1>4, <2>3
<1>5. QED
  BY <1>3, <1>4 DEF Visible

(* The middle of an interval is in it, and the middle of one that ends behind the own
   position only by one is not behind. *)
LEMMA Middle ==
    ASSUME NEW a \in Nat, NEW b \in Nat, a <= b
    PROVE  /\ (a + b) \div 2 \in Nat
           /\ a <= (a + b) \div 2 /\ (a + b) \div 2 <= b
           /\ \A s \in Nat : a <= s - 1 /\ b <= s => (a + b) \div 2 <= s - 1
  OBVIOUS

LEMMA GetKeysStep ==
    ASSUME IInv, NEW r \in Requests, GetKeys(r)
    PROVE  IInv'
<1> USE DEF IInv
<1>1. /\ worker[r] = "keys" /\ worker' = [worker EXCEPT ![r] = "size"]
      /\ UNCHANGED <<caller, current, gSeq, seq, mKeys, mValues, mSize, since>>
      /\ UNCHANGED <<lo, hi, index, got>>
  BY DEF GetKeys, At, field, search
<1>2. PICK v \in since[r][1] .. Len(mKeys) : array' = [array EXCEPT ![r] = mKeys[v].length]
  BY DEF GetKeys
<1>3. worker'[r] = "size" /\ \A q \in Requests \ {r} : worker'[q] = worker[q]
  BY <1>1 DEF TypeOK
<1>4. mKeys[v].length \in Nat
  <2>1. v \in 1 .. Len(mKeys)
    BY <1>1, SinceOwn
  <2>2. mKeys[v] \in Arrays(Nat)
    BY <2>1, ElementOfSeq DEF TypeOK
  <2>3. QED
    BY <2>2 DEF Arrays
<1>5. array'[r] = mKeys[v].length /\ \A q \in Requests \ {r} : array'[q] = array[q]
  BY <1>2 DEF TypeOK
<1>6. TypeOK'
  BY <1>1, <1>2, <1>4 DEF TypeOK
<1>7. /\ NumberInv' /\ PhaseInv' /\ KeysInv' /\ ValuesInv' /\ SizeInv'
      /\ LengthInv' /\ SinceInv'
      /\ \A q \in Requests : Near(q)' <=> Near(q)
  BY <1>1, <1>3, WorkerFrame
<1>8. SearchInv'
  BY <1>1, <1>3, <1>5, <1>7 DEF SearchInv
<1>9. LostInv' /\ NeverAnothers'
  BY <1>1, <1>3, <1>7 DEF LostInv, NeverAnothers
<1>10. QED
  BY <1>6, <1>7, <1>8, <1>9

LEMMA GetSizeStep ==
    ASSUME IInv, NEW r \in Requests, GetSize(r)
    PROVE  IInv'
<1> USE DEF IInv
<1>1. /\ worker[r] = "size" /\ worker' = [worker EXCEPT ![r] = "search"]
      /\ lo' = [lo EXCEPT ![r] = 0]
      /\ UNCHANGED <<caller, current, gSeq, seq, mKeys, mValues, mSize, since>>
      /\ UNCHANGED <<array, index, got>>
  BY DEF GetSize, At, field
<1>2. PICK v \in since[r][3] .. Len(mSize) : hi' = [hi EXCEPT ![r] = mSize[v] - 1]
  BY DEF GetSize
<1>3. worker'[r] = "search" /\ \A q \in Requests \ {r} : worker'[q] = worker[q]
  BY <1>1 DEF TypeOK
<1>4. /\ seq[r] \in Nat \ {0} /\ v \in 1 .. Len(mSize) /\ v >= seq[r] + 1
      /\ v <= gSeq + 1 /\ gSeq \in Nat
  BY <1>1, SinceOwn
<1>5. mSize[v] - 1 = v - 2
  BY <1>4 DEF SizeInv
<1>6. /\ lo'[r] = 0 /\ hi'[r] = v - 2
      /\ \A q \in Requests \ {r} : lo'[q] = lo[q] /\ hi'[q] = hi[q]
  BY <1>1, <1>2, <1>5 DEF TypeOK
<1>7. TypeOK'
  <2>1. v - 2 \in Nat
    BY <1>4
  <2>2. QED
    BY <1>1, <1>2, <1>5, <2>1 DEF TypeOK
<1>8. /\ NumberInv' /\ PhaseInv' /\ KeysInv' /\ ValuesInv' /\ SizeInv'
      /\ LengthInv' /\ SinceInv'
      /\ \A q \in Requests : Near(q)' <=> Near(q)
  BY <1>1, <1>3, WorkerFrame
<1>9. Near(r) => 0 <= seq[r] - 1 /\ seq[r] - 1 <= v - 2 /\ v - 2 <= seq[r]
  BY <1>4 DEF Near
<1>10. SearchInv'
  BY <1>1, <1>3, <1>6, <1>8, <1>9 DEF SearchInv
<1>11. LostInv' /\ NeverAnothers'
  BY <1>1, <1>3, <1>8 DEF LostInv, NeverAnothers
<1>12. QED
  BY <1>7, <1>8, <1>10, <1>11

LEMMA ProbeStep ==
    ASSUME IInv, NEW r \in Requests, Probe(r)
    PROVE  IInv'
<1> USE DEF IInv
<1>1. /\ worker[r] = "search" /\ lo[r] <= hi[r]
      /\ UNCHANGED <<caller, current, gSeq, seq, mKeys, mValues, mSize, since>>
      /\ UNCHANGED <<array, got>>
  BY DEF Probe, field
<1>2. PICK key \in Visible(mKeys, since[r][1], array[r], mid(r), 0) : Probed(r, key)
  BY DEF Probe
<1>3. lo[r] \in Nat /\ hi[r] \in Nat /\ seq[r] \in Nat \ {0}
  <2>1. lo[r] \in Nat /\ hi[r] \in Nat \cup {-1}
    BY DEF TypeOK
  <2>2. seq[r] \in Nat \ {0}
    BY <1>1, SinceOwn
  <2>3. QED
    BY <1>1, <2>1, <2>2
<1>4. /\ mid(r) \in Nat /\ lo[r] <= mid(r) /\ mid(r) <= hi[r]
      /\ lo[r] <= seq[r] - 1 /\ hi[r] <= seq[r] => mid(r) <= seq[r] - 1
  BY <1>1, <1>3, Middle DEF mid
<1> HIDE DEF mid
<1>5. key \in {0, mid(r) + 1} /\ (mid(r) < seq[r] /\ ~ Replaced(r) => key = mid(r) + 1)
  BY <1>1, <1>4, VisibleKey
<1>6. Near(r) => /\ lo[r] <= seq[r] - 1 /\ seq[r] - 1 <= hi[r] /\ hi[r] <= seq[r]
                 /\ mid(r) <= seq[r] - 1 /\ key = mid(r) + 1
  BY <1>1, <1>3, <1>4, <1>5 DEF SearchInv, Near
<1>7. CASE /\ key < seq[r]
           /\ lo' = [lo EXCEPT ![r] = mid(r) + 1]
           /\ UNCHANGED <<hi, index, worker>>
  <2>1. /\ lo'[r] = mid(r) + 1 /\ \A q \in Requests \ {r} : lo'[q] = lo[q]
    BY <1>7 DEF TypeOK
  <2>2. TypeOK'
    <3>1. mid(r) + 1 \in Nat
      BY <1>4
    <3>2. QED
      BY <1>1, <1>7, <3>1 DEF TypeOK
  <2>3. /\ NumberInv' /\ PhaseInv' /\ KeysInv' /\ ValuesInv' /\ SizeInv'
        /\ LengthInv' /\ SinceInv'
        /\ \A q \in Requests : Near(q)' <=> Near(q)
    BY <1>1, <1>7, WorkerFrame
  <2>4. Near(r) => mid(r) + 1 <= seq[r] - 1
    BY <1>3, <1>4, <1>6, <1>7
  <2>5. SearchInv'
    BY <1>1, <1>6, <1>7, <2>1, <2>3, <2>4 DEF SearchInv
  <2>6. LostInv' /\ NeverAnothers'
    BY <1>1, <1>7, <2>3 DEF LostInv, NeverAnothers
  <2>7. QED
    BY <2>2, <2>3, <2>5, <2>6
<1>8. CASE /\ key > seq[r]
           /\ hi' = [hi EXCEPT ![r] = mid(r) - 1]
           /\ UNCHANGED <<lo, index, worker>>
  <2>1. /\ hi'[r] = mid(r) - 1 /\ \A q \in Requests \ {r} : hi'[q] = hi[q]
    BY <1>8 DEF TypeOK
  <2>2. TypeOK'
    <3>1. mid(r) - 1 \in Nat \cup {-1}
      BY <1>4
    <3>2. QED
      BY <1>1, <1>8, <3>1 DEF TypeOK
  <2>3. /\ NumberInv' /\ PhaseInv' /\ KeysInv' /\ ValuesInv' /\ SizeInv'
        /\ LengthInv' /\ SinceInv'
        /\ \A q \in Requests : Near(q)' <=> Near(q)
    BY <1>1, <1>8, WorkerFrame
  <2>4. ~ Near(r)
    BY <1>3, <1>4, <1>6, <1>8
  <2>5. SearchInv'
    BY <1>1, <1>8, <2>1, <2>3, <2>4 DEF SearchInv
  <2>6. LostInv' /\ NeverAnothers'
    BY <1>1, <1>8, <2>3 DEF LostInv, NeverAnothers
  <2>7. QED
    BY <2>2, <2>3, <2>5, <2>6
<1>9. CASE /\ key = seq[r]
           /\ index' = [index EXCEPT ![r] = mid(r)]
           /\ worker' = [worker EXCEPT ![r] = "value"]
           /\ UNCHANGED <<lo, hi>>
  <2>1. /\ index'[r] = mid(r) /\ \A q \in Requests \ {r} : index'[q] = index[q]
        /\ worker'[r] = "value" /\ \A q \in Requests \ {r} : worker'[q] = worker[q]
    BY <1>9 DEF TypeOK
  <2>2. TypeOK'
    BY <1>1, <1>4, <1>9 DEF TypeOK
  <2>3. /\ NumberInv' /\ PhaseInv' /\ KeysInv' /\ ValuesInv' /\ SizeInv'
        /\ LengthInv' /\ SinceInv'
        /\ \A q \in Requests : Near(q)' <=> Near(q)
    BY <1>1, <2>1, WorkerFrame
  <2>4. mid(r) = seq[r] - 1
    BY <1>3, <1>4, <1>5, <1>9
  <2>5. SearchInv'
    BY <1>1, <1>9, <2>1, <2>3, <2>4 DEF SearchInv
  <2>6. LostInv' /\ NeverAnothers'
    BY <1>1, <2>1, <2>3 DEF LostInv, NeverAnothers
  <2>7. QED
    BY <2>2, <2>3, <2>5, <2>6
<1>10. QED
  BY <1>2, <1>7, <1>8, <1>9 DEF Probed

LEMMA GetNothingStep ==
    ASSUME IInv, NEW r \in Requests, GetNothing(r)
    PROVE  IInv'
<1> USE DEF IInv
<1>1. /\ worker[r] = "search" /\ worker' = [worker EXCEPT ![r] = "lost"]
      /\ lo[r] <= hi[r] => mid(r) >= array[r]
      /\ UNCHANGED <<caller, current, gSeq, seq, mKeys, mValues, mSize, since>>
      /\ UNCHANGED <<array, lo, hi, index, got>>
  BY DEF GetNothing, At, field, lookup, search
<1>2. worker'[r] = "lost" /\ \A q \in Requests \ {r} : worker'[q] = worker[q]
  BY <1>1 DEF TypeOK
<1>3. TypeOK'
  BY <1>1 DEF TypeOK
<1>4. /\ NumberInv' /\ PhaseInv' /\ KeysInv' /\ ValuesInv' /\ SizeInv'
      /\ LengthInv' /\ SinceInv'
      /\ \A q \in Requests : Near(q)' <=> Near(q)
  BY <1>1, <1>2, WorkerFrame
<1>5. ~ Near(r)
  <2> SUFFICES ASSUME Near(r)
               PROVE  FALSE
    OBVIOUS
  <2>1. /\ seq[r] \in Nat \ {0} /\ since[r][1] = seq[r] + 1
        /\ seq[r] + 1 \in 1 .. Len(mKeys) /\ Len(mKeys) \in Nat
    BY <1>1, SinceOwn
  <2>2. lo[r] <= seq[r] - 1 /\ seq[r] - 1 <= hi[r] /\ hi[r] <= seq[r]
    BY <1>1 DEF SearchInv
  <2>3. lo[r] \in Nat /\ hi[r] \in Nat /\ lo[r] <= hi[r]
    <3>1. lo[r] \in Nat /\ hi[r] \in Nat \cup {-1}
      BY DEF TypeOK
    <3>2. QED
      BY <2>1, <2>2, <3>1
  <2>4. mid(r) \in Nat /\ mid(r) <= seq[r] - 1
    BY <2>1, <2>2, <2>3, Middle DEF mid
  <2>5. PICK v \in since[r][1] .. Len(mKeys) : array[r] = mKeys[v].length
    BY <1>1 DEF SearchInv
  <2>6. v \in 1 .. Len(mKeys) /\ v >= seq[r] + 1
    BY <2>1
  <2>7. array[r] >= v - 1 /\ array[r] \in Nat
    BY <2>5, <2>6 DEF LengthInv, TypeOK
  <2>8. QED
    BY <1>1, <2>1, <2>3, <2>4, <2>6, <2>7
<1>6. SearchInv'
  BY <1>1, <1>2, <1>4 DEF SearchInv
<1>7. LostInv' /\ NeverAnothers'
  BY <1>1, <1>2, <1>4, <1>5 DEF LostInv, NeverAnothers
<1>8. QED
  BY <1>3, <1>4, <1>6, <1>7

LEMMA GetValueStep ==
    ASSUME IInv, NEW r \in Requests, GetValue(r)
    PROVE  IInv'
<1> USE DEF IInv
<1>1. /\ worker[r] = "value"
      /\ UNCHANGED <<caller, current, gSeq, seq, mKeys, mValues, mSize, since>>
      /\ UNCHANGED <<array, lo, hi, index>>
  BY DEF GetValue, field, search
<1> PICK v \in since[r][2] .. Len(mValues) :
        \E value \in Visible(mValues, since[r][2], mValues[v].length, index[r], Null) :
           /\ got' = [got EXCEPT ![r] = value]
           /\ worker' = [worker EXCEPT ![r] = IF value = Null THEN "lost" ELSE "called"]
  BY DEF GetValue
<1>2. PICK value \in Visible(mValues, since[r][2], mValues[v].length, index[r], Null) :
        /\ got' = [got EXCEPT ![r] = value]
        /\ worker' = [worker EXCEPT ![r] = IF value = Null THEN "lost" ELSE "called"]
  OBVIOUS
<1>3. value = r \/ (value = Null /\ Replaced(r))
  BY <1>1, VisibleValue
<1>4. /\ worker'[r] = (IF value = Null THEN "lost" ELSE "called")
      /\ got'[r] = value
      /\ \A q \in Requests \ {r} : worker'[q] = worker[q] /\ got'[q] = got[q]
  BY <1>2 DEF TypeOK
<1>5. worker'[r] \in {"lost", "called"}
  BY <1>4
<1>6. TypeOK'
  BY <1>1, <1>2, <1>3 DEF TypeOK
<1>7. /\ NumberInv' /\ PhaseInv' /\ KeysInv' /\ ValuesInv' /\ SizeInv'
      /\ LengthInv' /\ SinceInv'
      /\ \A q \in Requests : Near(q)' <=> Near(q)
  BY <1>1, <1>4, <1>5, WorkerFrame
<1>8. SearchInv'
  BY <1>1, <1>4, <1>5, <1>7 DEF SearchInv
<1>9. worker'[r] = "called" => got'[r] = r
  BY <1>3, <1>4
<1>10. NeverAnothers'
  BY <1>1, <1>4, <1>9 DEF NeverAnothers
<1>11. worker'[r] = "lost" => Replaced(r)
  BY <1>3, <1>4, CallbackMapAssumption
<1>12. LostInv'
  BY <1>1, <1>4, <1>7, <1>11 DEF LostInv, Near
<1>13. QED
  BY <1>6, <1>7, <1>8, <1>10, <1>12

-------------------------------------------------------------------------------
LEMMA StepInv == IInv /\ [Next]_vars => IInv'
<1> SUFFICES ASSUME IInv, [Next]_vars
             PROVE  IInv'
  OBVIOUS
<1>1. CASE UNCHANGED vars
  <2>1. /\ UNCHANGED <<caller, current, gSeq, seq, mKeys, mValues, mSize, since, worker>>
        /\ UNCHANGED <<array, lo, hi, index, got>>
    BY <1>1 DEF vars, field, lookup, search
  <2>2. TypeOK' /\ NumberInv' /\ PhaseInv' /\ KeysInv' /\ ValuesInv' /\ SizeInv'
    BY <2>1 DEF IInv, TypeOK, NumberInv, PhaseInv, KeysInv, ValuesInv, SizeInv
  <2>3. LengthInv' /\ SinceInv' /\ NeverAnothers'
    BY <2>1 DEF IInv, LengthInv, SinceInv, NeverAnothers
  <2>4. \A q \in Requests : Near(q)' <=> Near(q)
    BY <2>1 DEF Near, Replaced, Last
  <2>5. SearchInv' /\ LostInv'
    BY <2>1, <2>4 DEF IInv, SearchInv, LostInv
  <2>6. QED
    BY <2>2, <2>3, <2>5 DEF IInv
<1>2. CASE Terminated
  BY <1>1, <1>2 DEF Terminated
<1>3. ASSUME NEW r \in Requests, Worker(r)
      PROVE  IInv'
  BY <1>3, GetKeysStep, GetSizeStep, ProbeStep, GetNothingStep, GetValueStep DEF Worker
<1>4. ASSUME NEW r \in Requests, Number(r)
      PROVE  IInv'
  BY <1>4, NumberStep
<1>5. QED
  BY <1>1, <1>2, <1>3, <1>4, PutKeyStep, PutValueStep, PutSizeStep, CommitStep DEF Next

(* IInv is an invariant of the specification. *)
THEOREM Invariance == Spec => []IInv
<1>1. QED
  BY InitInv, StepInv, PTL DEF Spec

(* Every variable keeps its type: an index is never below -1, and no worker gets
   anything but a callback or nothing. *)
THEOREM TypeCorrect == Spec => []TypeOK
<1>1. IInv => TypeOK
  BY DEF IInv
<1>2. QED
  BY <1>1, Invariance, PTL

(* A worker never gets the callback of another request, for any number of requests
   registered meanwhile and any versions of the fields and entries it reads. *)
THEOREM NobodyGetsAnothers == Spec => []NeverAnothers
<1>1. IInv => NeverAnothers
  BY DEF IInv
<1>2. QED
  BY <1>1, Invariance, PTL

(* As many requests are later than r as the counter has gone on. *)
LEMMA LaterMany ==
    ASSUME IInv, NEW r \in Requests, gSeq > seq[r] + 1
    PROVE  Cardinality(Later(r)) >= 2
<1>1. gSeq \in Nat /\ seq \in [Requests -> Nat]
  BY DEF IInv, TypeOK
<1>2. seq[r] + 1 \in 1 .. gSeq /\ seq[r] + 2 \in 1 .. gSeq
  BY <1>1
<1>3. PICK p \in Requests : seq[p] = seq[r] + 1
  BY <1>2 DEF IInv, NumberInv
<1>4. PICK q \in Requests : seq[q] = seq[r] + 2
  BY <1>2 DEF IInv, NumberInv
<1>5. p # q /\ {p, q} \in SUBSET Later(r)
  BY <1>1, <1>3, <1>4 DEF Later
<1>6. IsFiniteSet(Later(r))
  <2> DEFINE number == [x \in Later(r) |-> seq[x]]
  <2>1. \A x \in Later(r) : seq[x] \in 1 .. gSeq
    BY <1>1 DEF Later, IInv, NumberInv
  <2>2. \A x, y \in Later(r) : seq[x] = seq[y] => x = y
    BY <1>1 DEF Later, IInv, NumberInv
  <2>3. number \in Injection(Later(r), 1 .. gSeq)
    BY <2>1, <2>2 DEF Injection, IsInjective
  <2>4. IsFiniteSet(1 .. gSeq)
    BY <1>1, FS_Interval
  <2>5. QED
    BY <2>3, <2>4, FS_Injection
<1>7. IsFiniteSet({p}) /\ Cardinality({p}) = 1
  BY FS_Singleton
<1>8. Cardinality({p, q}) = 2
  <2>1. {p, q} = {p} \cup {q}
    OBVIOUS
  <2>2. Cardinality({p} \cup {q}) = IF q \in {p} THEN Cardinality({p}) ELSE Cardinality({p}) + 1
    BY <1>7, FS_AddElement
  <2>3. q \notin {p}
    BY <1>5
  <2>4. QED
    BY <1>7, <2>1, <2>2, <2>3
<1>9. Cardinality({p, q}) <= Cardinality(Later(r)) /\ Cardinality(Later(r)) \in Nat
  BY <1>5, <1>6, FS_Subset, FS_CardinalityType
<1>10. QED
  BY <1>8, <1>9

(* A callback is lost only if two requests have been registered since, or the arrays
   have been replaced: the search never probes a single entry behind its own. *)
THEOREM SingleLaterIsHarmless == Spec => []LostOnlyAmongMany
<1>1. IInv => LostOnlyAmongMany
  <2> SUFFICES ASSUME IInv, NEW r \in Requests, worker[r] = "lost", ~ Replaced(r)
               PROVE  Cardinality(Later(r)) >= 2
    BY DEF LostOnlyAmongMany
  <2>1. gSeq > seq[r] + 1
    BY DEF IInv, LostInv, Near, TypeOK
  <2>2. QED
    BY <2>1, LaterMany
<1>2. QED
  BY <1>1, Invariance, PTL
===============================================================================
