--------------------------- MODULE RequestTextProofs ---------------------------
(***************************************************************************)
(* What is sent for a request: the document of a PUT, for documents and    *)
(* buffers of every size (PutReader), and the URL, for all hosts, paths,   *)
(* keys and values (UrlText).                                              *)
(***************************************************************************)
EXTENDS PutReader, UrlText, SequenceTheorems, WellFoundedInduction, TLAPS

(* What has been sent is as long as the offset says. *)
Counted == offset = Len(sent)

(* Only a buffer shorter than the document leaves a rest of it to be sent. *)
RestNeedsPieces == 0 < offset /\ offset < len => \E b \in offered : b < len

IInv ==
    /\ TypeOK
    /\ InOrder
    /\ Counted
    /\ RestNeedsPieces
    /\ WholeWhenSent
    /\ OverrunOnlyInPieces

-------------------------------------------------------------------------------
(* A piece that is appended where the sequence ends continues it. *)
LEMMA PieceContinues ==
    ASSUME NEW s \in Seq(Nat), NEW k \in Nat,
           \A i \in DOMAIN s : s[i] = i - 1
    PROVE  LET t == s \o [i \in 1 .. k |-> Len(s) + i - 1]
           IN  /\ t \in Seq(Nat)
               /\ Len(t) = Len(s) + k
               /\ \A i \in DOMAIN t : t[i] = i - 1
<1> DEFINE p == [i \in 1 .. k |-> Len(s) + i - 1]
           t == s \o p
<1>1. Len(s) \in Nat
  OBVIOUS
<1>2. p \in Seq(Nat) /\ Len(p) = k
  <2>1. \A i \in 1 .. k : Len(s) + i - 1 \in Nat
    BY <1>1
  <2>2. p \in [1 .. k -> Nat]
    BY <2>1
  <2> QED
    BY <2>2
<1>3. t \in Seq(Nat) /\ Len(t) = Len(s) + k
  BY <1>1, <1>2
<1>4. ASSUME NEW i \in DOMAIN t
      PROVE  t[i] = i - 1
  <2>1. i \in 1 .. Len(s) + k
    BY <1>3
  <2>2. CASE i <= Len(s)
    <3>1. t[i] = s[i] /\ i \in DOMAIN s
      BY <1>1, <1>2, <2>1, <2>2
    <3> QED
      BY <3>1
  <2>3. CASE i > Len(s)
    <3>1. t[i] = p[i - Len(s)] /\ i - Len(s) \in 1 .. k
      BY <1>1, <1>2, <2>1, <2>3
    <3>2. p[i - Len(s)] = Len(s) + (i - Len(s)) - 1
      BY <3>1
    <3> QED
      BY <1>1, <2>1, <3>1, <3>2
  <2> QED
    BY <1>1, <2>1, <2>2, <2>3
<1> QED
  BY <1>3, <1>4

-------------------------------------------------------------------------------
LEMMA InitInv == Init => IInv
  BY DEF Init, IInv, TypeOK, InOrder, Counted, RestNeedsPieces, WholeWhenSent,
         OverrunOnlyInPieces

(* A piece that read_callback gives keeps the invariant. *)
LEMMA ReadInv ==
    ASSUME IInv, NEW b \in Buffers, read_callback(b)
    PROVE  IInv'
<1> USE DEF IInv
<1>1. b \in Nat /\ b > 0
  BY PutReaderAssumption
<1>2. /\ len \in Nat /\ offset \in Nat /\ offset < len /\ sent \in Seq(Nat)
      /\ offset = Len(sent)
      /\ len' = len /\ phase' = phase /\ phase = "sending"
  BY DEF TypeOK, Counted, read_callback
<1>3. /\ Piece(b) \in Nat
      /\ Piece(b) <= len
      /\ Piece(b) < len => b < len
      /\ offset' = offset + Piece(b)
  BY <1>1, <1>2 DEF Piece, Advance, read_callback
<1>4. sent' = sent \o [i \in 1 .. Piece(b) |-> Len(sent) + i - 1]
  BY <1>2 DEF read_callback
<1>5. /\ sent' \in Seq(Nat)
      /\ Len(sent') = Len(sent) + Piece(b)
      /\ \A i \in DOMAIN sent' : sent'[i] = i - 1
  BY <1>2, <1>3, <1>4, PieceContinues DEF InOrder
<1>6. offered' = offered \cup {b}
  BY DEF read_callback
<1>7. TypeOK'
  BY <1>2, <1>3, <1>5, <1>6 DEF TypeOK
<1>8. InOrder' /\ Counted'
  BY <1>2, <1>3, <1>5 DEF InOrder, Counted
<1>9. \/ b < len
      \/ offset = 0 /\ offset' = len
      \/ \E c \in offered : c < len
  <2>1. CASE offset = 0
    BY <1>1, <1>2, <1>3, <2>1
  <2>2. CASE offset > 0
    BY <1>2, <2>2 DEF RestNeedsPieces
  <2> QED
    BY <1>2, <2>1, <2>2
<1>10. offset' = len \/ \E c \in offered' : c < len'
  BY <1>2, <1>6, <1>9
<1>11. RestNeedsPieces'
  BY <1>2, <1>10 DEF RestNeedsPieces
<1>12. OverrunOnlyInPieces'
  <2>1. Len(sent') = offset' /\ Len(sent') < 2 * len'
    BY <1>2, <1>3, <1>5
  <2> QED
    BY <1>2, <1>10, <2>1 DEF OverrunOnlyInPieces
<1>13. WholeWhenSent'
  BY <1>2 DEF WholeWhenSent
<1> QED
  BY <1>7, <1>8, <1>11, <1>12, <1>13

LEMMA StepInv == IInv /\ [Next]_vars => IInv'
<1> SUFFICES ASSUME IInv, [Next]_vars
             PROVE  IInv'
  OBVIOUS
<1> USE DEF IInv
<1>1. ASSUME NEW n \in Lengths, set_json(n)
      PROVE  IInv'
  <2>1. n \in Nat
    BY PutReaderAssumption
  <2> QED
    BY <1>1, <2>1 DEF set_json, Offset, TypeOK, InOrder, Counted, RestNeedsPieces,
                      WholeWhenSent, OverrunOnlyInPieces
<1>2. ASSUME NEW b \in Buffers, read_callback(b)
      PROVE  IInv'
  BY <1>2, ReadInv
<1>3. CASE End
  BY <1>3 DEF End, AtEnd, TypeOK, InOrder, Counted, RestNeedsPieces, WholeWhenSent,
              OverrunOnlyInPieces
<1>4. CASE Fail
  BY <1>4 DEF Fail, TypeOK, InOrder, Counted, RestNeedsPieces, WholeWhenSent,
              OverrunOnlyInPieces
<1>5. CASE UNCHANGED vars
  BY <1>5 DEF vars, TypeOK, InOrder, Counted, RestNeedsPieces, WholeWhenSent,
              OverrunOnlyInPieces
<1> QED
  BY <1>1, <1>2, <1>3, <1>4, <1>5 DEF Next

-------------------------------------------------------------------------------
THEOREM Invariance == Spec => []IInv
  BY InitInv, StepInv, PTL DEF Spec

(* Every value has its type: the offset is never negative and nothing is sent that
   is no position. *)
THEOREM TypeCorrect == Spec => []TypeOK
<1>1. IInv => TypeOK
  BY DEF IInv
<1> QED
  BY <1>1, Invariance, PTL

(* A body starts with its document, whatever the buffers libcurl chooses and however
   often the handle has been used before. *)
THEOREM SentInOrder == Spec => []InOrder
<1>1. IInv => InOrder
  BY DEF IInv
<1> QED
  BY <1>1, Invariance, PTL

(* A complete body has the whole document. *)
THEOREM SentWhole == Spec => []WholeWhenSent
<1>1. IInv => WholeWhenSent
  BY DEF IInv
<1> QED
  BY <1>1, Invariance, PTL

(* A document that fits every buffer is sent exactly, and no body reaches twice its
   document. *)
THEOREM OverrunBounded == Spec => []OverrunOnlyInPieces
<1>1. IInv => OverrunOnlyInPieces
  BY DEF IInv
<1> QED
  BY <1>1, Invariance, PTL

(* The body of a put is its document. *)
THEOREM DocumentSent == Spec => []SendsDocument
  BY SentInOrder, SentWhole, OverrunBounded, PTL DEF SendsDocument

-------------------------------------------------------------------------------
(* Induction over the naturals, for a set in place of a predicate. *)
LEMMA SetInduction ==
    ASSUME NEW S, 0 \in S, \A n \in Nat : n \in S => n + 1 \in S
    PROVE  Nat \subseteq S
<1> DEFINE R == OpToRel(<, Nat)
           T == {n \in Nat : n \notin S}
<1>1. ASSUME T # {} PROVE FALSE
  <2>1. T \subseteq Nat
    OBVIOUS
  <2>2. IsWellFoundedOn(R, Nat)
    BY NatLessThanWellFounded
  <2> HIDE DEF R
  <2>3. PICK m \in T : \A y \in T : ~ (<<y, m>> \in R)
    BY <1>1, <2>1, <2>2, WFMin
  <2>4. m \in Nat /\ m \notin S /\ m # 0 /\ m - 1 \in Nat
    OBVIOUS
  <2>5. m - 1 \in T
    BY <2>4
  <2>6. <<m - 1, m>> \in R
    BY <2>4 DEF R, OpToRel
  <2> QED
    BY <2>3, <2>5, <2>6
<1> QED
  BY <1>1

(* A set of positions has a last one. *)
LEMMA HasLast ==
    ASSUME NEW n \in Nat, NEW D \in SUBSET (1 .. n), D # {}
    PROVE  \E i \in D : \A j \in D : j <= i
<1> DEFINE S == {m \in Nat : (\E i \in D : i <= m) =>
                                \E i \in D : i <= m /\ \A j \in D : j <= m => j <= i}
<1>1. 0 \in S
  OBVIOUS
<1>2. ASSUME NEW m \in Nat, m \in S PROVE m + 1 \in S
  <2>1. CASE m + 1 \in D
    <3>1. \A j \in D : j <= m + 1 => j <= m + 1
      OBVIOUS
    <3> QED
      BY <2>1, <3>1
  <2>2. CASE m + 1 \notin D
    <3>1. \A j \in D : j <= m + 1 <=> j <= m
      BY <2>2
    <3> QED
      BY <1>2, <3>1
  <2> QED
    BY <2>1, <2>2
<1>3. n \in S
  <2> HIDE DEF S
  <2> QED
    BY <1>1, <1>2, SetInduction
<1>4. \A j \in D : j <= n
  OBVIOUS
<1> QED
  BY <1>3, <1>4

(* The prefixes of a flattened sequence. *)
LEMMA Flattened ==
    ASSUME NEW C, NEW s \in Seq(Seq(C))
    PROVE  \E f \in [0 .. Len(s) -> Seq(C)] :
              /\ f[0] = <<>>
              /\ \A i \in 1 .. Len(s) : f[i] = f[i - 1] \o s[i]
              /\ f[Len(s)] = FlattenSeq(s)
<1> DEFINE n == Len(s)
           Sat(g, m) == g = [i \in 1 .. m |-> IF i = 1 THEN s[i] ELSE g[i - 1] \o s[i]]
<1>1. n \in Nat /\ \A i \in 1 .. n : s[i] \in Seq(C)
  OBVIOUS
<1>2. CASE n = 0
  <2>1. s = <<>> /\ FlattenSeq(s) = <<>> /\ <<>> \in Seq(C)
    BY <1>2 DEF FlattenSeq
  <2> DEFINE f == [i \in 0 .. n |-> <<>>]
  <2>2. f \in [0 .. n -> Seq(C)] /\ f[0] = <<>> /\ f[n] = FlattenSeq(s)
        /\ \A i \in 1 .. n : f[i] = f[i - 1] \o s[i]
    BY <1>2, <2>1
  <2> QED
    BY <2>2
<1>3. CASE n # 0
  <2> DEFINE S == {m \in Nat : m <= n => \E g : Sat(g, m)}
  <2>1. 0 \in S
    <3> DEFINE g == [i \in 1 .. 0 |-> <<>>]
    <3>1. g = [i \in 1 .. 0 |-> IF i = 1 THEN s[i] ELSE g[i - 1] \o s[i]]
      OBVIOUS
    <3> QED
      BY <3>1
  <2>2. ASSUME NEW m \in Nat, m \in S PROVE m + 1 \in S
    <3> HIDE DEF Sat
    <3> SUFFICES ASSUME m + 1 <= n PROVE \E g : Sat(g, m + 1)
      OBVIOUS
    <3>0. m <= n
      BY <1>1
    <3>1. PICK g : Sat(g, m)
      BY <2>2, <3>0, Zenon
    <3> DEFINE h == [i \in 1 .. m + 1 |->
                       IF i = m + 1 THEN IF m = 0 THEN s[1] ELSE g[m] \o s[m + 1] ELSE g[i]]
    <3>2. ASSUME NEW i \in 1 .. m + 1
          PROVE  h[i] = IF i = 1 THEN s[i] ELSE h[i - 1] \o s[i]
      <4>1. CASE i = m + 1 /\ m = 0
        <5>1. i = 1 /\ h[i] = IF m = 0 THEN s[1] ELSE g[m] \o s[m + 1]
          BY <4>1
        <5> QED
          BY <4>1, <5>1
      <4>2. CASE i = m + 1 /\ m # 0
        <5>0. i # 1 /\ i - 1 = m /\ m \in 1 .. m + 1 /\ m # m + 1
          BY <4>2
        <5>1. h[i] = g[m] \o s[m + 1]
          BY <4>2
        <5>2. h[m] = g[m]
          BY <5>0
        <5> QED
          BY <4>2, <5>0, <5>1, <5>2
      <4>3. CASE i # m + 1
        <5>1. i \in 1 .. m /\ h[i] = g[i]
          BY <4>3
        <5>2. g[i] = IF i = 1 THEN s[i] ELSE g[i - 1] \o s[i]
          BY <3>1, <5>1 DEF Sat
        <5>3. i # 1 => i - 1 \in 1 .. m + 1 /\ i - 1 # m + 1
          BY <5>1
        <5>4. i # 1 => h[i - 1] = g[i - 1]
          BY <5>3
        <5> QED
          BY <5>1, <5>2, <5>4
      <4> QED
        BY <4>1, <4>2, <4>3
    <3>3. h = [i \in 1 .. m + 1 |-> h[i]]
      OBVIOUS
    <3> HIDE DEF h
    <3>4. [i \in 1 .. m + 1 |-> h[i]]
            = [i \in 1 .. m + 1 |-> IF i = 1 THEN s[i] ELSE h[i - 1] \o s[i]]
      BY <3>2
    <3>5. h = [i \in 1 .. m + 1 |-> IF i = 1 THEN s[i] ELSE h[i - 1] \o s[i]]
      BY <3>3, <3>4
    <3> QED
      BY <3>5 DEF Sat
  <2>3. \E g : Sat(g, n)
    <3>1. n \in S
      <4> HIDE DEF S
      <4> QED
        BY <1>1, <2>1, <2>2, SetInduction
    <3> HIDE DEF Sat
    <3>2. n <= n
      BY <1>1
    <3> QED
      BY <3>1, <3>2, Zenon
  <2> DEFINE flat == CHOOSE g : Sat(g, n)
  <2>4. Sat(flat, n)
    BY <2>3
  <2>5. FlattenSeq(s) = flat[n]
    BY <1>3 DEF FlattenSeq
  <2> HIDE DEF flat
  <2>6. ASSUME NEW i \in 1 .. n
        PROVE  (i = 1 => flat[i] = s[i]) /\ (i # 1 => flat[i] = flat[i - 1] \o s[i])
    <3> DEFINE e == [j \in 1 .. n |-> IF j = 1 THEN s[j] ELSE flat[j - 1] \o s[j]]
    <3>1. flat = e
      BY <2>4
    <3>2. e[i] = IF i = 1 THEN s[i] ELSE flat[i - 1] \o s[i]
      OBVIOUS
    <3> HIDE DEF e
    <3>3. flat[i] = IF i = 1 THEN s[i] ELSE flat[i - 1] \o s[i]
      BY <3>1, <3>2, Zenon
    <3> QED
      BY <3>3
  <2>7. \A i \in 1 .. n : flat[i] \in Seq(C)
    <3> DEFINE U == {m \in Nat : \A i \in 1 .. n : i = m => flat[i] \in Seq(C)}
    <3>1. 0 \in U
      OBVIOUS
    <3>2. ASSUME NEW m \in Nat, m \in U PROVE m + 1 \in U
      <4> SUFFICES ASSUME NEW i \in 1 .. n, i = m + 1 PROVE flat[i] \in Seq(C)
        OBVIOUS
      <4>1. s[i] \in Seq(C)
        BY <1>1
      <4>2. CASE i = 1
        <5>1. flat[i] = s[i]
          BY <2>6, <4>2, Zenon
        <5> QED
          BY <4>1, <5>1
      <4>3. CASE i # 1
        <5>1. flat[i] = flat[i - 1] \o s[i]
          BY <2>6, <4>3, Zenon
        <5>2. i - 1 \in 1 .. n /\ i - 1 = m
          BY <4>3, <1>1
        <5>3. flat[i - 1] \in Seq(C)
          BY <3>2, <5>2
        <5> QED
          BY <4>1, <5>1, <5>3, ConcatProperties
      <4> QED
        BY <4>2, <4>3
    <3>3. Nat \subseteq U
      <4> HIDE DEF U
      <4> QED
        BY <3>1, <3>2, SetInduction
    <3> QED
      BY <3>3
  <2> DEFINE f == [i \in 0 .. n |-> IF i = 0 THEN <<>> ELSE flat[i]]
  <2>8. f \in [0 .. n -> Seq(C)] /\ f[0] = <<>> /\ f[n] = FlattenSeq(s)
    <3>1. <<>> \in Seq(C)
      OBVIOUS
    <3>2. \A i \in 0 .. n : i = 0 \/ i \in 1 .. n
      BY <1>1
    <3> QED
      BY <1>1, <1>3, <2>5, <2>7, <3>1, <3>2
  <2>9. ASSUME NEW i \in 1 .. n PROVE f[i] = f[i - 1] \o s[i]
    <3>1. i \in 0 .. n /\ i # 0 /\ f[i] = flat[i] /\ i - 1 \in 0 .. n
      BY <1>1
    <3>2. CASE i = 1
      <4>1. flat[i] = s[i]
        BY <2>6, <3>2, Zenon
      <4>2. f[i - 1] = <<>>
        BY <3>1, <3>2
      <4> QED
        BY <3>1, <4>1, <4>2, <1>1, ConcatEmptySeq
    <3>3. CASE i # 1
      <4>1. flat[i] = flat[i - 1] \o s[i]
        BY <2>6, <3>3, Zenon
      <4>2. f[i - 1] = flat[i - 1]
        BY <3>1, <3>3
      <4> QED
        BY <3>1, <4>1, <4>2
    <3> QED
      BY <3>2, <3>3
  <2> HIDE DEF f
  <2> QED
    BY <2>8, <2>9
<1> QED
  BY <1>2, <1>3

(* A sequence ends as the one behind it does, unless that is empty. *)
LEMMA EndOfConcat ==
    ASSUME NEW C, NEW s \in Seq(C), NEW t \in Seq(C), t # <<>>
    PROVE  Last(s \o t) = Last(t) /\ s \o t # <<>>
<1>1. Len(t) \in Nat \ {0} /\ Len(s) \in Nat
  BY EmptySeq, LenProperties
<1>2. /\ Len(s \o t) = Len(s) + Len(t)
      /\ \A i \in 1 .. Len(s) + Len(t) :
            (s \o t)[i] = IF i <= Len(s) THEN s[i] ELSE t[i - Len(s)]
  BY ConcatProperties
<1>3. /\ Len(s) + Len(t) \in 1 .. Len(s) + Len(t) /\ ~ (Len(s) + Len(t) <= Len(s))
      /\ Len(s) + Len(t) - Len(s) = Len(t)
  BY <1>1
<1>4. (s \o t)[Len(s \o t)] = t[Len(t)]
  BY <1>2, <1>3
<1>5. s \o t # <<>>
  BY ConcatEqualIffEmpty
<1> QED
  BY <1>4, <1>5 DEF Last

(* What comes up to p - 1. *)
LEMMA Predecessor ==
    ASSUME NEW p \in Int, NEW q \in Int
    PROVE  (q <= p /\ q # p <=> q <= p - 1) /\ (q < p <=> q <= p - 1)
OBVIOUS

(* An item behind others and a separator, with another separator behind it. *)
LEMMA OneMore ==
    ASSUME NEW C, NEW d \in Seq(C), NEW j \in Seq(C), NEW t \in Seq(C)
    PROVE  (j \o d) \o (t \o d) = (j \o (d \o t)) \o d
<1>1. j \o d \in Seq(C)
  BY ConcatProperties
<1>2. (j \o d) \o t = j \o (d \o t)
  BY ConcatAssociative
<1>3. ((j \o d) \o t) \o d = (j \o d) \o (t \o d)
  BY <1>1, ConcatAssociative
<1> QED
  BY <1>2, <1>3

(* ... and it ends as the item does. *)
LEMMA OneMoreEnd ==
    ASSUME NEW C, NEW d \in Seq(C), NEW j \in Seq(C), NEW t \in Seq(C), t # <<>>
    PROVE  j \o (d \o t) # <<>> /\ Last(j \o (d \o t)) = Last(t)
<1>1. j \o d \in Seq(C) /\ (j \o d) \o t = j \o (d \o t)
  BY ConcatProperties, ConcatAssociative
<1> QED
  BY <1>1, EndOfConcat

(* Whatever is followed by a separator each, and the same with the separators in
   between: they differ by the last separator. *)
(* F[p] has the first p of the items T at the places G, each followed by d ... *)
Followed(F, T, G, d, m) ==
    /\ F[0] = <<>>
    /\ \A p \in 1 .. m : F[p] = F[p - 1] \o IF p \in G THEN T[p] \o d ELSE <<>>

(* ... and J[p] has them with d in between. *)
Separated(J, T, G, d, m) ==
    /\ J[0] = <<>>
    /\ \A p \in 1 .. m :
          J[p] = J[p - 1] \o IF p \notin G THEN <<>>
                             ELSE (IF \E q \in G : q < p THEN d ELSE <<>>) \o T[p]

LEMMA Separators ==
    ASSUME NEW d \in Seq(Char), NEW m \in Nat, NEW G \in SUBSET (1 .. m),
           NEW T \in [1 .. m -> Seq(Char)], \A p \in G : T[p] # <<>>,
           NEW F \in [0 .. m -> Seq(Char)], Followed(F, T, G, d, m),
           NEW J \in [0 .. m -> Seq(Char)], Separated(J, T, G, d, m)
    PROVE  IF G = {} THEN F[m] = <<>> /\ J[m] = <<>>
           ELSE /\ F[m] = J[m] \o d
                /\ \E l \in G : /\ \A q \in G : q <= l
                                /\ J[m] # <<>> /\ Last(J[m]) = Last(T[l])
<1> DEFINE Some(p) == \E q \in G : q <= p
           Rel(p) == IF Some(p)
                     THEN /\ F[p] = J[p] \o d
                          /\ \E l \in G : /\ l <= p /\ \A q \in G : q <= p => q <= l
                                          /\ J[p] # <<>> /\ Last(J[p]) = Last(T[l])
                     ELSE F[p] = <<>> /\ J[p] = <<>>
           S == {p \in Nat : p <= m => Rel(p)}
<1>1. <<>> \in Seq(Char)
  OBVIOUS
<1>2. Rel(0)
  BY DEF Followed, Separated
<1>3. ASSUME NEW k \in Nat, k \in S PROVE k + 1 \in S
  <2> HIDE DEF Rel
  <2> SUFFICES ASSUME k + 1 <= m PROVE Rel(k + 1)
    OBVIOUS
  <2> PICK p : p = k + 1
    OBVIOUS
  <2>1. p \in 1 .. m /\ p - 1 \in 0 .. m /\ p \in 0 .. m /\ p - 1 = k /\ k <= m
    OBVIOUS
  <2>2. Rel(p - 1)
    BY <1>3, <2>1, Zenon
  <2> DEFINE f == F[p - 1]
             j == J[p - 1]
             t == T[p]
  <2>3. f \in Seq(Char) /\ j \in Seq(Char) /\ t \in Seq(Char)
    BY <2>1
  <2>0. /\ F[p] = f \o IF p \in G THEN t \o d ELSE <<>>
        /\ J[p] = j \o IF p \notin G THEN <<>>
                       ELSE (IF \E q \in G : q < p THEN d ELSE <<>>) \o t
    BY <2>1, Zenon DEF Followed, Separated
  <2> USE DEF Rel
  <2>4. CASE p \notin G
    <3>1. F[p] = f \o <<>> /\ J[p] = j \o <<>>
      BY <2>0, <2>4
    <3>2. F[p] = F[p - 1] /\ J[p] = J[p - 1]
      BY <2>3, <3>1, ConcatEmptySeq
    <3>3. ASSUME NEW q \in G PROVE q <= p <=> q <= p - 1
      <4>1. q \in 1 .. m /\ q # p
        BY <2>4, Zenon
      <4>2. q \in Int /\ p \in Int
        BY <2>1, <4>1
      <4> QED
        BY <4>1, <4>2, Predecessor, Zenon
    <3>4. Some(p) <=> Some(p - 1)
      BY <3>3
    <3>5. CASE Some(p)
      <4>1. F[p - 1] = J[p - 1] \o d
        BY <2>2, <3>4, <3>5
      <4>2. PICK l \in G : /\ l <= p - 1 /\ \A q \in G : q <= p - 1 => q <= l
                           /\ J[p - 1] # <<>> /\ Last(J[p - 1]) = Last(T[l])
        BY <2>2, <3>4, <3>5
      <4> QED
        BY <3>2, <3>3, <3>5, <4>1, <4>2
    <3>6. CASE ~ Some(p)
      BY <2>2, <3>2, <3>4, <3>6
    <3> QED
      BY <3>5, <3>6
  <2>5. CASE p \in G
    <3>0. Some(p) /\ p <= p /\ \A q \in G : q <= p => q <= p
      BY <2>1, <2>5
    <3>1. (\E q \in G : q < p) <=> Some(p - 1)
      <4>1. ASSUME NEW q \in G PROVE q < p <=> q <= p - 1
        <5>1. q \in Int /\ p \in Int
          BY <2>1
        <5> QED
          BY <5>1, Predecessor, Zenon
      <4> QED
        BY <4>1
    <3>2. F[p] = f \o (t \o d)
      BY <2>0, <2>5
    <3>3. t # <<>>
      BY <2>5
    <3>4. ASSUME NEW u \in Seq(Char), J[p] = u \o t
          PROVE  J[p] # <<>> /\ Last(J[p]) = Last(t)
      BY <2>3, <3>3, <3>4, EndOfConcat
    <3>5. CASE Some(p - 1)
      <4>1. J[p] = j \o (d \o t) /\ f = j \o d
        BY <2>0, <2>2, <2>5, <3>1, <3>5
      <4>2. F[p] = J[p] \o d /\ J[p] # <<>> /\ Last(J[p]) = Last(t)
        <5>1. (j \o d) \o (t \o d) = (j \o (d \o t)) \o d
          <6> HIDE DEF f, j, t, Some
          <6> QED
            BY <2>3, OneMore
        <5>2. j \o (d \o t) # <<>> /\ Last(j \o (d \o t)) = Last(t)
          BY <2>3, <3>3, OneMoreEnd
        <5> QED
          BY <3>2, <4>1, <5>1, <5>2
      <4> QED
        BY <2>5, <3>0, <4>2
    <3>6. CASE ~ Some(p - 1)
      <4>1. J[p] = j \o (<<>> \o t) /\ f = <<>> /\ j = <<>>
        BY <2>0, <2>2, <2>5, <3>1, <3>6
      <4> HIDE DEF f, j, t
      <4>2. J[p] = <<>> \o t /\ <<>> \o t = t
        BY <2>3, <4>1, ConcatEmptySeq
      <4>3. F[p] = t \o d
        <5>1. t \o d \in Seq(Char)
          BY <1>1, <2>3, ConcatProperties
        <5> QED
          BY <3>2, <4>1, <5>1, ConcatEmptySeq
      <4>4. F[p] = J[p] \o d
        BY <4>2, <4>3
      <4>5. J[p] # <<>> /\ Last(J[p]) = Last(T[p])
        BY <1>1, <3>4, <4>2 DEF t
      <4> QED
        BY <2>5, <3>0, <4>4, <4>5
    <3> QED
      BY <3>5, <3>6
  <2>6. Rel(p)
    BY <2>4, <2>5
  <2> QED
    BY <2>6, Zenon
<1>4. Rel(m)
  <2> HIDE DEF Rel
  <2>1. 0 \in S
    BY <1>2
  <2>2. Nat \subseteq S
    <3> HIDE DEF S
    <3> QED
      BY <1>3, <2>1, SetInduction
  <2> QED
    BY <2>2
<1>5. Rel(m) /\ \A q \in G : q <= m
  <2>1. \A q \in G : q <= m
    OBVIOUS
  <2> HIDE DEF Rel
  <2> QED
    BY <1>4, <2>1
<1>6. CASE G = {}
  BY <1>5, <1>6
<1>7. CASE G # {}
  <2>1. Some(m)
    BY <1>5, <1>7
  <2> QED
    BY <1>5, <1>7, <2>1
<1> QED
  BY <1>6, <1>7

-------------------------------------------------------------------------------
(* What is taken from the end of a text. *)
LEMMA WithoutLast ==
    ASSUME NEW C, NEW t \in Seq(C), NEW c \in C
    PROVE  Without(t \o <<c>>, c) = t /\ EndsWith(t \o <<c>>, c)
<1> DEFINE w == t \o <<c>>
           n == Len(t)
<1>1. <<c>> \in Seq(C) /\ Len(<<c>>) = 1 /\ <<c>>[1] = c
  OBVIOUS
<1>2. w \in Seq(C) /\ Len(w) = n + 1 /\ n \in Nat
      /\ \A i \in 1 .. n + 1 : w[i] = IF i <= n THEN t[i] ELSE <<c>>[i - n]
  <2> DEFINE u == <<c>>
  <2>1. u \in Seq(C) /\ Len(u) = 1
    BY <1>1
  <2> HIDE DEF u
  <2>2. /\ t \o u \in Seq(C) /\ Len(t \o u) = Len(t) + Len(u)
        /\ \A i \in 1 .. Len(t) + Len(u) :
              (t \o u)[i] = IF i <= Len(t) THEN t[i] ELSE u[i - Len(t)]
    BY <2>1, ConcatProperties
  <2> QED
    BY <2>1, <2>2, Zenon, LenProperties DEF u
<1> HIDE DEF w
<1>3. w # <<>> /\ Last(w) = c
  <2>1. n + 1 \in 1 .. n + 1 /\ ~ (n + 1 <= n) /\ n + 1 - n = 1
    BY <1>2
  <2>2. w[n + 1] = c
    BY <1>1, <1>2, <2>1
  <2> QED
    BY <1>2, <2>2 DEF Last
<1>4. Front(w) = t
  <2>1. /\ SubSeq(w, 1, n) \in Seq(C)
        /\ Len(SubSeq(w, 1, n)) = n
        /\ \A i \in 1 .. n : SubSeq(w, 1, n)[i] = w[i]
    BY <1>2
  <2>2. \A i \in 1 .. n : w[i] = t[i]
    BY <1>2
  <2>3. SubSeq(w, 1, n) = t
    BY <2>1, <2>2, SeqEqual
  <2>4. Len(w) - 1 = n
    BY <1>2
  <2> QED
    BY <2>3, <2>4 DEF Front
<1> QED
  BY <1>3, <1>4 DEF Without, EndsWith, w

(* A text that ends with c is the one without it, and c. *)
LEMMA EndsWithSplit ==
    ASSUME NEW C, NEW t \in Seq(C), NEW c, EndsWith(t, c)
    PROVE  t = Without(t, c) \o <<c>> /\ Without(t, c) \in Seq(C)
<1>1. Len(t) \in Nat \ {0} /\ t[Len(t)] = c
  BY EmptySeq DEF EndsWith, Last
<1>2. SubSeq(t, 1, Len(t)) = t
  BY SubSeqFull
<1>3. 1 \in 1 .. Len(t) /\ Len(t) \in 1 .. Len(t)
  BY <1>1
<1>4. SubSeq(t, 1, Len(t)) = SubSeq(t, 1, Len(t) - 1) \o <<t[Len(t)]>>
  BY <1>3, SubSeqRecursiveSecond
<1>5. SubSeq(t, 1, Len(t) - 1) \in Seq(C)
  BY <1>1
<1> QED
  BY <1>1, <1>2, <1>4, <1>5 DEF Without, Front

(* What is left of a text is a text. *)
LEMMA WithoutType ==
    ASSUME NEW C, NEW t \in Seq(C), NEW c
    PROVE  Without(t, c) \in Seq(C)
<1>1. CASE EndsWith(t, c)
  BY <1>1, EndsWithSplit
<1>2. CASE ~ EndsWith(t, c)
  BY <1>2 DEF Without
<1> QED
  BY <1>1, <1>2

Associative(S) == \A a, b, c \in S : (a \o b) \o c = a \o (b \o c)

(* Concatenation is associative. *)
LEMMA Associated ==
    ASSUME NEW C
    PROVE  Associative(Seq(C))
BY ConcatAssociative DEF Associative

(* The texts of the separators. *)
LEMMA Chars ==
    {"/", "?", "&", "="} \subseteq Char /\ <<>> \in Texts /\ <<"/">> \in Texts
    /\ <<"&">> \in Texts
<1>1. "/" \in Char /\ "?" \in Char /\ "&" \in Char /\ "=" \in Char
  BY UrlAssumption
<1> QED
  BY <1>1 DEF Texts

(* The texts that begin with none of the first n of A behind b, with one, and so on. *)
Appended(f, A, b, n) ==
    f[0] = <<>> /\ \A i \in 1 .. n : f[i] = f[i - 1] \o A[b + i]

LEMMA InARow ==
    ASSUME NEW n \in Nat, NEW A \in [1 .. 2 * n -> Texts],
           NEW f \in [0 .. n -> Texts], Appended(f, A, 0, n),
           NEW g \in [0 .. n -> Texts], Appended(g, A, n, n)
    PROVE  \E F \in [0 .. 2 * n -> Texts] :
              /\ Appended(F, A, 0, 2 * n)
              /\ F[2 * n] = f[n] \o g[n]
<1> DEFINE F == [p \in 0 .. 2 * n |-> IF p <= n THEN f[p] ELSE f[n] \o g[p - n]]
<1>a. Associative(Texts)
  BY Associated DEF Texts
<1>b. \A u \in Texts, v \in Texts : u \o v \in Texts
  BY ConcatProperties DEF Texts
<1>c. \A u \in Texts : u \o <<>> = u
  BY ConcatEmptySeq DEF Texts
<1>0. f[n] \in Texts /\ <<>> \in Texts /\ g[0] = <<>>
  BY Chars DEF Appended
<1>1. ASSUME NEW p \in 0 .. 2 * n PROVE F[p] \in Texts
  <2>1. CASE p <= n
    <3>1. p \in 0 .. n
      BY <2>1
    <3> QED
      BY <2>1, <3>1
  <2>2. CASE ~ (p <= n)
    <3>1. p - n \in 0 .. n
      BY <2>2
    <3>2. g[p - n] \in Texts
      BY <3>1
    <3>3. f[n] \o g[p - n] \in Texts
      BY <1>0, <3>2, <1>b, Zenon
    <3> QED
      BY <2>2, <3>3
  <2> QED
    BY <2>1, <2>2
<1>2. F[0] = <<>>
  BY DEF Appended
<1>3. ASSUME NEW p \in 1 .. 2 * n PROVE F[p] = F[p - 1] \o A[p]
  <2>0. p - 1 \in 0 .. 2 * n /\ p \in 0 .. 2 * n /\ A[p] \in Texts
    OBVIOUS
  <2>1. CASE p <= n
    <3>1. p \in 1 .. n /\ p - 1 <= n
      BY <2>1
    <3>2. F[p] = f[p] /\ F[p - 1] = f[p - 1]
      BY <2>0, <2>1, <3>1
    <3>3. f[p] = f[p - 1] \o A[p]
      <4>1. 0 + p = p
        OBVIOUS
      <4> QED
        BY <3>1, <4>1 DEF Appended
    <3> QED
      BY <3>2, <3>3
  <2>2. CASE ~ (p <= n)
    <3> DEFINE q == p - n
    <3>1. q \in 1 .. n /\ q - 1 \in 0 .. n /\ n + q = p
      BY <2>2
    <3>2. g[q] = g[q - 1] \o A[p]
      BY <3>1 DEF Appended
    <3>3. F[p] = f[n] \o g[q]
      BY <2>0, <2>2
    <3>4. F[p - 1] = f[n] \o g[q - 1]
      <4>1. CASE q = 1
        <5>1. p - 1 = n /\ q - 1 = 0 /\ p - 1 <= n
          BY <3>1, <4>1
        <5>2. F[p - 1] = f[n]
          BY <2>0, <5>1
        <5>3. f[n] \o g[q - 1] = f[n]
          <6>1. g[q - 1] = <<>>
            BY <1>0, <5>1
          <6> QED
            BY <1>0, <6>1, <1>c
        <5> QED
          BY <5>2, <5>3
      <4>2. CASE q # 1
        <5>1. ~ (p - 1 <= n) /\ p - 1 - n = q - 1
          BY <3>1, <4>2
        <5> QED
          BY <2>0, <5>1
      <4> QED
        BY <4>1, <4>2
    <3>5. g[q - 1] \in Texts
      BY <3>1
    <3> HIDE DEF F, q
    <3>6. (f[n] \o g[q - 1]) \o A[p] = f[n] \o (g[q - 1] \o A[p])
      BY <1>0, <2>0, <3>5, <1>a, Zenon DEF Associative
    <3> QED
      BY <3>2, <3>3, <3>4, <3>6
  <2> QED
    BY <2>1, <2>2
<1>4. F[2 * n] = f[n] \o g[n]
  <2>1. CASE n = 0
    <3>1. F[2 * n] = f[n]
      BY <2>1
    <3>2. f[n] \o g[n] = f[n]
      BY <1>0, <2>1, <1>c
    <3> QED
      BY <3>1, <3>2
  <2>2. CASE n # 0
    <3>1. 2 * n \in 0 .. 2 * n /\ ~ (2 * n <= n) /\ 2 * n - n = n
      BY <2>2
    <3> QED
      BY <3>1
  <2> QED
    BY <2>1, <2>2
<1>5. F \in [0 .. 2 * n -> Texts]
  BY <1>1
<1> HIDE DEF F
<1>6. Appended(F, A, 0, 2 * n)
  <2>1. ASSUME NEW i \in 1 .. 2 * n PROVE 0 + i = i
    OBVIOUS
  <2> QED
    BY <1>2, <1>3, <2>1 DEF Appended
<1> QED
  BY <1>4, <1>5, <1>6

(* A text that does not end with a character loses nothing. *)
LEMMA Unchanged ==
    ASSUME NEW t, NEW c, t = <<>> \/ Last(t) # c
    PROVE  Without(t, c) = t /\ ~ EndsWith(t, c)
BY DEF Without, EndsWith

(* the resource with its question mark, as get_url has it before the parameters *)
Started(r) == IF r = <<>> \/ EndsWith(r, "?") THEN r ELSE Append(r, "?")

(* A resource with the question mark that precedes the parameters, which it may
   have had before. *)
LEMMA StartedText ==
    ASSUME NEW C, "?" \in C, NEW r \in Seq(C)
    PROVE  /\ Started(r) \in Seq(C)
           /\ Started(r) = Without(r, "?") \o (IF r = <<>> THEN <<>> ELSE <<"?">>)
           /\ r # <<>> => Started(r) # <<>> /\ Last(Started(r)) = "?"
           /\ Without(Started(r), "?") = Without(r, "?")
<1>1. CASE r = <<>>
  <2>1. Without(r, "?") = <<>> /\ Started(r) = <<>>
    BY <1>1 DEF Without, EndsWith, Started
  <2>2. <<>> \o <<>> = <<>>
    BY <1>1, ConcatEmptySeq
  <2> QED
    BY <1>1, <2>1, <2>2
<1>2. CASE EndsWith(r, "?")
  <2>1. Started(r) = r /\ r # <<>> /\ Last(r) = "?"
    BY <1>2 DEF EndsWith, Started
  <2>2. r = Without(r, "?") \o <<"?">>
    BY <1>2, EndsWithSplit
  <2> QED
    BY <2>1, <2>2
<1>3. CASE r # <<>> /\ ~ EndsWith(r, "?")
  <2>1. Started(r) = Append(r, "?") /\ Without(r, "?") = r
    BY <1>3 DEF Started, Without
  <2>2. Append(r, "?") = r \o <<"?">> /\ Append(r, "?") \in Seq(C)
    BY AppendIsConcat, AppendProperties
  <2>3. Without(r \o <<"?">>, "?") = r /\ EndsWith(r \o <<"?">>, "?")
    BY WithoutLast
  <2> QED
    BY <1>3, <2>1, <2>2, <2>3 DEF EndsWith
<1> QED
  BY <1>1, <1>2, <1>3

(* Without parameters the question mark goes again. *)
LEMMA NothingGiven ==
    ASSUME NEW C, "?" \in C, "&" \in C, NEW r \in Seq(C)
    PROVE  Without(Without(Started(r) \o <<>>, "&"), "?") = Without(r, "?") \o <<>>
<1> DEFINE s == Started(r)
<1>1. s \in Seq(C)
  BY StartedText
<1>2. s = <<>> \/ Last(s) = "?"
  <2>1. r = <<>> => s = <<>>
    BY DEF Started
  <2> QED
    BY <2>1, StartedText
<1>3. Without(s, "?") = Without(r, "?")
  BY StartedText
<1>4. Without(r, "?") \in Seq(C)
  BY WithoutType
<1> HIDE DEF s
<1>5. s \o <<>> = s /\ Without(r, "?") \o <<>> = Without(r, "?")
  BY <1>1, <1>4, ConcatEmptySeq
<1>6. Without(s, "&") = s
  BY <1>2, Unchanged
<1> QED
  BY <1>3, <1>5, <1>6 DEF s

(* With parameters what goes is the separator behind the last of them. *)
LEMMA SomethingGiven ==
    ASSUME NEW C, "?" \in C, "&" \in C, NEW r \in Seq(C),
           NEW j \in Seq(C), j # <<>>, Last(j) # "?"
    PROVE  Without(Without(Started(r) \o (j \o <<"&">>), "&"), "?")
              = Without(r, "?") \o ((IF r = <<>> THEN <<>> ELSE <<"?">>) \o j)
<1> DEFINE s == Started(r)
           q == IF r = <<>> THEN <<>> ELSE <<"?">>
           u == Without(r, "?")
<1>1. s \in Seq(C) /\ s = u \o q
  BY StartedText
<1>2. u \in Seq(C) /\ q \in Seq(C) /\ <<"&">> \in Seq(C)
  BY WithoutType
<1> HIDE DEF s, q, u
<1>3. Associative(Seq(C))
  BY Associated
<1>4. s \o (j \o <<"&">>) = (s \o j) \o <<"&">>
  BY <1>1, <1>2, <1>3, Zenon DEF Associative
<1>5. s \o j \in Seq(C)
  BY <1>1, ConcatProperties
<1>6. Without((s \o j) \o <<"&">>, "&") = s \o j
  BY <1>5, WithoutLast
<1>7. Last(s \o j) = Last(j) /\ s \o j # <<>>
  BY <1>1, EndOfConcat
<1>8. Without(s \o j, "?") = s \o j
  BY <1>7, Unchanged
<1>9. (u \o q) \o j = u \o (q \o j)
  BY <1>2, <1>3, Zenon DEF Associative
<1>10. Without(s \o (j \o <<"&">>), "&") = s \o j
  BY <1>4, <1>6
<1>11. s \o j = u \o (q \o j)
  BY <1>1, <1>9
<1> QED
  BY <1>8, <1>10, <1>11 DEF s, q, u

-------------------------------------------------------------------------------
(* the parameters of the last request *)
Map == gen_map(keys, values)

(* The last position of a key is the greatest one. *)
LEMMA LastMention ==
    ASSUME NEW ks \in Seq(Texts), NEW k, NEW D, D = {i \in DOMAIN ks : ks[i] = k}, D # {}
    PROVE  Assigned(ks, k) \in D /\ Assigned(ks, k) = Max(D)
<1>1. Len(ks) \in Nat /\ DOMAIN ks = 1 .. Len(ks)
  OBVIOUS
<1>2. D \in SUBSET (1 .. Len(ks))
  BY <1>1
<1>3. PICK m \in D : \A j \in D : j <= m
  BY <1>1, <1>2, HasLast
<1>4. \A x \in D : x \in Int
  BY <1>1, <1>2
<1>5. Max(D) = m
  <2>1. \A y \in D : m >= y
    BY <1>3, <1>4
  <2>2. \A x \in D : (\A y \in D : x >= y) => x = m
    BY <1>3, <1>4
  <2> QED
    BY <2>1, <2>2 DEF Max
<1>6. Assigned(ks, k) = m
  <2> DEFINE P(i) == ks[i] = k /\ \A j \in i + 1 .. Len(ks) : ks[j] # k
  <2>1. m \in DOMAIN ks /\ P(m)
    <3>1. ASSUME NEW j \in m + 1 .. Len(ks), ks[j] = k PROVE FALSE
      <4>1. j \in DOMAIN ks /\ j > m
        BY <1>1, <1>2
      <4>2. j \in D
        BY <3>1, <4>1
      <4> QED
        BY <1>3, <1>4, <4>1, <4>2
    <3> QED
      BY <3>1
  <2>2. ASSUME NEW x \in DOMAIN ks, P(x) PROVE x = m
    <3>1. x \in D /\ x <= m
      BY <1>3, <2>2
    <3>2. x # m => m \in x + 1 .. Len(ks)
      BY <1>1, <1>2, <3>1
    <3>3. ks[m] = k
      OBVIOUS
    <3> QED
      BY <2>2, <3>2, <3>3
  <2>3. Assigned(ks, k) = CHOOSE i \in DOMAIN ks : P(i)
    BY DEF Assigned
  <2> HIDE DEF P
  <2> QED
    BY <2>1, <2>2, <2>3
<1> QED
  BY <1>5, <1>6

(* gen_map has a key when the lists do, with the value given last. *)
LEMMA ParametersOfRequest ==
    ASSUME keys \in Seq(Texts), values \in Seq(Texts), NEW k
    PROVE  /\ k \in DOMAIN Map <=> Mentions(k) # {}
           /\ k \in DOMAIN Map => /\ Map[k] = values[Max(Mentions(k))]
                                  /\ Map[k] \in Texts
<1>1. CASE Len(keys) # Len(values)
  <2>1. Mentions(k) = {} /\ DOMAIN Map = {}
    BY <1>1 DEF Mentions, Map, gen_map, NoParams
  <2> QED
    BY <2>1
<1>2. CASE Len(keys) = Len(values)
  <2> DEFINE D == {i \in DOMAIN keys : keys[i] = k}
  <2>1. Mentions(k) = D
    BY <1>2 DEF Mentions
  <2>2. Map = [j \in {keys[i] : i \in DOMAIN keys} |-> values[Assigned(keys, j)]]
    BY <1>2 DEF Map, gen_map
  <2>3. k \in DOMAIN Map <=> D # {}
    BY <2>2
  <2>4. ASSUME D # {}
        PROVE  Map[k] = values[Max(D)] /\ Map[k] \in Texts
    <3> HIDE DEF D
    <3>1. Assigned(keys, k) \in D /\ Assigned(keys, k) = Max(D)
      BY <2>4, LastMention DEF D
    <3>2. Max(D) \in DOMAIN values
      BY <1>2, <3>1 DEF D
    <3>3. Map[k] = values[Max(D)]
      BY <2>2, <2>3, <2>4, <3>1
    <3>4. values[Max(D)] \in Texts
      BY <3>2
    <3> QED
      BY <3>3, <3>4
  <2> QED
    BY <2>1, <2>3, <2>4
<1> QED
  BY <1>1, <1>2

(* "key=value" ends as the value does, or with the equals sign. *)
LEMMA TextOfPair ==
    ASSUME NEW C, NEW k \in Seq(C), NEW v \in Seq(C), NEW e \in C
    PROVE  /\ k \o <<e>> \o v \in Seq(C) /\ k \o <<e>> \o v # <<>>
           /\ \/ Last(k \o <<e>> \o v) = e
              \/ v # <<>> /\ Last(k \o <<e>> \o v) = Last(v)
<1> DEFINE u == k \o <<e>>
<1>1. <<e>> \in Seq(C) /\ <<e>> # <<>> /\ Last(<<e>>) = e
  BY DEF Last
<1>2. u \in Seq(C)
  BY <1>1, ConcatProperties
<1>3. u # <<>> /\ Last(u) = e
  BY <1>1, EndOfConcat
<1> HIDE DEF u
<1>4. u \o v \in Seq(C)
  BY <1>2, ConcatProperties
<1>5. CASE v = <<>>
  <2>1. u \o v = u
    BY <1>2, <1>5, ConcatEmptySeq
  <2> QED
    BY <1>3, <1>4, <2>1 DEF u
<1>6. CASE v # <<>>
  <2>1. Last(u \o v) = Last(v) /\ u \o v # <<>>
    BY <1>2, <1>6, EndOfConcat
  <2> QED
    BY <1>4, <1>6, <2>1 DEF u
<1> QED
  BY <1>5, <1>6

(* What is behind a slash is a text. *)
LEMMA BehindType ==
    ASSUME NEW C, NEW t \in Seq(C), NEW c
    PROVE  Behind(t, c) \in Seq(C)
<1>1. CASE t = <<>>
  BY <1>1 DEF Behind
<1>2. CASE t # <<>>
  <2>1. Tail(t) \in Seq(C)
    BY <1>2, HeadTailProperties
  <2> QED
    BY <2>1 DEF Behind
<1> QED
  BY <1>1, <1>2

(* Host and path are put together with one slash. *)
LEMMA Addressed ==
    ASSUME m_host \in Texts, str_path \in Texts
    PROVE  Without(Base(m_host, str_path), "/") = Resource /\ Resource \in Texts
<1> DEFINE r == IF m_host = <<>> THEN str_path
                ELSE Without(m_host, "/") \o <<"/">> \o Behind(str_path, "/")
<1>1. Base(m_host, str_path) = r
  <2>1. CASE m_host = <<>>
    BY <2>1 DEF Base
  <2>2. CASE m_host # <<>> /\ EndsWith(m_host, "/")
    <3>1. m_host = Without(m_host, "/") \o <<"/">>
      BY <2>2, Chars, EndsWithSplit DEF Texts
    <3> QED
      BY <2>2, <3>1 DEF Base
  <2>3. CASE m_host # <<>> /\ ~ EndsWith(m_host, "/")
    <3>1. Without(m_host, "/") = m_host
      BY <2>3 DEF Without
    <3>2. Append(m_host, "/") = m_host \o <<"/">>
      BY Chars, AppendIsConcat DEF Texts
    <3> QED
      BY <2>3, <3>1, <3>2 DEF Base
  <2> QED
    BY <2>1, <2>2, <2>3
<1>2. r \in Texts
  <2>1. Behind(str_path, "/") \in Texts
    BY BehindType DEF Texts
  <2>2. Without(m_host, "/") \in Texts
    BY WithoutType DEF Texts
  <2>3. <<"/">> \in Texts
    BY Chars
  <2> HIDE DEF Texts
  <2>4. Without(m_host, "/") \o <<"/">> \in Texts
    BY <2>2, <2>3, ConcatProperties DEF Texts
  <2>5. Without(m_host, "/") \o <<"/">> \o Behind(str_path, "/") \in Texts
    BY <2>1, <2>4, ConcatProperties DEF Texts
  <2> QED
    BY <2>5
<1>3. Resource = Without(r, "/")
  BY DEF Resource
<1> HIDE DEF r
<1> QED
  BY <1>1, <1>2, <1>3, WithoutType DEF Texts

N == Len(KeyOrder)

(* What the loop over a map has appended after each key. *)
LEMMA WrittenPrefixes ==
    ASSUME NEW map, \A k \in DOMAIN map : map[k] \in Texts, NEW b \in Nat,
           NEW A, \A i \in 1 .. N :
                     A[b + i] = IF KeyOrder[i] \in DOMAIN map
                                THEN KeyOrder[i] \o <<"=">> \o map[KeyOrder[i]] \o <<"&">>
                                ELSE <<>>
    PROVE  \E f \in [0 .. N -> Texts] : Appended(f, A, b, N) /\ f[N] = Written(map)
<1>1. N \in Nat /\ DOMAIN KeyOrder = 1 .. N /\ \A i \in 1 .. N : KeyOrder[i] \in Texts
  BY UrlAssumption DEF N
<1> DEFINE piece(k) == IF k \in DOMAIN map THEN k \o <<"=">> \o map[k] \o <<"&">> ELSE <<>>
           s == [i \in DOMAIN KeyOrder |-> piece(KeyOrder[i])]
<1>2. ASSUME NEW i \in 1 .. N PROVE piece(KeyOrder[i]) \in Texts
  <2> DEFINE k == KeyOrder[i]
  <2>1. k \in Texts /\ <<>> \in Texts /\ <<"&">> \in Texts
    BY <1>1, Chars
  <2>2. CASE k \in DOMAIN map
    <3> DEFINE v == map[k]
    <3>1. v \in Texts
      BY <2>2
    <3> HIDE DEF v, k
    <3>2. k \o <<"=">> \o v \in Texts
      BY <2>1, <3>1, Chars, TextOfPair DEF Texts
    <3>3. k \o <<"=">> \o v \o <<"&">> \in Texts
      BY <2>1, <3>2, ConcatProperties DEF Texts
    <3> QED
      BY <2>2, <3>3 DEF v, k
  <2>3. CASE k \notin DOMAIN map
    BY <2>1, <2>3
  <2> QED
    BY <2>2, <2>3
<1>3. \A i \in 1 .. N : A[b + i] = piece(KeyOrder[i])
  OBVIOUS
<1>4. Written(map) = FlattenSeq(s)
  BY DEF Written
<1> HIDE DEF piece
<1>5. s \in Seq(Texts) /\ Len(s) = N /\ \A i \in 1 .. N : s[i] = piece(KeyOrder[i])
  BY <1>1, <1>2
<1> HIDE DEF s
<1>6. PICK f \in [0 .. N -> Texts] :
              /\ f[0] = <<>>
              /\ \A i \in 1 .. N : f[i] = f[i - 1] \o s[i]
              /\ f[N] = FlattenSeq(s)
  BY <1>5, Flattened DEF Texts
<1>7. Appended(f, A, b, N)
  <2>1. \A i \in 1 .. N : s[i] = A[b + i]
    BY <1>3, <1>5
  <2> QED
    BY <1>6, <2>1 DEF Appended
<1> QED
  BY <1>4, <1>6, <1>7

(* Everything that has been given is a text. *)
TextTypes ==
    /\ m_host \in Texts /\ str_path \in Texts
    /\ \A k \in DOMAIN m_basic_params : m_basic_params[k] \in Texts
    /\ keys \in Seq(Texts) /\ values \in Seq(Texts)

Amp == <<"&">>
(* what is given at a place, without and with the separator *)
PairAt(p) == IF p \in Given THEN Key(p) \o <<"=">> \o Value(p) ELSE <<>>
Pairs == [p \in Places |-> PairAt(p)]
PieceAt(p) == IF p \in Given THEN Key(p) \o <<"=">> \o Value(p) \o <<"&">> ELSE <<>>

(* The places, their keys and the values given for them. *)
LEMMA PlaceTypes ==
    ASSUME TextTypes
    PROVE  /\ N \in Nat /\ Places = 1 .. 2 * N /\ Given \in SUBSET Places
           /\ \A p \in Places : Key(p) \in Texts
           /\ \A p \in Given : Value(p) \in Texts
<1>1. N \in Nat /\ Len(KeyOrder) = N /\ \A i \in 1 .. N : KeyOrder[i] \in Texts
  BY UrlAssumption DEF N
<1>2. Places = 1 .. 2 * N /\ Given \in SUBSET Places
  BY <1>1 DEF Places, Given
<1>3. ASSUME NEW p \in Places PROVE Key(p) \in Texts
  <2>1. (IF Own(p) THEN p ELSE p - Len(KeyOrder)) \in 1 .. N
    BY <1>1, <1>2 DEF Own
  <2> QED
    BY <1>1, <2>1 DEF Key
<1>4. ASSUME NEW p \in Given PROVE Value(p) \in Texts
  <2>1. CASE Own(p)
    <3>1. Mentions(Key(p)) # {}
      BY <2>1 DEF Given
    <3>2. Map[Key(p)] = values[Max(Mentions(Key(p)))] /\ Map[Key(p)] \in Texts
      BY <3>1, ParametersOfRequest DEF TextTypes
    <3> QED
      BY <2>1, <3>2 DEF Value
  <2>2. CASE ~ Own(p)
    <3>1. Key(p) \in DOMAIN m_basic_params
      BY <2>2 DEF Given
    <3> QED
      BY <2>2, <3>1 DEF Value, TextTypes
  <2> QED
    BY <2>1, <2>2
<1> QED
  BY <1>1, <1>2, <1>3, <1>4

(* The texts of what is given, without and with a separator. *)
LEMMA PairsText ==
    ASSUME TextTypes
    PROVE  /\ Amp \in Texts
           /\ Pairs \in [1 .. 2 * N -> Texts]
           /\ \A p \in Given : /\ Pairs[p] = Key(p) \o <<"=">> \o Value(p)
                               /\ Pairs[p] # <<>>
                               /\ \/ Last(Pairs[p]) = "="
                                  \/ Value(p) # <<>> /\ Last(Pairs[p]) = Last(Value(p))
           /\ \A p \in Places : PieceAt(p) = IF p \in Given THEN Pairs[p] \o Amp ELSE <<>>
           /\ \A p \in Places : PieceAt(p) \in Texts
<1>1. Amp \in Texts /\ <<>> \in Texts
  BY Chars DEF Amp
<1>2. ASSUME NEW p \in Places
      PROVE  /\ PairAt(p) \in Texts
             /\ p \in Given => /\ PairAt(p) = Key(p) \o <<"=">> \o Value(p)
                               /\ PairAt(p) # <<>>
                               /\ \/ Last(PairAt(p)) = "="
                                  \/ Value(p) # <<>> /\ Last(PairAt(p)) = Last(Value(p))
             /\ PieceAt(p) = IF p \in Given THEN PairAt(p) \o Amp ELSE <<>>
             /\ PieceAt(p) \in Texts
  <2>1. CASE p \in Given
    <3> DEFINE k == Key(p)
               v == Value(p)
    <3>1. k \in Texts /\ v \in Texts
      BY <2>1, PlaceTypes
    <3>2. PairAt(p) = k \o <<"=">> \o v
      BY <2>1 DEF PairAt
    <3>3. PieceAt(p) = k \o <<"=">> \o v \o Amp
      BY <2>1 DEF PieceAt, Amp
    <3> HIDE DEF k, v
    <3>4. /\ k \o <<"=">> \o v \in Texts /\ k \o <<"=">> \o v # <<>>
          /\ \/ Last(k \o <<"=">> \o v) = "="
             \/ v # <<>> /\ Last(k \o <<"=">> \o v) = Last(v)
      BY <3>1, Chars, TextOfPair DEF Texts
    <3>5. k \o <<"=">> \o v \o Amp \in Texts
      BY <1>1, <3>4, ConcatProperties DEF Texts
    <3> QED
      BY <2>1, <3>2, <3>3, <3>4, <3>5, Zenon DEF k, v
  <2>2. CASE p \notin Given
    BY <1>1, <2>2 DEF PairAt, PieceAt
  <2> QED
    BY <2>1, <2>2
<1>3. Places = 1 .. 2 * N /\ Given \subseteq Places
  BY PlaceTypes
<1>4. Pairs \in [1 .. 2 * N -> Texts] /\ \A p \in Places : Pairs[p] = PairAt(p)
  BY <1>2, <1>3 DEF Pairs
<1>5. ASSUME NEW p \in Given PROVE p \in Places /\ Pairs[p] = PairAt(p)
  BY <1>3, <1>4
<1> QED
  BY <1>1, <1>2, <1>4, <1>5, Zenon

(* The two loops of get_url append what is given at each place, with a separator. *)
LEMMA WrittenBoth ==
    ASSUME TextTypes
    PROVE  \E F \in [0 .. 2 * N -> Texts] :
              /\ Followed(F, Pairs, Given, Amp, 2 * N)
              /\ F[2 * N] = Written(Map) \o Written(m_basic_params)
<1>1. N \in Nat /\ Len(KeyOrder) = N /\ Places = 1 .. 2 * N /\ Given \subseteq Places
  BY PlaceTypes DEF N
<1> DEFINE A == [p \in 1 .. 2 * N |-> PieceAt(p)]
<1>2. A \in [1 .. 2 * N -> Texts] /\ \A p \in 1 .. 2 * N : A[p] = PieceAt(p)
  BY <1>1, PairsText
<1> HIDE DEF A
<1>3. ASSUME NEW i \in 1 .. N
      PROVE  A[0 + i] = IF KeyOrder[i] \in DOMAIN Map
                        THEN KeyOrder[i] \o <<"=">> \o Map[KeyOrder[i]] \o <<"&">>
                        ELSE <<>>
  <2>1. 0 + i = i /\ i \in Places /\ i \in 1 .. 2 * N /\ Own(i) /\ Key(i) = KeyOrder[i]
    BY <1>1 DEF Own, Key
  <2>2. i \in Given <=> Mentions(Key(i)) # {}
    BY <2>1 DEF Given
  <2>3. /\ Key(i) \in DOMAIN Map <=> Mentions(Key(i)) # {}
        /\ Key(i) \in DOMAIN Map => Map[Key(i)] = values[Max(Mentions(Key(i)))]
    BY ParametersOfRequest DEF TextTypes
  <2>4. Value(i) = values[Max(Mentions(Key(i)))]
    BY <2>1 DEF Value
  <2>5. PieceAt(i) = IF i \in Given THEN Key(i) \o <<"=">> \o Value(i) \o <<"&">> ELSE <<>>
    BY DEF PieceAt
  <2>6. A[0 + i] = PieceAt(i)
    BY <1>2, <2>1
  <2>7. CASE i \in Given
    BY <2>1, <2>2, <2>3, <2>4, <2>5, <2>6, <2>7, Zenon
  <2>8. CASE i \notin Given
    BY <2>1, <2>2, <2>3, <2>5, <2>6, <2>8, Zenon
  <2> QED
    BY <2>7, <2>8
<1>4. ASSUME NEW i \in 1 .. N
      PROVE  A[N + i] = IF KeyOrder[i] \in DOMAIN m_basic_params
                        THEN KeyOrder[i] \o <<"=">> \o m_basic_params[KeyOrder[i]] \o <<"&">>
                        ELSE <<>>
  <2> DEFINE p == N + i
  <2>1. p \in Places /\ p \in 1 .. 2 * N /\ ~ Own(p) /\ p - Len(KeyOrder) = i
    BY <1>1 DEF Own
  <2> HIDE DEF p
  <2>2. Key(p) = KeyOrder[i]
    BY <2>1 DEF Key
  <2>3. p \in Given <=> Key(p) \in DOMAIN m_basic_params
    BY <2>1 DEF Given
  <2>4. Value(p) = m_basic_params[Key(p)]
    BY <2>1 DEF Value
  <2>5. PieceAt(p) = IF p \in Given THEN Key(p) \o <<"=">> \o Value(p) \o <<"&">> ELSE <<>>
    BY DEF PieceAt
  <2>6. A[p] = PieceAt(p)
    BY <1>2, <2>1
  <2>7. CASE p \in Given
    <3>1. KeyOrder[i] \in DOMAIN m_basic_params
      BY <2>2, <2>3, <2>7, Zenon
    <3>2. A[p] = KeyOrder[i] \o <<"=">> \o m_basic_params[KeyOrder[i]] \o <<"&">>
      BY <2>2, <2>4, <2>5, <2>6, <2>7, Zenon
    <3> QED
      BY <3>1, <3>2, Zenon DEF p
  <2>8. CASE p \notin Given
    <3>1. KeyOrder[i] \notin DOMAIN m_basic_params
      BY <2>2, <2>3, <2>8, Zenon
    <3>2. A[p] = <<>>
      BY <2>5, <2>6, <2>8, Zenon
    <3> QED
      BY <3>1, <3>2, Zenon DEF p
  <2> QED
    BY <2>7, <2>8
<1>5. \A k \in DOMAIN Map : Map[k] \in Texts
  BY ParametersOfRequest DEF TextTypes
<1>6. PICK f \in [0 .. N -> Texts] : Appended(f, A, 0, N) /\ f[N] = Written(Map)
  <2>1. 0 \in Nat
    OBVIOUS
  <2>2. \A i \in 1 .. N : A[0 + i] = IF KeyOrder[i] \in DOMAIN Map
                        THEN KeyOrder[i] \o <<"=">> \o Map[KeyOrder[i]] \o <<"&">>
                        ELSE <<>>
    BY <1>3
  <2> QED
    BY <1>5, <2>1, <2>2, WrittenPrefixes, Zenon
<1>7. PICK g \in [0 .. N -> Texts] : Appended(g, A, N, N) /\ g[N] = Written(m_basic_params)
  <2>1. \A k \in DOMAIN m_basic_params : m_basic_params[k] \in Texts
    BY DEF TextTypes
  <2>2. \A i \in 1 .. N : A[N + i] = IF KeyOrder[i] \in DOMAIN m_basic_params
                        THEN KeyOrder[i] \o <<"=">> \o m_basic_params[KeyOrder[i]] \o <<"&">>
                        ELSE <<>>
    BY <1>4
  <2> QED
    BY <1>1, <2>1, <2>2, WrittenPrefixes, Zenon
<1>8. PICK F \in [0 .. 2 * N -> Texts] : Appended(F, A, 0, 2 * N) /\ F[2 * N] = f[N] \o g[N]
  BY <1>1, <1>2, <1>6, <1>7, InARow, Zenon
<1>9. Followed(F, Pairs, Given, Amp, 2 * N)
  <2>1. ASSUME NEW p \in 1 .. 2 * N
        PROVE  F[p] = F[p - 1] \o IF p \in Given THEN Pairs[p] \o Amp ELSE <<>>
    <3>1. A[p] = IF p \in Given THEN Pairs[p] \o Amp ELSE <<>>
      BY <1>1, <1>2, PairsText, Zenon
    <3>2. 0 + p = p
      OBVIOUS
    <3>3. F[p] = F[p - 1] \o A[p]
      BY <1>8, <3>2, Zenon DEF Appended
    <3> QED
      BY <3>1, <3>3, Zenon
  <2> QED
    BY <1>8, <2>1, Zenon DEF Followed, Appended
<1> QED
  BY <1>6, <1>7, <1>8, <1>9, Zenon

(* The reference has what is given at each place, with separators in between. *)
LEMMA JoinedPrefixes ==
    ASSUME TextTypes
    PROVE  \E J \in [0 .. 2 * N -> Texts] :
              Separated(J, Pairs, Given, Amp, 2 * N) /\ J[2 * N] = Joined
<1>1. N \in Nat /\ Places = 1 .. 2 * N /\ Given \subseteq Places
  BY PlaceTypes
<1> DEFINE e(p) == IF p \notin Given THEN <<>>
                   ELSE (IF \E q \in Given : q < p THEN Amp ELSE <<>>) \o Pairs[p]
           s == [p \in Places |-> e(p)]
<1>2. Joined = FlattenSeq(s)
  <2>1. ASSUME NEW p \in Places
        PROVE  e(p) = IF p \notin Given THEN <<>>
                      ELSE (IF \E q \in Given : q < p THEN <<"&">> ELSE <<>>)
                           \o (Key(p) \o <<"=">> \o Value(p))
    <3>1. p \in Given => Pairs[p] = Key(p) \o <<"=">> \o Value(p)
      BY PairsText
    <3> QED
      BY <3>1 DEF Amp
  <2> HIDE DEF e
  <2>2. s = [p \in Places |->
               IF p \notin Given THEN <<>>
               ELSE (IF \E q \in Given : q < p THEN <<"&">> ELSE <<>>)
                    \o (Key(p) \o <<"=">> \o Value(p))]
    BY <2>1
  <2> QED
    BY <2>2, Zenon DEF Joined
<1>3. ASSUME NEW p \in Places PROVE e(p) \in Texts
  <2>1. CASE p \in Given
    <3> DEFINE a == IF \E q \in Given : q < p THEN Amp ELSE <<>>
               t == Pairs[p]
    <3>1. a \in Texts /\ t \in Texts
      BY <1>1, Chars, PairsText
    <3>2. e(p) = a \o t
      BY <2>1
    <3> HIDE DEF a, t, e
    <3>3. a \o t \in Texts
      BY <3>1, ConcatProperties DEF Texts
    <3> QED
      BY <3>2, <3>3
  <2>2. CASE p \notin Given
    BY <2>2, Chars
  <2> QED
    BY <2>1, <2>2
<1> HIDE DEF e
<1>4. s \in Seq(Texts) /\ Len(s) = 2 * N /\ \A p \in 1 .. 2 * N : s[p] = e(p)
  BY <1>1, <1>3
<1> HIDE DEF s
<1>5. PICK J \in [0 .. 2 * N -> Texts] :
              /\ J[0] = <<>>
              /\ \A p \in 1 .. 2 * N : J[p] = J[p - 1] \o s[p]
              /\ J[2 * N] = FlattenSeq(s)
  BY <1>4, Flattened DEF Texts
<1>6. Separated(J, Pairs, Given, Amp, 2 * N)
  <2>1. \A p \in 1 .. 2 * N : J[p] = J[p - 1] \o e(p)
    BY <1>4, <1>5, Zenon
  <2> QED
    BY <1>5, <2>1, Zenon DEF Separated, e
<1> QED
  BY <1>2, <1>5, <1>6, Zenon

-------------------------------------------------------------------------------
(* What get_url has returned is what it would return now. *)
UrlInv ==
    /\ TextTypes
    /\ url = <<>> \/ url = get_url(m_host, str_path, Map, m_basic_params)

(* Java's lists are sequences of texts. *)
LEMMA ListType ==
    ASSUME NEW S \in SUBSET Texts, NEW l \in Lists(S)
    PROVE  l \in Seq(Texts)
<1>1. PICK n \in 0 .. MaxParams : l \in [1 .. n -> S]
  BY DEF Lists
<1>2. n \in Nat
  BY <1>1, UrlAssumption
<1>3. l \in [1 .. n -> Texts]
  BY <1>1
<1> QED
  BY <1>2, <1>3

(* The invariant holds initially ... *)
LEMMA UrlInvInit == UrlInit => UrlInv
<1> SUFFICES ASSUME UrlInit PROVE UrlInv
  OBVIOUS
<1>1. <<>> \in Texts /\ <<>> \in Seq(Texts)
  BY Chars
<1>2. m_host = <<>> /\ str_path = <<>> /\ keys = <<>> /\ values = <<>> /\ url = <<>>
  BY DEF UrlInit
<1>3. DOMAIN m_basic_params = {}
  BY DEF UrlInit, NoParams
<1> QED
  BY <1>1, <1>2, <1>3 DEF UrlInv, TextTypes

(* ... and every operation keeps it. *)
LEMMA UrlInvNext == UrlInv /\ [UrlNext]_urlVars => UrlInv'
<1> SUFFICES ASSUME UrlInv, [UrlNext]_urlVars PROVE UrlInv'
  OBVIOUS
<1>0. <<>> \in Texts /\ <<>> \in Seq(Texts)
  BY Chars
<1>1. ASSUME NEW h \in Hosts, set_host(h) PROVE UrlInv'
  <2>1. h \in Texts
    BY UrlAssumption
  <2>2. m_host' = h /\ str_path' = <<>> /\ keys' = <<>> /\ values' = <<>> /\ url' = <<>>
        /\ m_basic_params' = m_basic_params
    BY <1>1 DEF set_host
  <2> QED
    BY <1>0, <2>1, <2>2 DEF UrlInv, TextTypes
<1>2. ASSUME NEW k \in Keys, NEW v \in Values, add_basic_url_params(k, v) PROVE UrlInv'
  <2>1. v \in Texts
    BY UrlAssumption
  <2>2. str_path' = <<>> /\ keys' = <<>> /\ values' = <<>> /\ url' = <<>> /\ m_host' = m_host
    BY <1>2 DEF add_basic_url_params
  <2>3. \A j \in DOMAIN m_basic_params' : m_basic_params'[j] \in Texts
    BY <1>2, <2>1 DEF add_basic_url_params, UrlInv, TextTypes
  <2> QED
    BY <1>0, <2>2, <2>3 DEF UrlInv, TextTypes
<1>3. ASSUME NEW p \in StrPaths, NEW ks \in Lists(Keys), NEW vs \in Lists(Values),
             get(p, ks, vs)
      PROVE  UrlInv'
  <2>1. p \in Texts
    BY UrlAssumption
  <2>2. Keys \in SUBSET Texts /\ Values \in SUBSET Texts
    BY UrlAssumption DEF Keys
  <2>3. ks \in Seq(Texts) /\ vs \in Seq(Texts)
    BY <2>2, ListType
  <2>4. /\ str_path' = p /\ keys' = ks /\ values' = vs
        /\ m_host' = m_host /\ m_basic_params' = m_basic_params
        /\ url' = get_url(m_host, p, gen_map(ks, vs), m_basic_params)
    BY <1>3 DEF get
  <2>5. Map' = gen_map(ks, vs)
    BY <2>4 DEF Map
  <2>6. url' = get_url(m_host', str_path', Map', m_basic_params')
    BY <2>4, <2>5
  <2>7. TextTypes'
    BY <2>1, <2>3, <2>4 DEF UrlInv, TextTypes
  <2> QED
    BY <2>6, <2>7 DEF UrlInv
<1>4. CASE UNCHANGED urlVars
  BY <1>4 DEF UrlInv, TextTypes, Map, urlVars, request
<1> QED
  BY <1>1, <1>2, <1>3, <1>4 DEF UrlNext

(* The URL of a request, as get_url computes it from the resource. *)
LEMMA UrlComputed ==
    ASSUME TextTypes, url = get_url(m_host, str_path, Map, m_basic_params)
    PROVE  url = Without(Without(Started(Resource) \o Written(Map)
                                   \o Written(m_basic_params), "&"), "?")
           /\ Resource \in Texts
<1>1. Without(Base(m_host, str_path), "/") = Resource /\ Resource \in Texts
  BY Addressed DEF TextTypes
<1> QED
  BY <1>1 DEF get_url, Started

(* What is written of a map is a text. *)
LEMMA WrittenType ==
    ASSUME NEW map, \A k \in DOMAIN map : map[k] \in Texts
    PROVE  Written(map) \in Texts
<1> DEFINE A == [i \in 1 .. N |-> IF KeyOrder[i] \in DOMAIN map
                                  THEN KeyOrder[i] \o <<"=">> \o map[KeyOrder[i]] \o <<"&">>
                                  ELSE <<>>]
<1>1. 0 \in Nat /\ N \in Nat
  BY UrlAssumption DEF N
<1>2. ASSUME NEW i \in 1 .. N
      PROVE  A[0 + i] = IF KeyOrder[i] \in DOMAIN map
                        THEN KeyOrder[i] \o <<"=">> \o map[KeyOrder[i]] \o <<"&">>
                        ELSE <<>>
  <2>1. 0 + i = i
    OBVIOUS
  <2> QED
    BY <2>1, Zenon
<1> HIDE DEF A
<1>3. PICK f \in [0 .. N -> Texts] : Appended(f, A, 0, N) /\ f[N] = Written(map)
  BY <1>1, <1>2, WrittenPrefixes, Zenon
<1> QED
  BY <1>1, <1>3

(* Separators, of texts. *)
LEMMA TextSeparators ==
    ASSUME NEW d \in Texts, NEW m \in Nat, NEW G \in SUBSET (1 .. m),
           NEW T \in [1 .. m -> Texts], \A p \in G : T[p] # <<>>,
           NEW F \in [0 .. m -> Texts], Followed(F, T, G, d, m),
           NEW J \in [0 .. m -> Texts], Separated(J, T, G, d, m)
    PROVE  IF G = {} THEN F[m] = <<>> /\ J[m] = <<>>
           ELSE /\ F[m] = J[m] \o d
                /\ \E l \in G : /\ \A q \in G : q <= l
                                /\ J[m] # <<>> /\ Last(J[m]) = Last(T[l])
BY Separators, Zenon DEF Texts

(* What get_url computes is what a reader of its arguments expects. *)
LEMMA GivenInv == UrlInv => UrlAsGiven
<1> SUFFICES ASSUME UrlInv, url # <<>>, Readable
             PROVE  url = Without(Resource, "?")
                          \o (IF Given = {} THEN <<>>
                              ELSE (IF Resource = <<>> THEN <<>> ELSE <<"?">>) \o Joined)
  BY DEF UrlAsGiven
<1> DEFINE r == Resource
           v == Written(Map)
           w == Written(m_basic_params)
<1>0. TextTypes /\ {"?", "&", "="} \subseteq Char
  BY Chars DEF UrlInv
<1>1. url = Without(Without(Started(r) \o v \o w, "&"), "?") /\ r \in Texts
  BY UrlComputed DEF UrlInv
<1>2. PICK F \in [0 .. 2 * N -> Texts] :
              Followed(F, Pairs, Given, Amp, 2 * N) /\ F[2 * N] = v \o w
  BY <1>0, WrittenBoth
<1>3. PICK J \in [0 .. 2 * N -> Texts] :
              Separated(J, Pairs, Given, Amp, 2 * N) /\ J[2 * N] = Joined
  BY <1>0, JoinedPrefixes
<1>4. /\ 2 * N \in Nat /\ Given \in SUBSET (1 .. 2 * N)
      /\ Amp \in Texts /\ Pairs \in [1 .. 2 * N -> Texts]
      /\ \A p \in Given : Pairs[p] # <<>>
  <2>1. N \in Nat /\ Places = 1 .. 2 * N /\ Given \in SUBSET Places
    BY <1>0, PlaceTypes
  <2> QED
    BY <1>0, <2>1, PairsText
<1>5. v \in Texts /\ w \in Texts
  <2>1. \A k \in DOMAIN Map : Map[k] \in Texts
    BY <1>0, ParametersOfRequest DEF TextTypes
  <2> QED
    BY <1>0, <2>1, WrittenType DEF TextTypes
<1>6. IF Given = {} THEN v \o w = <<>> /\ Joined = <<>>
      ELSE /\ v \o w = Joined \o Amp
           /\ \E l \in Given : /\ \A q \in Given : q <= l
                               /\ Joined # <<>> /\ Last(Joined) = Last(Pairs[l])
  <2> DEFINE m == 2 * N
  <2>1. /\ Amp \in Texts /\ m \in Nat /\ Given \in SUBSET (1 .. m)
        /\ Pairs \in [1 .. m -> Texts] /\ \A p \in Given : Pairs[p] # <<>>
        /\ F \in [0 .. m -> Texts] /\ Followed(F, Pairs, Given, Amp, m)
        /\ J \in [0 .. m -> Texts] /\ Separated(J, Pairs, Given, Amp, m)
    BY <1>2, <1>3, <1>4, Zenon
  <2>2. F[m] = v \o w /\ J[m] = Joined
    BY <1>2, <1>3, Zenon
  <2> HIDE DEF m
  <2>3. IF Given = {} THEN F[m] = <<>> /\ J[m] = <<>>
        ELSE /\ F[m] = J[m] \o Amp
             /\ \E l \in Given : /\ \A q \in Given : q <= l
                                 /\ J[m] # <<>> /\ Last(J[m]) = Last(Pairs[l])
    BY <2>1, TextSeparators
  <2> HIDE DEF v, w
  <2> QED
    BY <2>2, <2>3
<1>7. Joined \in Texts
  <2>1. 2 * N \in 0 .. 2 * N
    BY <1>4
  <2> QED
    BY <1>3, <2>1
<1> HIDE DEF r, v, w
<1>8. Started(r) \o v \o w = Started(r) \o (v \o w)
  <2>1. Started(r) \in Texts
    BY <1>0, <1>1, StartedText DEF Texts
  <2>2. Associative(Texts)
    BY Associated DEF Texts
  <2> QED
    BY <1>5, <2>1, <2>2, Zenon DEF Associative
<1>9. CASE Given = {}
  <2>1. v \o w = <<>>
    BY <1>6, <1>9
  <2>2. Without(Without(Started(r) \o <<>>, "&"), "?") = Without(r, "?") \o <<>>
    BY <1>0, <1>1, NothingGiven DEF Texts
  <2> QED
    BY <1>1, <1>8, <1>9, <2>1, <2>2, Zenon DEF r
<1>10. CASE Given # {}
  <2>1. v \o w = Joined \o Amp
    BY <1>6, <1>10
  <2>2. PICK l \in Given : /\ \A q \in Given : q <= l
                           /\ Joined # <<>> /\ Last(Joined) = Last(Pairs[l])
    BY <1>6, <1>10
  <2>3. Last(Joined) # "?"
    <3>1. ~ EndsWith(Value(l), "?")
      BY <2>2 DEF Readable
    <3>2. \/ Last(Pairs[l]) = "="
          \/ Value(l) # <<>> /\ Last(Pairs[l]) = Last(Value(l))
      BY <1>0, PairsText
    <3>3. CASE Last(Pairs[l]) = "="
      BY <2>2, <3>3
    <3>4. CASE Value(l) # <<>> /\ Last(Pairs[l]) = Last(Value(l))
      BY <2>2, <3>1, <3>4 DEF EndsWith
    <3> QED
      BY <3>2, <3>3, <3>4
  <2>4. Without(Without(Started(r) \o (Joined \o <<"&">>), "&"), "?")
          = Without(r, "?") \o ((IF r = <<>> THEN <<>> ELSE <<"?">>) \o Joined)
    BY <1>0, <1>1, <1>7, <2>2, <2>3, SomethingGiven DEF Texts
  <2> QED
    BY <1>1, <1>8, <1>10, <2>1, <2>4, Zenon DEF r, Amp
<1> QED
  BY <1>9, <1>10

(* All hosts, paths, keys and values are texts, and the URL is that of the last request:
   the operations of a RequestManager keep both (requestmanager.h:64-118). *)
THEOREM UrlInvariance == UrlSpec => []UrlInv
BY UrlInvInit, UrlInvNext, PTL DEF UrlSpec

(* The URL of a request has the host, the path, the parameters of the request and
   those of the manager, nothing lost, doubled or left over, whatever the texts are and
   however many parameters there are (requestmanager.h:328-390, jni.cpp:213-257). *)
THEOREM UrlIsAsGiven == UrlSpec => []UrlAsGiven
BY UrlInvariance, GivenInv, PTL
===============================================================================
