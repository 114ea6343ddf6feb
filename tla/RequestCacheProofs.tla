-------------------------- MODULE RequestCacheProofs --------------------------
(***************************************************************************)
(* Proofs about RequestCache, for any requests, handles and sizes.         *)
(***************************************************************************)
EXTENDS RequestCache, SequenceTheorems, TLAPS

(* A request has a handle from the call to the end of its closure, and is to
   the thread pool what its stage says. *)
StageInv ==
    \A r \in Requests :
        /\ held[r] # NoHandle <=> stage[r] \notin {"new", "gone"}
        /\ status[r] = "new" <=> stage[r] \in {"new", "configure", "commit"}
        /\ status[r] = "queued" <=> stage[r] = "queued"
        /\ status[r] = "running" <=>
              stage[r] \in {"go", "callback", "reuse", "add", "end"}
        /\ stage[r] \in {"reuse", "add"} => Cacheable(r)

(* Nothing of an earlier request is left in a handle that waits in a deque or
   that a request has just taken. *)
Clean(h) ==
    /\ handle[h].headers = {}
    /\ handle[h].valid => handle[h].cainfo = NoPath /\ handle[h].proxy = NoPath

CleanInv ==
    /\ \A p \in Pools : \A h \in Elements(pool[p]) : Clean(h)
    /\ \A r \in Requests : stage[r] \in {"configure", "add"} => Clean(held[r])

(* What a handle holds between its configuration and the callback, and that a
   request is not answered before. *)
AnswerInv ==
    \A r \in Requests :
        /\ stage[r] \in {"commit", "queued", "go", "callback"} =>
              /\ handle[held[r]].seq = {r}
              /\ handle[held[r]].valid => handle[held[r]].m_buffer \subseteq {r}
        /\ stage[r] = "callback" => handle[held[r]].valid
        /\ stage[r] \in {"new", "configure", "commit", "queued", "go", "callback"} =>
              answers[r] = <<>>

IInv ==
    /\ TypeOK
    /\ StageInv
    /\ ExclusiveHandle
    /\ CleanInv
    /\ ConfigOfRequest
    /\ AnswerInv
    /\ OwnAnswer

-------------------------------------------------------------------------------
(* What the two operations on the deques do. *)

LEMMA DropFront ==
    ASSUME NEW S, NEW s \in Seq(S), NEW i \in 1 .. Len(s) + 1,
           NEW t, t = SubSeq(s, i + 1, Len(s))
    PROVE  /\ t \in Seq(S)
           /\ Len(t) <= Len(s) /\ Len(t) \in Nat /\ DOMAIN t = 1 .. Len(t)
           /\ \A k \in DOMAIN t : k + i \in DOMAIN s /\ t[k] = s[k + i]
<1>1. /\ Len(s) \in Nat /\ DOMAIN s = 1 .. Len(s) /\ i \in Nat \ {0}
      /\ \A j \in i + 1 .. Len(s) : s[j] \in S
  OBVIOUS
<1>2. /\ t \in Seq(S)
      /\ Len(t) = IF i + 1 <= Len(s) THEN Len(s) - (i + 1) + 1 ELSE 0
      /\ \A k \in 1 .. Len(s) - (i + 1) + 1 : t[k] = s[i + 1 + k - 1]
  BY <1>1, SubSeqProperties
<1>3. DOMAIN t = 1 .. Len(t) /\ Len(t) \in Nat
  BY <1>2, LenProperties
<1>4. Len(t) <= Len(s) /\ \A k \in 1 .. Len(t) : k \in 1 .. Len(s) - (i + 1) + 1
  <2>1. i \in Nat /\ i >= 1 /\ Len(s) \in Nat
    BY <1>1
  <2>2. CASE i + 1 <= Len(s)
    <3>1. Len(t) = Len(s) - (i + 1) + 1
      BY <1>2, <2>2
    <3>2. Len(s) - (i + 1) + 1 <= Len(s)
      BY <2>1
    <3> QED
      BY <3>1, <3>2
  <2>3. CASE ~ (i + 1 <= Len(s))
    <3>1. Len(t) = 0
      BY <1>2, <2>3
    <3>2. 1 .. Len(t) = {}
      BY <3>1
    <3> QED
      BY <2>1, <3>1, <3>2
  <2> QED
    BY <2>2, <2>3
<1>5. ASSUME NEW k \in DOMAIN t PROVE k + i \in DOMAIN s /\ t[k] = s[k + i]
  <2>1. k \in 1 .. Len(s) - (i + 1) + 1
    BY <1>3, <1>4
  <2>2. k \in Nat /\ k >= 1 /\ k <= Len(s) - i
    BY <1>1, <2>1
  <2>3. i + 1 + k - 1 = k + i /\ k + i \in 1 .. Len(s)
    <3>1. i \in Nat /\ Len(s) \in Nat /\ i >= 1
      BY <1>1
    <3>2. i + 1 + k - 1 = k + i
      BY <2>2, <3>1
    <3>3. k + i \in 1 .. Len(s)
      BY <2>2, <3>1
    <3> QED
      BY <3>2, <3>3
  <2>4. t[k] = s[i + 1 + k - 1]
    BY <1>2, <2>1
  <2>5. t[k] = s[k + i]
    BY <2>3, <2>4, Zenon
  <2>6. k + i \in DOMAIN s
    BY <1>1, <2>3, Zenon
  <2> QED
    BY <2>5, <2>6
<1> QED
  BY <1>2, <1>3, <1>4, <1>5

LEMMA PushFront ==
    ASSUME NEW S, NEW s \in Seq(S), NEW h \in S, NEW n \in Nat \ {0}, NEW w,
           w = IF Len(s) >= n THEN SubSeq(s, 1, Len(s) - 1) ELSE s,
           NEW t, t = <<h>> \o w
    PROVE  /\ t \in Seq(S)
           /\ Len(t) \in Nat /\ (Len(t) <= n \/ Len(t) <= Len(s))
           /\ DOMAIN t = 1 .. Len(t) /\ t[1] = h
           /\ \A k \in DOMAIN t : k # 1 => k - 1 \in DOMAIN s /\ t[k] = s[k - 1]
<1>1. Len(s) \in Nat /\ DOMAIN s = 1 .. Len(s)
  OBVIOUS
<1>2. /\ w \in Seq(S)
      /\ Len(w) <= Len(s)
      /\ Len(w) < n \/ Len(w) < Len(s)
      /\ \A k \in 1 .. Len(w) : w[k] = s[k]
  <2>1. CASE Len(s) >= n
    <3>1. w = SubSeq(s, 1, Len(s) - 1)
      BY <2>1
    <3> QED
      BY <1>1, <2>1, <3>1, SubSeqProperties
  <2>2. CASE ~ (Len(s) >= n)
    BY <1>1, <2>2
  <2> QED
    BY <2>1, <2>2
<1>3. Len(w) \in Nat
  BY <1>2
<1>4. /\ t \in Seq(S) /\ Len(t) = Len(w) + 1 /\ t[1] = h
      /\ \A k \in 1 .. Len(t) : k # 1 => t[k] = w[k - 1]
  <2>1. <<h>> \in Seq(S) /\ Len(<<h>>) = 1 /\ <<h>>[1] = h
    OBVIOUS
  <2>2. /\ t \in Seq(S) /\ Len(t) = 1 + Len(w)
        /\ \A k \in 1 .. 1 + Len(w) : t[k] = IF k <= 1 THEN <<h>>[k] ELSE w[k - 1]
    <3>1. w \in Seq(S)
      BY <1>2
    <3> DEFINE u == <<h>>
    <3>2. u \in Seq(S) /\ Len(u) = 1 /\ t = u \o w
      BY <2>1
    <3> HIDE DEF u
    <3>3. /\ u \o w \in Seq(S) /\ Len(u \o w) = Len(u) + Len(w)
          /\ \A k \in 1 .. Len(u) + Len(w) :
                (u \o w)[k] = IF k <= Len(u) THEN u[k] ELSE w[k - Len(u)]
      BY <3>1, <3>2, ConcatProperties
    <3>4. /\ Len(t) = 1 + Len(w)
          /\ \A k \in 1 .. 1 + Len(w) : t[k] = IF k <= 1 THEN u[k] ELSE w[k - 1]
      BY <3>2, <3>3, Zenon
    <3> QED
      BY <3>2, <3>3, <3>4, Zenon DEF u
  <2>3. Len(t) = Len(w) + 1 /\ 1 \in 1 .. 1 + Len(w)
    BY <1>3, <2>2
  <2>4. t[1] = h
    BY <2>1, <2>2, <2>3
  <2>5. ASSUME NEW k \in 1 .. Len(t), k # 1 PROVE t[k] = w[k - 1]
    <3>1. k \in 1 .. 1 + Len(w) /\ ~ (k <= 1)
      BY <1>3, <2>2, <2>5
    <3> QED
      BY <2>2, <3>1
  <2> QED
    BY <2>2, <2>3, <2>4, <2>5
<1>5. DOMAIN t = 1 .. Len(t)
  BY <1>4
<1> QED
  BY <1>1, <1>2, <1>3, <1>4, <1>5

(* A request that has been called has a handle that no deque holds and that no
   other request is using; it comes out of a deque, clean, or is new. *)
LEMMA CallEffect ==
    ASSUME IInv, NEW r \in Requests, Call(r)
    PROVE  \E h \in Handles :
             /\ held' = [held EXCEPT ![r] = h]
             /\ \A q \in Requests : Using(q) => held[q] # h
             /\ pool' \in [Pools -> Seq(Handles)]
             /\ \A p \in Pools : /\ Elements(pool'[p]) \subseteq Elements(pool[p])
                                 /\ h \notin Elements(pool'[p])
                                 /\ Len(pool'[p]) <= Len(pool[p])
             /\ NoHandleTwice'
             /\ \/ handle' = handle /\ Clean(h)
                \/ \E valid \in BOOLEAN :
                      handle' = [handle EXCEPT ![h] = NewHandle(valid)]
<1> DEFINE Fresh(h) == /\ held' = [held EXCEPT ![r] = h]
                       /\ ~ Pooled(h) /\ \A q \in Requests : held[q] # h
                       /\ \E valid \in BOOLEAN :
                             handle' = [handle EXCEPT ![h] = NewHandle(valid)]
<1>1. ASSUME MakeRequest(r) PROVE \E h \in Handles : Fresh(h)
  BY <1>1 DEF MakeRequest, Free
<1>2. pool \in [Pools -> Seq(Handles)] /\ NoHandleTwice
  BY DEF IInv, TypeOK, ExclusiveHandle
<1>3. CASE MakeUncached(r)
  <2>1. pool' = pool /\ \E h \in Handles : Fresh(h)
    BY <1>1, <1>3 DEF MakeUncached
  <2>2. \A p \in Pools : Len(pool[p]) \in Nat
    BY <1>2
  <2>3. PICK h \in Handles : Fresh(h)
    BY <2>1
  <2>4. \A p \in Pools : h \notin Elements(pool'[p])
    BY <2>1, <2>3 DEF Pooled
  <2>5. NoHandleTwice'
    BY <1>2, <2>1 DEF NoHandleTwice
  <2>6. \A p \in Pools : /\ Elements(pool'[p]) \subseteq Elements(pool[p])
                         /\ Len(pool'[p]) <= Len(pool[p])
    BY <2>1, <2>2
  <2>7. pool' \in [Pools -> Seq(Handles)]
    BY <1>2, <2>1
  <2> QED
    BY <2>3, <2>4, <2>5, <2>6, <2>7
<1>4. CASE GetCached(r)
  <2> DEFINE P == PoolOf(r)
             s == pool[P]
  <2>1. P \in Pools /\ s \in Seq(Handles)
    BY <1>2, <1>4, CacheAssumption DEF GetCached, Cacheable, PoolOf, Cached, Pools
  <2>2. PICK i \in 1 .. Len(s) + 1 :
          /\ pool' = [pool EXCEPT ![P] = SubSeq(s, i + 1, Len(s))]
          /\ IF i <= Len(s)
             THEN held' = [held EXCEPT ![r] = s[i]] /\ UNCHANGED handle
             ELSE MakeRequest(r)
    BY <1>4 DEF GetCached
  <2> DEFINE t == SubSeq(s, i + 1, Len(s))
  <2>3. /\ t \in Seq(Handles)
        /\ Len(t) <= Len(s) /\ Len(t) \in Nat /\ DOMAIN t = 1 .. Len(t)
        /\ \A k \in DOMAIN t : k + i \in DOMAIN s /\ t[k] = s[k + i]
    BY <2>1, DropFront
  <2> HIDE DEF t
  <2>4. /\ pool' \in [Pools -> Seq(Handles)] /\ pool'[P] = t
        /\ \A p \in Pools : p # P => pool'[p] = pool[p]
    BY <1>2, <2>1, <2>2, <2>3 DEF t
  <2>5. \A p \in Pools : /\ Len(pool'[p]) <= Len(pool[p])
                         /\ Elements(pool'[p]) \subseteq Elements(pool[p])
    <3>1. Elements(t) \subseteq Elements(s)
      BY <2>3 DEF Elements
    <3>2. \A p \in Pools : Len(pool[p]) \in Nat
      BY <1>2
    <3> QED
      BY <2>3, <2>4, <3>1, <3>2
  <2>6. NoHandleTwice'
    <3> SUFFICES ASSUME NEW p \in Pools, NEW q \in Pools,
                        NEW j \in DOMAIN pool'[p], NEW k \in DOMAIN pool'[q],
                        pool'[p][j] = pool'[q][k]
                 PROVE  p = q /\ j = k
      BY DEF NoHandleTwice
    <3> DEFINE Shift(o) == IF o = P THEN i ELSE 0
    <3>1. j \in Nat /\ k \in Nat /\ i \in Nat
      BY <1>2, <2>1, <2>3, <2>4
    <3>2. ASSUME NEW o \in Pools, NEW l \in DOMAIN pool'[o], l \in Nat
          PROVE  l + Shift(o) \in DOMAIN pool[o] /\ pool[o][l + Shift(o)] = pool'[o][l]
      <4>1. CASE o = P
        BY <2>3, <2>4, <3>2, <4>1
      <4>2. CASE o # P
        BY <2>4, <3>2, <4>2
      <4> QED
        BY <4>1, <4>2
    <3>3. /\ j + Shift(p) \in DOMAIN pool[p] /\ pool[p][j + Shift(p)] = pool'[p][j]
          /\ k + Shift(q) \in DOMAIN pool[q] /\ pool[q][k + Shift(q)] = pool'[q][k]
      BY <3>1, <3>2
    <3> HIDE DEF Shift
    <3>4. p = q /\ j + Shift(p) = k + Shift(q)
      BY <1>2, <3>3 DEF NoHandleTwice
    <3> QED
      BY <3>1, <3>4 DEF Shift
  <2>7. CASE i <= Len(s)
    <3>1. i \in DOMAIN s /\ s[i] \in Handles /\ s[i] \in Elements(s)
      BY <2>1, <2>7 DEF Elements
    <3>2. Pooled(s[i])
      BY <2>1, <3>1 DEF Pooled
    <3>3. \A q \in Requests : Using(q) => held[q] # s[i]
      BY <3>2 DEF IInv, ExclusiveHandle
    <3>4. Clean(s[i])
      BY <2>1, <3>1 DEF IInv, CleanInv
    <3>5. s[i] \notin Elements(t)
      <4>1. \A k \in DOMAIN t : s[k + i] # s[i]
        BY <1>2, <2>1, <2>3, <3>1 DEF NoHandleTwice
      <4> QED
        BY <2>3, <4>1 DEF Elements
    <3>6. \A p \in Pools : p # P => s[i] \notin Elements(pool[p])
      BY <1>2, <2>1, <3>1 DEF NoHandleTwice, Elements
    <3>7. \A p \in Pools : s[i] \notin Elements(pool'[p])
      BY <2>4, <3>5, <3>6
    <3> QED
      BY <2>2, <2>4, <2>5, <2>6, <2>7, <3>1, <3>3, <3>4, <3>7
  <2>8. CASE ~ (i <= Len(s))
    <3>1. PICK h \in Handles : Fresh(h)
      BY <1>1, <2>2, <2>8
    <3>2. \A p \in Pools : h \notin Elements(pool'[p])
      BY <2>5, <3>1 DEF Pooled
    <3> QED
      BY <2>4, <2>5, <2>6, <3>1, <3>2
  <2> QED
    BY <2>7, <2>8
<1> QED
  BY <1>3, <1>4 DEF Call

LEMMA AddEffect ==
    ASSUME IInv, NEW r \in Requests, AddCacheUrl(r), Cacheable(r)
    PROVE  /\ held[r] \in Handles
           /\ pool' \in [Pools -> Seq(Handles)]
           /\ \A p \in Pools :
                /\ Elements(pool'[p]) \subseteq Elements(pool[p]) \cup {held[r]}
                /\ Len(pool'[p]) <= POOL_SIZE \/ Len(pool'[p]) <= Len(pool[p])
           /\ NoHandleTwice'
<1> DEFINE P == PoolOf(r)
           s == pool[P]
           h == held[r]
<1>1. pool \in [Pools -> Seq(Handles)] /\ NoHandleTwice
  BY DEF IInv, TypeOK, ExclusiveHandle
<1>2. P \in Pools /\ s \in Seq(Handles)
  BY <1>1, CacheAssumption DEF Cacheable, PoolOf, Cached, Pools
<1>3. h \in Handles /\ ~ Pooled(h)
  BY DEF IInv, TypeOK, StageInv, ExclusiveHandle, AddCacheUrl, Goto, Using, Stages
<1>4. POOL_SIZE \in Nat \ {0}
  BY CacheAssumption DEF IInv, TypeOK
<1> PICK w, t : w = WithRoom(s) /\ t = <<h>> \o w
  OBVIOUS
<1>5. /\ t \in Seq(Handles)
      /\ Len(t) \in Nat /\ (Len(t) <= POOL_SIZE \/ Len(t) <= Len(s))
      /\ DOMAIN t = 1 .. Len(t) /\ t[1] = h
      /\ \A k \in DOMAIN t : k # 1 => k - 1 \in DOMAIN s /\ t[k] = s[k - 1]
  <2> HIDE DEF P, s, h
  <2> QED
    BY <1>2, <1>3, <1>4, PushFront DEF WithRoom
<1>6. pool' = [pool EXCEPT ![P] = t]
  BY DEF AddCacheUrl
<1>7. /\ pool' \in [Pools -> Seq(Handles)] /\ pool'[P] = t
      /\ \A p \in Pools : p # P => pool'[p] = pool[p]
  BY <1>1, <1>2, <1>5, <1>6
<1>8. \A p \in Pools :
        /\ Elements(pool'[p]) \subseteq Elements(pool[p]) \cup {h}
        /\ Len(pool'[p]) <= POOL_SIZE \/ Len(pool'[p]) <= Len(pool[p])
  <2>1. Elements(t) \subseteq Elements(s) \cup {h}
    BY <1>5 DEF Elements
  <2>2. \A p \in Pools : Len(pool[p]) \in Nat
    BY <1>1
  <2>3. Elements(pool'[P]) \subseteq Elements(pool[P]) \cup {h}
    BY <1>7, <2>1
  <2>4. Len(pool'[P]) <= POOL_SIZE \/ Len(pool'[P]) <= Len(pool[P])
    BY <1>5, <1>7
  <2>5. ASSUME NEW p \in Pools, p # P
        PROVE  pool'[p] = pool[p] /\ Len(pool'[p]) <= Len(pool[p])
    BY <1>7, <2>2, <2>5
  <2> QED
    BY <2>3, <2>4, <2>5
<1>9. \A p \in Pools : \A k \in DOMAIN pool[p] : pool[p][k] # h
  BY <1>1, <1>3 DEF Pooled, Elements
<1>10. ASSUME NEW p \in Pools, NEW q \in Pools,
              NEW j \in DOMAIN pool'[p], NEW k \in DOMAIN pool'[q],
              pool'[p][j] = pool'[q][k]
       PROVE  p = q /\ j = k
  <2>1. j \in Nat /\ k \in Nat
    BY <1>1, <1>5, <1>7
  <2> DEFINE New(o, i) == o = P /\ i = 1
             Back(o, i) == IF o = P THEN i - 1 ELSE i
  <2>2. /\ New(p, j) => pool'[p][j] = h
        /\ New(q, k) => pool'[q][k] = h
    BY <1>5, <1>7
  <2>3. /\ ~ New(p, j) => /\ Back(p, j) \in DOMAIN pool[p]
                          /\ pool'[p][j] = pool[p][Back(p, j)]
        /\ ~ New(q, k) => /\ Back(q, k) \in DOMAIN pool[q]
                          /\ pool'[q][k] = pool[q][Back(q, k)]
    BY <1>5, <1>7
  <2>4. CASE New(p, j) /\ New(q, k)
    BY <2>4
  <2>5. CASE ~ New(p, j) /\ ~ New(q, k)
    <3>1. p = q /\ Back(p, j) = Back(q, k)
      BY <1>1, <1>10, <2>3, <2>5 DEF NoHandleTwice
    <3> QED
      BY <2>1, <3>1
  <2>6. CASE New(p, j) /\ ~ New(q, k)
    BY <1>9, <1>10, <2>2, <2>3, <2>6
  <2>7. CASE ~ New(p, j) /\ New(q, k)
    BY <1>9, <1>10, <2>2, <2>3, <2>7
  <2> QED
    BY <2>4, <2>5, <2>6, <2>7
<1>11. NoHandleTwice'
  BY <1>10 DEF NoHandleTwice
<1> QED
  BY <1>3, <1>7, <1>8, <1>11

(* A request that is between its call and the end of its closure has one of the
   handles. *)
LEMMA HeldHandle ==
    ASSUME IInv, NEW r \in Requests, stage[r] \notin {"new", "gone"}
    PROVE  held[r] \in Handles
BY DEF IInv, TypeOK, StageInv

LEMMA NewHandleType ==
    ASSUME TypeOK, NEW valid \in BOOLEAN
    PROVE  NewHandle(valid) \in Handle
BY CacheAssumption DEF NewHandle, Handle, TypeOK

(* What configuring, performing and resetting do to a handle. *)
LEMMA ConfiguredFields ==
    ASSUME TypeOK, NEW h \in Handles, NEW r \in Requests
    PROVE  LET old == handle[h]  new == Configured(h, r)
           IN  /\ old \in Handle /\ new \in Handle
               /\ new.valid = old.valid /\ new.seq = {r}
               /\ new.json = (Kind[r] = "post_json")
               /\ old.valid =>
                    /\ new.headers = old.headers \cup {r}
                    /\ new.m_buffer = {}
                    /\ new.proxy = SetProxy(m_proxy_path, old.proxy)
                    /\ m_cert_path # NoPath => new.cainfo = m_cert_path
<1> DEFINE old == handle[h]
           m == IF old.valid THEN {} ELSE old.m_buffer
           c == IF old.valid THEN Or(m_cert_path, Or(old.m_cert_path, old.cainfo))
                             ELSE old.cainfo
           p == IF old.valid THEN SetProxy(m_proxy_path, old.proxy) ELSE old.proxy
           hd == IF old.valid THEN old.headers \cup {r} ELSE old.headers
           j == Kind[r] = "post_json"
<1>1. old \in Handle
  BY DEF TypeOK
<1>2. /\ m \in SUBSET Requests /\ c \in Paths \cup {NoPath}
      /\ p \in Paths \cup {NoPath} /\ hd \in SUBSET Requests /\ j \in BOOLEAN
      /\ m_cert_path \in Paths \cup {NoPath}
  BY <1>1, CacheAssumption DEF Or, SetProxy, Handle, TypeOK
<1>3. Configured(h, r) =
        [valid |-> old.valid, headers |-> hd, m_buffer |-> m, seq |-> {r}, json |-> j,
         m_cert_path |-> m_cert_path, cainfo |-> c, proxy |-> p, time |-> old.time]
  BY DEF Configured
<1>4. old.valid =>
        /\ hd = old.headers \cup {r} /\ m = {}
        /\ p = SetProxy(m_proxy_path, old.proxy)
        /\ m_cert_path # NoPath => c = m_cert_path
  BY DEF Or
<1> HIDE DEF old, m, c, p, hd, j
<1>5. LET new == Configured(h, r)
      IN  /\ new \in Handle
          /\ new.valid = old.valid /\ new.seq = {r} /\ new.json = j
          /\ new.headers = hd /\ new.m_buffer = m /\ new.proxy = p /\ new.cainfo = c
  BY <1>1, <1>2, <1>3 DEF Handle
<1> QED
  BY <1>1, <1>4, <1>5 DEF old, j

LEMMA ReceivedFields ==
    ASSUME TypeOK, NEW h \in Handles, NEW data \in SUBSET Requests
    PROVE  LET old == handle[h]  new == Received(h, data)
           IN  /\ new \in Handle
               /\ new.m_buffer = old.m_buffer \cup data
               /\ new.valid = old.valid /\ new.headers = old.headers
               /\ new.seq = old.seq /\ new.json = old.json
               /\ new.cainfo = old.cainfo /\ new.proxy = old.proxy
<1> DEFINE old == handle[h]
           m == old.m_buffer \cup data
<1>1. old \in Handle
  BY DEF TypeOK
<1>2. m \in SUBSET Requests
  BY <1>1 DEF Handle
<1>3. Received(h, data) = [old EXCEPT !.m_buffer = m]
  BY DEF Received
<1> HIDE DEF old
<1> QED
  BY <1>1, <1>2, <1>3 DEF Handle, old

LEMMA ReusedFields ==
    ASSUME TypeOK, NEW h \in Handles
    PROVE  LET old == handle[h]  new == reuse_url(h)
           IN  /\ new \in Handle
               /\ new.headers = {} /\ new.valid = old.valid
               /\ old.valid => new.cainfo = NoPath /\ new.proxy = NoPath
<1> DEFINE old == handle[h]
           c == IF old.valid THEN NoPath ELSE old.cainfo
           p == IF old.valid THEN NoPath ELSE old.proxy
<1>1. old \in Handle /\ now \in 0 .. MaxTime
  BY DEF TypeOK
<1>2. c \in Paths \cup {NoPath} /\ p \in Paths \cup {NoPath}
  BY <1>1 DEF Handle
<1>3. reuse_url(h) = [old EXCEPT !.headers = {}, !.cainfo = c, !.proxy = p, !.time = now]
  BY DEF reuse_url
<1>4. old.valid => c = NoPath /\ p = NoPath
  OBVIOUS
<1> HIDE DEF old, c, p
<1>5. LET new == reuse_url(h)
      IN  /\ new \in Handle
          /\ new.headers = {} /\ new.valid = old.valid /\ new.cainfo = c /\ new.proxy = p
  BY <1>1, <1>2, <1>3 DEF Handle
<1> QED
  BY <1>4, <1>5 DEF old

(* Every step preserves the types. *)
LEMMA TypeStep ==
    ASSUME IInv, [Next]_vars
    PROVE  TypeOK'
<1> USE DEF IInv, TypeOK, Executor!TypeOK, executor, config, global
<1>1. CASE UNCHANGED vars
  BY <1>1 DEF vars
<1>2. ASSUME NEW r \in Requests, Call(r) PROVE TypeOK'
  <2>1. PICK h \in Handles :
          /\ held' = [held EXCEPT ![r] = h]
          /\ pool' \in [Pools -> Seq(Handles)]
          /\ \/ handle' = handle
             \/ \E valid \in BOOLEAN : handle' = [handle EXCEPT ![h] = NewHandle(valid)]
    BY <1>2, CallEffect
  <2>2. handle' \in [Handles -> Handle]
    BY <2>1, NewHandleType
  <2> QED
    BY <1>2, <2>1, <2>2 DEF Call, Goto, Stages
<1>3. ASSUME NEW r \in Requests, Configure(r) PROVE TypeOK'
  <2>1. held[r] \in Handles
    BY <1>3, HeldHandle DEF Configure, Goto
  <2>2. Configured(held[r], r) \in Handle
    BY <2>1, ConfiguredFields
  <2>3. handle' \in [Handles -> Handle]
    BY <1>3, <2>2 DEF Configure
  <2>4. asked' \in [Requests -> [cert : Paths \cup {NoPath}, proxy : Paths \cup {NoPath}]]
    BY <1>3 DEF Configure
  <2> QED
    BY <1>3, <2>3, <2>4 DEF Configure, Goto, Stages
<1>4. ASSUME NEW r \in Requests, Commit(r) PROVE TypeOK'
  BY <1>4 DEF Commit, Goto, Executor!Submit, Executor!Move, Stages, Executor!Statuses
<1>5. ASSUME NEW r \in Requests, CommitDrops(r) PROVE TypeOK'
  BY <1>5 DEF CommitDrops, Goto, Executor!Drop, Executor!Move, Stages, Executor!Statuses
<1>6. ASSUME NEW r \in Requests, Start(r) PROVE TypeOK'
  BY <1>6 DEF Start, Goto, Executor!Start, Executor!Move, Stages, Executor!Statuses
<1>7. ASSUME NEW r \in Requests, GoInvalid(r) PROVE TypeOK'
  BY <1>7 DEF GoInvalid, Goto, AfterGo, Stages
<1>8. ASSUME NEW r \in Requests, Perform(r) PROVE TypeOK'
  <2>1. held[r] \in Handles
    BY <1>8, HeldHandle DEF Perform, Goto
  <2>2. PICK data \in SUBSET Requests :
          handle' = [handle EXCEPT ![held[r]] = Received(held[r], data)]
    BY <1>8 DEF Perform
  <2>3. handle' \in [Handles -> Handle]
    BY <2>1, <2>2, ReceivedFields
  <2> QED
    BY <1>8, <2>3 DEF Perform, Goto, Stages
<1>9. ASSUME NEW r \in Requests, Callback(r) PROVE TypeOK'
  <2> DEFINE h == handle[held[r]]
             a == [by |-> r, body |-> h.m_buffer]
  <2>1. h \in Handle
    BY <1>9, HeldHandle DEF Callback, Goto
  <2>2. a \in Answer
    BY <2>1 DEF Handle, Answer
  <2>3. answers' = [q \in Requests |-> IF q \in h.seq THEN Append(answers[q], a)
                                                     ELSE answers[q]]
    BY <1>9 DEF Callback
  <2> HIDE DEF a, h
  <2>4. \A q \in Requests : Append(answers[q], a) \in Seq(Answer)
    BY <2>2
  <2>5. answers' \in [Requests -> Seq(Answer)]
    BY <2>3, <2>4
  <2> QED
    BY <1>9, <2>5 DEF Callback, Goto, AfterGo, Stages
<1>10. ASSUME NEW r \in Requests, ReuseUrl(r) PROVE TypeOK'
  <2>1. held[r] \in Handles
    BY <1>10, HeldHandle DEF ReuseUrl, Goto
  <2>2. handle' \in [Handles -> Handle]
    BY <1>10, <2>1, ReusedFields DEF ReuseUrl
  <2> QED
    BY <1>10, <2>2 DEF ReuseUrl, Goto, Stages
<1>11. ASSUME NEW r \in Requests, AddCacheUrl(r) PROVE TypeOK'
  <2>1. pool' \in [Pools -> Seq(Handles)]
    BY <1>11, AddEffect DEF StageInv, AddCacheUrl, Goto
  <2> QED
    BY <1>11, <2>1 DEF AddCacheUrl, Goto, Stages
<1>12. ASSUME NEW r \in Requests, Finish(r) PROVE TypeOK'
  BY <1>12 DEF Finish, Goto, Executor!Finish, Executor!Move, Stages, Executor!Statuses
<1>13. CASE SetCertPath
  BY <1>13 DEF SetCertPath
<1>14. CASE SetProxyPath
  BY <1>14 DEF SetProxyPath
<1>15. CASE Reinit
  BY <1>15 DEF Reinit
<1>16. CASE Clock
  BY <1>16 DEF Clock
<1>17. CASE Close
  BY <1>17 DEF Close, Executor!Close
<1>18. CASE Terminate
  BY <1>18 DEF Terminate, Executor!Terminate, Stages, Executor!Statuses
<1> QED
  BY <1>1, <1>2, <1>3, <1>4, <1>5, <1>6, <1>7, <1>8, <1>9, <1>10, <1>11,
     <1>12, <1>13, <1>14, <1>15, <1>16, <1>17, <1>18
     DEF Next, Caller, Worker

(* Every step preserves the relation of stages, handles and tasks. *)
LEMMA StageStep ==
    ASSUME IInv, [Next]_vars
    PROVE  StageInv'
<1> USE DEF IInv, TypeOK, Executor!TypeOK, executor, config, global, StageInv
<1>1. CASE UNCHANGED vars
  BY <1>1 DEF vars
<1>2. ASSUME NEW r \in Requests, Call(r) PROVE StageInv'
  <2>1. PICK h \in Handles : held' = [held EXCEPT ![r] = h]
    BY <1>2, CallEffect
  <2>2. status' = status /\ stage' = [stage EXCEPT ![r] = "configure"] /\ stage[r] = "new"
    BY <1>2 DEF Call, Goto
  <2> QED
    BY <2>1, <2>2, CacheAssumption
<1>3. ASSUME NEW r \in Requests, Configure(r) PROVE StageInv'
  BY <1>3 DEF Configure, Goto
<1>4. ASSUME NEW r \in Requests, Commit(r) PROVE StageInv'
  BY <1>4 DEF Commit, Goto, Executor!Submit, Executor!Move
<1>5. ASSUME NEW r \in Requests, CommitDrops(r) PROVE StageInv'
  BY <1>5 DEF CommitDrops, Goto, Executor!Drop, Executor!Move
<1>6. ASSUME NEW r \in Requests, Start(r) PROVE StageInv'
  BY <1>6 DEF Start, Goto, Executor!Start, Executor!Move
<1>7. ASSUME NEW r \in Requests, GoInvalid(r) PROVE StageInv'
  BY <1>7 DEF GoInvalid, Goto, AfterGo
<1>8. ASSUME NEW r \in Requests, Perform(r) PROVE StageInv'
  BY <1>8 DEF Perform, Goto
<1>9. ASSUME NEW r \in Requests, Callback(r) PROVE StageInv'
  <2>1. /\ stage' = [stage EXCEPT ![r] = AfterGo(r)] /\ stage[r] = "callback"
        /\ held' = held /\ status' = status
    BY <1>9 DEF Callback, Goto
  <2> QED
    BY <2>1 DEF AfterGo
<1>10. ASSUME NEW r \in Requests, ReuseUrl(r) PROVE StageInv'
  BY <1>10 DEF ReuseUrl, Goto
<1>11. ASSUME NEW r \in Requests, AddCacheUrl(r) PROVE StageInv'
  BY <1>11 DEF AddCacheUrl, Goto
<1>12. ASSUME NEW r \in Requests, Finish(r) PROVE StageInv'
  BY <1>12 DEF Finish, Goto, Executor!Finish, Executor!Move
<1>13. CASE SetCertPath
  BY <1>13 DEF SetCertPath
<1>14. CASE SetProxyPath
  BY <1>14 DEF SetProxyPath
<1>15. CASE Reinit
  BY <1>15 DEF Reinit
<1>16. CASE Clock
  BY <1>16 DEF Clock
<1>17. CASE Close
  BY <1>17 DEF Close, Executor!Close
<1>18. CASE Terminate
  <2>1. /\ \A q \in Requests : stage[q] \notin {"configure", "commit"} /\ status[q] # "running"
        /\ stage' = [q \in Requests |-> IF stage[q] = "queued" THEN "gone" ELSE stage[q]]
        /\ held' = [q \in Requests |-> NoHandle]
        /\ status' = [q \in Requests |-> IF status[q] = "queued" THEN "dropped" ELSE status[q]]
    BY <1>18 DEF Terminate, Executor!Terminate
  <2>2. ASSUME NEW q \in Requests PROVE stage[q] \in {"new", "queued", "gone"}
    <3>1. stage[q] \notin {"configure", "commit", "go", "callback", "reuse", "add", "end"}
      BY <2>1
    <3> QED
      BY <3>1 DEF Stages
  <2>3. ASSUME NEW q \in Requests
        PROVE  /\ stage'[q] = IF stage[q] = "queued" THEN "gone" ELSE stage[q]
               /\ held'[q] = NoHandle
               /\ status'[q] = IF stage[q] = "queued" THEN "dropped" ELSE status[q]
    BY <2>1
  <2> HIDE DEF IInv, TypeOK, Executor!TypeOK
  <2>4. StageInv
    BY DEF IInv
  <2> QED
    BY <2>2, <2>3, <2>4
<1> QED
  BY <1>1, <1>2, <1>3, <1>4, <1>5, <1>6, <1>7, <1>8, <1>9, <1>10, <1>11,
     <1>12, <1>13, <1>14, <1>15, <1>16, <1>17, <1>18
     DEF Next, Caller, Worker

(* Exclusive use is kept where no deque changes and no request starts to use
   another handle. *)
LEMMA ExclusiveKept ==
    ASSUME ExclusiveHandle, pool' = pool,
           \A q \in Requests : Using(q)' => Using(q) /\ held'[q] = held[q]
    PROVE  ExclusiveHandle'
BY DEF ExclusiveHandle, NoHandleTwice, Pooled

(* A request that changes its handle changes that of no other request and none
   that waits in a deque. *)
LEMMA OnlyItsOwn ==
    ASSUME IInv, NEW r \in Requests, Using(r), NEW v,
           handle' = [handle EXCEPT ![held[r]] = v]
    PROVE  /\ held[r] \in Handles /\ handle'[held[r]] = v
           /\ \A p \in Pools : \A h \in Elements(pool[p]) : handle'[h] = handle[h]
           /\ \A q \in Requests : Using(q) /\ q # r => handle'[held[q]] = handle[held[q]]
<1>1. held[r] \in Handles /\ handle \in [Handles -> Handle]
  BY HeldHandle DEF Using, IInv, TypeOK
<1>2. /\ \A p \in Pools : held[r] \notin Elements(pool[p])
      /\ \A q \in Requests : Using(q) /\ q # r => held[q] # held[r]
  BY DEF IInv, ExclusiveHandle, Pooled
<1>3. /\ \A p \in Pools : \A h \in Elements(pool[p]) : h \in Handles
      /\ \A q \in Requests : Using(q) => held[q] \in Handles
  <2>1. pool \in [Pools -> Seq(Handles)]
    BY DEF IInv, TypeOK
  <2> QED
    BY <2>1, HeldHandle DEF Elements, Using
<1> QED
  BY <1>1, <1>2, <1>3

(* Every step preserves the exclusive use of handles. *)
LEMMA ExclusiveStep ==
    ASSUME IInv, [Next]_vars
    PROVE  ExclusiveHandle'
<1> USE DEF IInv, TypeOK, executor, config, global, Using, Stages
<1>1. CASE UNCHANGED vars
  BY <1>1, ExclusiveKept DEF vars
<1>2. ASSUME NEW r \in Requests, Call(r) PROVE ExclusiveHandle'
  <2>1. PICK h \in Handles :
          /\ held' = [held EXCEPT ![r] = h]
          /\ \A q \in Requests : Using(q) => held[q] # h
          /\ \A p \in Pools : /\ Elements(pool'[p]) \subseteq Elements(pool[p])
                              /\ h \notin Elements(pool'[p])
          /\ NoHandleTwice'
    BY <1>2, CallEffect
  <2>2. stage' = [stage EXCEPT ![r] = "configure"]
    BY <1>2 DEF Call, Goto
  <2>3. \A q \in Requests : q # r => (Using(q)' <=> Using(q)) /\ held'[q] = held[q]
    BY <2>1, <2>2
  <2>4. held'[r] = h
    BY <2>1
  <2> QED
    BY <2>1, <2>3, <2>4 DEF ExclusiveHandle, Pooled
<1>3. ASSUME NEW r \in Requests, Configure(r) PROVE ExclusiveHandle'
  BY <1>3, ExclusiveKept DEF Configure, Goto
<1>4. ASSUME NEW r \in Requests, Commit(r) PROVE ExclusiveHandle'
  BY <1>4, ExclusiveKept DEF Commit, Goto, Executor!Submit, Executor!Move
<1>5. ASSUME NEW r \in Requests, CommitDrops(r) PROVE ExclusiveHandle'
  BY <1>5, ExclusiveKept DEF CommitDrops, Goto, Executor!Drop, Executor!Move
<1>6. ASSUME NEW r \in Requests, Start(r) PROVE ExclusiveHandle'
  BY <1>6, ExclusiveKept DEF Start, Goto, Executor!Start, Executor!Move
<1>7. ASSUME NEW r \in Requests, GoInvalid(r) PROVE ExclusiveHandle'
  BY <1>7, ExclusiveKept DEF GoInvalid, Goto, AfterGo
<1>8. ASSUME NEW r \in Requests, Perform(r) PROVE ExclusiveHandle'
  BY <1>8, ExclusiveKept DEF Perform, Goto
<1>9. ASSUME NEW r \in Requests, Callback(r) PROVE ExclusiveHandle'
  <2>1. /\ stage' = [stage EXCEPT ![r] = AfterGo(r)] /\ stage[r] = "callback"
        /\ held' = held /\ pool' = pool
    BY <1>9 DEF Callback, Goto
  <2> QED
    BY <2>1, ExclusiveKept DEF AfterGo
<1>10. ASSUME NEW r \in Requests, ReuseUrl(r) PROVE ExclusiveHandle'
  BY <1>10, ExclusiveKept DEF ReuseUrl, Goto
<1>11. ASSUME NEW r \in Requests, AddCacheUrl(r) PROVE ExclusiveHandle'
  <2>1. /\ stage' = [stage EXCEPT ![r] = "end"] /\ stage[r] = "add" /\ held' = held
        /\ Cacheable(r)
    BY <1>11 DEF AddCacheUrl, Goto, StageInv
  <2>2. /\ \A p \in Pools : Elements(pool'[p]) \subseteq Elements(pool[p]) \cup {held[r]}
        /\ NoHandleTwice'
    BY <1>11, <2>1, AddEffect
  <2>3. ~ Using(r)' /\ Using(r) /\ \A q \in Requests : q # r => (Using(q)' <=> Using(q))
    BY <2>1
  <2> QED
    BY <2>1, <2>2, <2>3 DEF ExclusiveHandle, Pooled
<1>12. ASSUME NEW r \in Requests, Finish(r) PROVE ExclusiveHandle'
  BY <1>12, ExclusiveKept DEF Finish, Goto, Executor!Finish, Executor!Move
<1>13. CASE SetCertPath
  BY <1>13, ExclusiveKept DEF SetCertPath
<1>14. CASE SetProxyPath
  BY <1>14, ExclusiveKept DEF SetProxyPath
<1>15. CASE Reinit
  BY <1>15, ExclusiveKept DEF Reinit
<1>16. CASE Clock
  BY <1>16, ExclusiveKept DEF Clock
<1>17. CASE Close
  BY <1>17, ExclusiveKept DEF Close, Executor!Close
<1>18. CASE Terminate
  <2>1. \A q \in Requests : ~ Using(q)'
    BY <1>18 DEF Terminate, Executor!Terminate, StageInv, Executor!TypeOK, Executor!Statuses
  <2>2. NoHandleTwice' /\ \A p \in Pools : pool'[p] = <<>>
    BY <1>18 DEF Terminate, NoHandleTwice
  <2> QED
    BY <2>1, <2>2 DEF ExclusiveHandle
<1> QED
  BY <1>1, <1>2, <1>3, <1>4, <1>5, <1>6, <1>7, <1>8, <1>9, <1>10, <1>11,
     <1>12, <1>13, <1>14, <1>15, <1>16, <1>17, <1>18
     DEF Next, Caller, Worker

(* Clean handles stay clean where the handles in the deques and those of the
   requests in question are not changed. *)
LEMMA CleanKept ==
    ASSUME CleanInv,
           \A p \in Pools : Elements(pool'[p]) \subseteq Elements(pool[p]),
           \A p \in Pools : \A h \in Elements(pool[p]) : handle'[h] = handle[h],
           \A q \in Requests : stage'[q] \in {"configure", "add"} =>
               /\ stage[q] \in {"configure", "add"}
               /\ held'[q] = held[q] /\ handle'[held[q]] = handle[held[q]]
    PROVE  CleanInv'
BY DEF CleanInv, Clean

LEMMA ConfigKept ==
    ASSUME ConfigOfRequest,
           \A q \in Requests : stage'[q] \in {"commit", "queued", "go"} =>
               /\ stage[q] \in {"commit", "queued", "go"} /\ asked'[q] = asked[q]
               /\ held'[q] = held[q] /\ handle'[held[q]] = handle[held[q]]
    PROVE  ConfigOfRequest'
<1> DEFINE Good(q, h, a) == h.valid =>
              /\ h.headers = {q} /\ h.seq = {q}
              /\ h.json = (Kind[q] = "post_json")
              /\ h.proxy = IF a.proxy \in HttpPaths THEN a.proxy ELSE NoPath
              /\ a.cert # NoPath => h.cainfo = a.cert
<1>1. \A q \in Requests : stage[q] \in {"commit", "queued", "go"} =>
         Good(q, handle[held[q]], asked[q])
  BY DEF ConfigOfRequest
<1>2. SUFFICES \A q \in Requests : stage'[q] \in {"commit", "queued", "go"} =>
         Good(q, handle'[held'[q]], asked'[q])
  BY DEF ConfigOfRequest
<1> HIDE DEF Good
<1> QED
  BY <1>1

LEMMA AnswerKept ==
    ASSUME AnswerInv, answers' = answers,
           \A q \in Requests :
             /\ stage'[q] \in {"commit", "queued", "go"} =>
                  /\ stage[q] \in {"commit", "queued", "go"}
                  /\ held'[q] = held[q] /\ handle'[held[q]] = handle[held[q]]
             /\ stage'[q] = "callback" =>
                  /\ stage[q] = "callback"
                  /\ held'[q] = held[q] /\ handle'[held[q]] = handle[held[q]]
             /\ stage'[q] \in {"new", "configure"} => stage[q] \in {"new", "configure"}
    PROVE  AnswerInv'
<1> SUFFICES ASSUME NEW q \in Requests
             PROVE  /\ stage'[q] \in {"commit", "queued", "go", "callback"} =>
                         /\ handle'[held'[q]].seq = {q}
                         /\ handle'[held'[q]].valid => handle'[held'[q]].m_buffer \subseteq {q}
                    /\ stage'[q] = "callback" => handle'[held'[q]].valid
                    /\ stage'[q] \in {"new", "configure", "commit", "queued", "go", "callback"}
                         => answers'[q] = <<>>
  BY DEF AnswerInv
<1>1. CASE stage'[q] \in {"commit", "queued", "go", "callback"}
  <2>1. /\ stage[q] \in {"commit", "queued", "go", "callback"}
        /\ stage'[q] = "callback" => stage[q] = "callback"
        /\ handle'[held'[q]] = handle[held[q]]
    BY <1>1
  <2>2. /\ handle[held[q]].seq = {q}
        /\ handle[held[q]].valid => handle[held[q]].m_buffer \subseteq {q}
        /\ stage[q] = "callback" => handle[held[q]].valid
        /\ answers[q] = <<>>
    BY <2>1 DEF AnswerInv
  <2> QED
    BY <2>1, <2>2
<1>2. CASE stage'[q] \in {"new", "configure"}
  BY <1>2 DEF AnswerInv
<1> QED
  BY <1>1, <1>2

(* Every step leaves the handles clean that have to be. *)
LEMMA CleanStep ==
    ASSUME IInv, [Next]_vars
    PROVE  CleanInv'
<1> USE DEF IInv, TypeOK, executor, config, global
<1>1. CASE UNCHANGED vars
  BY <1>1, CleanKept DEF vars
<1>2. ASSUME NEW r \in Requests, Call(r) PROVE CleanInv'
  <2>1. PICK h \in Handles :
          /\ held' = [held EXCEPT ![r] = h]
          /\ \A q \in Requests : Using(q) => held[q] # h
          /\ \A p \in Pools : /\ Elements(pool'[p]) \subseteq Elements(pool[p])
                              /\ h \notin Elements(pool'[p])
          /\ \/ handle' = handle /\ Clean(h)
             \/ \E valid \in BOOLEAN : handle' = [handle EXCEPT ![h] = NewHandle(valid)]
    BY <1>2, CallEffect
  <2>2. /\ stage' = [stage EXCEPT ![r] = "configure"] /\ stage[r] = "new"
        /\ asked' = asked /\ answers' = answers
    BY <1>2 DEF Call, Goto
  <2>3. Clean(h)'
    <3>1. CASE handle' = handle /\ Clean(h)
      BY <3>1 DEF Clean
    <3>2. ASSUME NEW valid \in BOOLEAN, handle' = [handle EXCEPT ![h] = NewHandle(valid)]
          PROVE  Clean(h)'
      <4>1. handle'[h] = NewHandle(valid)
        BY <3>2
      <4> QED
        BY <4>1 DEF Clean, NewHandle
    <3> QED
      BY <2>1, <3>1, <3>2
  <2>4. \A g \in Handles : g # h => handle'[g] = handle[g]
    BY <2>1
  <2>5. \A p \in Pools : \A g \in Elements(pool'[p]) : Clean(g)'
    <3>1. \A p \in Pools : \A g \in Elements(pool[p]) : g \in Handles
      BY DEF Elements
    <3> QED
      BY <2>1, <2>4, <3>1 DEF CleanInv, Clean
  <2>6. ASSUME NEW q \in Requests, stage'[q] \in {"configure", "add"} PROVE Clean(held[q])'
    <3>1. CASE q = r
      BY <2>1, <2>3, <3>1
    <3>2. CASE q # r
      <4>1. stage[q] \in {"configure", "add"} /\ held'[q] = held[q] /\ held[q] # h
            /\ held[q] \in Handles
        BY <2>1, <2>2, <2>6, <3>2, HeldHandle DEF Using, Stages
      <4> QED
        BY <2>4, <4>1 DEF CleanInv, Clean
    <3> QED
      BY <3>1, <3>2
  <2> QED
    BY <2>5, <2>6 DEF CleanInv
<1>3. ASSUME NEW r \in Requests, Configure(r) PROVE CleanInv'
  <2>1. /\ stage' = [stage EXCEPT ![r] = "commit"] /\ stage[r] = "configure" /\ Using(r)
        /\ held' = held /\ pool' = pool /\ answers' = answers
    BY <1>3 DEF Configure, Goto, Using, Stages
  <2>2. handle' = [handle EXCEPT ![held[r]] = Configured(held[r], r)]
    BY <1>3 DEF Configure
  <2> QED
    BY <2>1, <2>2, OnlyItsOwn, CleanKept DEF Using, Stages
<1>4. ASSUME NEW r \in Requests, Commit(r) PROVE CleanInv'
  BY <1>4, CleanKept DEF Commit, Goto, Executor!Submit, Executor!Move
<1>5. ASSUME NEW r \in Requests, CommitDrops(r) PROVE CleanInv'
  BY <1>5, CleanKept DEF CommitDrops, Goto, Executor!Drop, Executor!Move
<1>6. ASSUME NEW r \in Requests, Start(r) PROVE CleanInv'
  BY <1>6, CleanKept DEF Start, Goto, Executor!Start, Executor!Move
<1>7. ASSUME NEW r \in Requests, GoInvalid(r) PROVE CleanInv'
  <2>1. /\ stage' = [stage EXCEPT ![r] = AfterGo(r)] /\ stage[r] = "go"
        /\ held' = held /\ pool' = pool /\ handle' = handle /\ asked' = asked
        /\ answers' = answers /\ AfterGo(r) \in {"reuse", "end"}
    BY <1>7 DEF GoInvalid, Goto, AfterGo
  <2> QED
    BY <2>1, CleanKept
<1>8. ASSUME NEW r \in Requests, Perform(r) PROVE CleanInv'
  <2>1. /\ stage' = [stage EXCEPT ![r] = "callback"] /\ stage[r] = "go" /\ Using(r)
        /\ held' = held /\ pool' = pool /\ answers' = answers
    BY <1>8 DEF Perform, Goto, Using, Stages
  <2>2. PICK data : handle' = [handle EXCEPT ![held[r]] = Received(held[r], data)]
    BY <1>8 DEF Perform
  <2> QED
    <3>1. /\ \A p \in Pools : \A h \in Elements(pool[p]) : handle'[h] = handle[h]
          /\ \A q \in Requests : Using(q) /\ q # r => handle'[held[q]] = handle[held[q]]
      BY <2>1, <2>2, OnlyItsOwn
    <3>2. \A q \in Requests : stage'[q] \in {"configure", "add"} =>
             q # r /\ stage[q] \in {"configure", "add"} /\ Using(q)
      BY <2>1 DEF Using, Stages
    <3> QED
      BY <2>1, <3>1, <3>2, CleanKept
<1>9. ASSUME NEW r \in Requests, Callback(r) PROVE CleanInv'
  <2>1. /\ stage' = [stage EXCEPT ![r] = AfterGo(r)] /\ stage[r] = "callback"
        /\ held' = held /\ pool' = pool /\ handle' = handle /\ asked' = asked
        /\ AfterGo(r) \in {"reuse", "end"}
    BY <1>9 DEF Callback, Goto, AfterGo
  <2> QED
    BY <2>1, CleanKept
<1>10. ASSUME NEW r \in Requests, ReuseUrl(r) PROVE CleanInv'
  <2>1. /\ stage' = [stage EXCEPT ![r] = "add"] /\ stage[r] = "reuse" /\ Using(r)
        /\ held' = held /\ pool' = pool /\ answers' = answers
    BY <1>10 DEF ReuseUrl, Goto, Using, Stages
  <2>2. handle' = [handle EXCEPT ![held[r]] = reuse_url(held[r])]
    BY <1>10 DEF ReuseUrl
  <2>3. /\ held[r] \in Handles /\ handle'[held[r]] = reuse_url(held[r])
        /\ \A p \in Pools : \A h \in Elements(pool[p]) : handle'[h] = handle[h]
        /\ \A q \in Requests : Using(q) /\ q # r => handle'[held[q]] = handle[held[q]]
    BY <2>1, <2>2, OnlyItsOwn
  <2>4. Clean(held[r])'
    <3>1. handle'[held'[r]] = reuse_url(held[r])
      BY <2>1, <2>3
    <3>2. LET new == reuse_url(held[r])
          IN  /\ new.headers = {} /\ new.valid = handle[held[r]].valid
              /\ handle[held[r]].valid => new.cainfo = NoPath /\ new.proxy = NoPath
      BY <2>3, ReusedFields
    <3>3. LET new == handle'[held'[r]]
          IN  new.headers = {} /\ (new.valid => new.cainfo = NoPath /\ new.proxy = NoPath)
      BY <3>1, <3>2
    <3> QED
      BY <3>3 DEF Clean
  <2>5. ASSUME NEW p \in Pools, NEW h \in Elements(pool'[p]) PROVE Clean(h)'
    <3>1. h \in Elements(pool[p])
      BY <2>1
    <3>2. Clean(h) /\ handle'[h] = handle[h]
      BY <2>3, <3>1 DEF CleanInv
    <3> QED
      BY <3>2 DEF Clean
  <2>6. ASSUME NEW q \in Requests, q # r, stage'[q] \in {"configure", "add"}
        PROVE  Clean(held[q])'
    <3>1. stage[q] \in {"configure", "add"} /\ held'[q] = held[q] /\ Using(q)
      BY <2>1, <2>6 DEF Using, Stages
    <3>2. handle'[held'[q]] = handle[held[q]]
      BY <2>3, <2>6, <3>1
    <3>3. Clean(held[q])
      BY <3>1 DEF CleanInv
    <3> QED
      BY <3>1, <3>2, <3>3 DEF Clean
  <2> QED
    BY <2>4, <2>5, <2>6 DEF CleanInv
<1>11. ASSUME NEW r \in Requests, AddCacheUrl(r) PROVE CleanInv'
  <2>1. /\ stage' = [stage EXCEPT ![r] = "end"] /\ stage[r] = "add" /\ held' = held
        /\ Cacheable(r) /\ handle' = handle
    BY <1>11 DEF AddCacheUrl, Goto, StageInv
  <2>2. \A p \in Pools : Elements(pool'[p]) \subseteq Elements(pool[p]) \cup {held[r]}
    BY <1>11, <2>1, AddEffect
  <2> QED
    BY <2>1, <2>2 DEF CleanInv, Clean
<1>12. ASSUME NEW r \in Requests, Finish(r) PROVE CleanInv'
  BY <1>12, CleanKept DEF Finish, Goto, Executor!Finish, Executor!Move
<1>13. CASE SetCertPath
  BY <1>13, CleanKept DEF SetCertPath
<1>14. CASE SetProxyPath
  BY <1>14, CleanKept DEF SetProxyPath
<1>15. CASE Reinit
  BY <1>15, CleanKept DEF Reinit
<1>16. CASE Clock
  BY <1>16, CleanKept DEF Clock
<1>17. CASE Close
  BY <1>17, CleanKept DEF Close, Executor!Close
<1>18. CASE Terminate
  <2>1. /\ \A p \in Pools : pool'[p] = <<>>
        /\ \A q \in Requests : stage'[q] \notin {"configure", "add"}
    BY <1>18 DEF Terminate, Executor!Terminate, StageInv
  <2> QED
    BY <2>1 DEF CleanInv, Elements
<1> QED
  BY <1>1, <1>2, <1>3, <1>4, <1>5, <1>6, <1>7, <1>8, <1>9, <1>10, <1>11,
     <1>12, <1>13, <1>14, <1>15, <1>16, <1>17, <1>18
     DEF Next, Caller, Worker

(* Every step preserves the configuration of the requests on their way. *)
LEMMA ConfigStep ==
    ASSUME IInv, [Next]_vars
    PROVE  ConfigOfRequest'
<1> USE DEF IInv, TypeOK, executor, config, global
<1>1. CASE UNCHANGED vars
  BY <1>1, ConfigKept DEF vars
<1>2. ASSUME NEW r \in Requests, Call(r) PROVE ConfigOfRequest'
  <2>1. PICK h \in Handles :
          /\ held' = [held EXCEPT ![r] = h]
          /\ \A q \in Requests : Using(q) => held[q] # h
          /\ \A p \in Pools : /\ Elements(pool'[p]) \subseteq Elements(pool[p])
                              /\ h \notin Elements(pool'[p])
          /\ \/ handle' = handle /\ Clean(h)
             \/ \E valid \in BOOLEAN : handle' = [handle EXCEPT ![h] = NewHandle(valid)]
    BY <1>2, CallEffect
  <2>2. /\ stage' = [stage EXCEPT ![r] = "configure"] /\ stage[r] = "new"
        /\ asked' = asked /\ answers' = answers
    BY <1>2 DEF Call, Goto
  <2>3. ASSUME NEW q \in Requests, Using(q)
        PROVE  q # r /\ held'[q] = held[q] /\ handle'[held[q]] = handle[held[q]]
    <3>1. q # r /\ held[q] # h /\ held[q] \in Handles
      BY <2>1, <2>2, <2>3, HeldHandle DEF Using, Stages
    <3> QED
      BY <2>1, <3>1
  <2>4. \A q \in Requests : q # r => stage'[q] = stage[q]
    BY <2>2
  <2>5. stage'[r] = "configure"
    BY <2>2
  <2> QED
    BY <2>2, <2>3, <2>4, <2>5, ConfigKept DEF Using, Stages
<1>3. ASSUME NEW r \in Requests, Configure(r) PROVE ConfigOfRequest'
  <2>1. /\ stage' = [stage EXCEPT ![r] = "commit"] /\ stage[r] = "configure" /\ Using(r)
        /\ held' = held /\ pool' = pool /\ answers' = answers
    BY <1>3 DEF Configure, Goto, Using, Stages
  <2>2. handle' = [handle EXCEPT ![held[r]] = Configured(held[r], r)]
    BY <1>3 DEF Configure
  <2>3. /\ asked'[r] = [cert |-> m_cert_path, proxy |-> m_proxy_path]
        /\ \A q \in Requests : q # r => asked'[q] = asked[q]
    BY <1>3 DEF Configure
  <2>4. /\ held[r] \in Handles /\ handle'[held[r]] = Configured(held[r], r)
        /\ \A q \in Requests : Using(q) /\ q # r => handle'[held[q]] = handle[held[q]]
    BY <2>1, <2>2, OnlyItsOwn
  <2>5. LET h == handle'[held'[r]]
        IN  h.valid => /\ h.headers = {r} /\ h.seq = {r}
                       /\ h.json = (Kind[r] = "post_json")
                       /\ h.proxy = IF asked'[r].proxy \in HttpPaths THEN asked'[r].proxy ELSE NoPath
                       /\ asked'[r].cert # NoPath => h.cainfo = asked'[r].cert
    <3>1. Clean(held[r])
      BY <2>1 DEF CleanInv
    <3> DEFINE old == handle[held[r]]
               new == Configured(held[r], r)
    <3>2. /\ new.valid = old.valid /\ new.seq = {r}
          /\ new.json = (Kind[r] = "post_json")
          /\ old.valid =>
               /\ new.headers = old.headers \cup {r}
               /\ new.proxy = SetProxy(m_proxy_path, old.proxy)
               /\ m_cert_path # NoPath => new.cainfo = m_cert_path
      BY <2>4, ConfiguredFields
    <3>3. old.valid => old.headers = {} /\ old.proxy = NoPath
      BY <3>1 DEF Clean
    <3>4. handle'[held'[r]] = new
      BY <2>1, <2>4
    <3>5. asked'[r].cert = m_cert_path /\ asked'[r].proxy = m_proxy_path
      BY <2>3
    <3> HIDE DEF old, new
    <3>6. old.valid =>
            /\ new.headers = {r}
            /\ new.proxy = IF m_proxy_path \in HttpPaths THEN m_proxy_path ELSE NoPath
      BY <3>2, <3>3 DEF SetProxy
    <3> QED
      BY <3>2, <3>4, <3>5, <3>6
  <2>6. ASSUME NEW q \in Requests, q # r, stage'[q] \in {"commit", "queued", "go"}
        PROVE  /\ stage[q] \in {"commit", "queued", "go"} /\ asked'[q] = asked[q]
               /\ held'[q] = held[q] /\ handle'[held[q]] = handle[held[q]]
    <3>1. stage[q] = stage'[q] /\ Using(q)
      BY <2>1, <2>6 DEF Using, Stages
    <3> QED
      BY <2>1, <2>3, <2>4, <2>6, <3>1
  <2>7. ASSUME NEW q \in Requests, stage'[q] \in {"commit", "queued", "go"}
        PROVE  LET h == handle'[held'[q]]
               IN  h.valid => /\ h.headers = {q} /\ h.seq = {q}
                              /\ h.json = (Kind[q] = "post_json")
                              /\ h.proxy = IF asked'[q].proxy \in HttpPaths THEN asked'[q].proxy ELSE NoPath
                              /\ asked'[q].cert # NoPath => h.cainfo = asked'[q].cert
    <3>1. CASE q = r
      BY <2>5, <3>1
    <3>2. CASE q # r
      <4>1. /\ stage[q] \in {"commit", "queued", "go"} /\ asked'[q] = asked[q]
            /\ handle'[held'[q]] = handle[held[q]]
        BY <2>6, <2>7, <3>2
      <4> QED
        BY <4>1 DEF ConfigOfRequest
    <3> QED
      BY <3>1, <3>2
  <2> QED
    BY <2>7 DEF ConfigOfRequest
<1>4. ASSUME NEW r \in Requests, Commit(r) PROVE ConfigOfRequest'
  BY <1>4, ConfigKept DEF Commit, Goto, Executor!Submit, Executor!Move
<1>5. ASSUME NEW r \in Requests, CommitDrops(r) PROVE ConfigOfRequest'
  BY <1>5, ConfigKept DEF CommitDrops, Goto, Executor!Drop, Executor!Move
<1>6. ASSUME NEW r \in Requests, Start(r) PROVE ConfigOfRequest'
  BY <1>6, ConfigKept DEF Start, Goto, Executor!Start, Executor!Move
<1>7. ASSUME NEW r \in Requests, GoInvalid(r) PROVE ConfigOfRequest'
  <2>1. /\ stage' = [stage EXCEPT ![r] = AfterGo(r)] /\ stage[r] = "go"
        /\ held' = held /\ pool' = pool /\ handle' = handle /\ asked' = asked
        /\ answers' = answers /\ AfterGo(r) \in {"reuse", "end"}
    BY <1>7 DEF GoInvalid, Goto, AfterGo
  <2> QED
    BY <2>1, ConfigKept
<1>8. ASSUME NEW r \in Requests, Perform(r) PROVE ConfigOfRequest'
  <2>1. /\ stage' = [stage EXCEPT ![r] = "callback"] /\ stage[r] = "go" /\ Using(r)
        /\ held' = held /\ pool' = pool /\ answers' = answers
    BY <1>8 DEF Perform, Goto, Using, Stages
  <2>2. PICK data : handle' = [handle EXCEPT ![held[r]] = Received(held[r], data)]
    BY <1>8 DEF Perform
  <2>3. ASSUME NEW q \in Requests, q # r
        PROVE  Using(q) => /\ stage'[q] = stage[q] /\ held'[q] = held[q]
                           /\ handle'[held[q]] = handle[held[q]]
    BY <2>1, <2>2, <2>3, OnlyItsOwn
  <2>4. asked' = asked /\ stage'[r] = "callback"
    BY <1>8, <2>1 DEF Perform
  <2> QED
    BY <2>1, <2>3, <2>4, ConfigKept DEF Using, Stages
<1>9. ASSUME NEW r \in Requests, Callback(r) PROVE ConfigOfRequest'
  <2>1. /\ stage' = [stage EXCEPT ![r] = AfterGo(r)] /\ stage[r] = "callback"
        /\ held' = held /\ pool' = pool /\ handle' = handle /\ asked' = asked
        /\ AfterGo(r) \in {"reuse", "end"}
    BY <1>9 DEF Callback, Goto, AfterGo
  <2> QED
    BY <2>1, ConfigKept
<1>10. ASSUME NEW r \in Requests, ReuseUrl(r) PROVE ConfigOfRequest'
  <2>1. /\ stage' = [stage EXCEPT ![r] = "add"] /\ stage[r] = "reuse" /\ Using(r)
        /\ held' = held /\ pool' = pool /\ answers' = answers
    BY <1>10 DEF ReuseUrl, Goto, Using, Stages
  <2>2. handle' = [handle EXCEPT ![held[r]] = reuse_url(held[r])]
    BY <1>10 DEF ReuseUrl
  <2>3. ASSUME NEW q \in Requests, q # r
        PROVE  Using(q) => /\ stage'[q] = stage[q] /\ held'[q] = held[q]
                           /\ handle'[held[q]] = handle[held[q]]
    BY <2>1, <2>2, <2>3, OnlyItsOwn
  <2>4. asked' = asked /\ stage'[r] = "add"
    BY <1>10, <2>1 DEF ReuseUrl
  <2> QED
    BY <2>1, <2>3, <2>4, ConfigKept DEF Using, Stages
<1>11. ASSUME NEW r \in Requests, AddCacheUrl(r) PROVE ConfigOfRequest'
  BY <1>11, ConfigKept DEF AddCacheUrl, Goto
<1>12. ASSUME NEW r \in Requests, Finish(r) PROVE ConfigOfRequest'
  BY <1>12, ConfigKept DEF Finish, Goto, Executor!Finish, Executor!Move
<1>13. CASE SetCertPath
  BY <1>13, ConfigKept DEF SetCertPath
<1>14. CASE SetProxyPath
  BY <1>14, ConfigKept DEF SetProxyPath
<1>15. CASE Reinit
  BY <1>15, ConfigKept DEF Reinit
<1>16. CASE Clock
  BY <1>16, ConfigKept DEF Clock
<1>17. CASE Close
  BY <1>17, ConfigKept DEF Close, Executor!Close
<1>18. CASE Terminate
  <2>1. \A q \in Requests : stage'[q] \notin {"commit", "queued", "go"}
    BY <1>18 DEF Terminate, Executor!Terminate, StageInv
  <2> QED
    BY <2>1, ConfigKept
<1> QED
  BY <1>1, <1>2, <1>3, <1>4, <1>5, <1>6, <1>7, <1>8, <1>9, <1>10, <1>11,
     <1>12, <1>13, <1>14, <1>15, <1>16, <1>17, <1>18
     DEF Next, Caller, Worker

(* Every step preserves that a request is answered last, from a handle of its own. *)
LEMMA AnswerStep ==
    ASSUME IInv, [Next]_vars
    PROVE  AnswerInv'
<1> USE DEF IInv, TypeOK, executor, config, global
<1>1. CASE UNCHANGED vars
  BY <1>1, AnswerKept DEF vars
<1>2. ASSUME NEW r \in Requests, Call(r) PROVE AnswerInv'
  <2>1. PICK h \in Handles :
          /\ held' = [held EXCEPT ![r] = h]
          /\ \A q \in Requests : Using(q) => held[q] # h
          /\ \A p \in Pools : /\ Elements(pool'[p]) \subseteq Elements(pool[p])
                              /\ h \notin Elements(pool'[p])
          /\ \/ handle' = handle /\ Clean(h)
             \/ \E valid \in BOOLEAN : handle' = [handle EXCEPT ![h] = NewHandle(valid)]
    BY <1>2, CallEffect
  <2>2. /\ stage' = [stage EXCEPT ![r] = "configure"] /\ stage[r] = "new"
        /\ asked' = asked /\ answers' = answers
    BY <1>2 DEF Call, Goto
  <2>3. ASSUME NEW q \in Requests, Using(q)
        PROVE  q # r /\ held'[q] = held[q] /\ handle'[held[q]] = handle[held[q]]
    <3>1. q # r /\ held[q] # h /\ held[q] \in Handles
      BY <2>1, <2>2, <2>3, HeldHandle DEF Using, Stages
    <3> QED
      BY <2>1, <3>1
  <2>4. \A q \in Requests : q # r => stage'[q] = stage[q]
    BY <2>2
  <2>5. stage'[r] = "configure" /\ stage[r] = "new"
    BY <2>2
  <2> QED
    BY <2>2, <2>3, <2>4, <2>5, AnswerKept DEF Using, Stages
<1>3. ASSUME NEW r \in Requests, Configure(r) PROVE AnswerInv'
  <2>1. /\ stage' = [stage EXCEPT ![r] = "commit"] /\ stage[r] = "configure" /\ Using(r)
        /\ held' = held /\ pool' = pool /\ answers' = answers
    BY <1>3 DEF Configure, Goto, Using, Stages
  <2>2. handle' = [handle EXCEPT ![held[r]] = Configured(held[r], r)]
    BY <1>3 DEF Configure
  <2>3. ASSUME NEW q \in Requests, q # r
        PROVE  Using(q) => /\ stage'[q] = stage[q] /\ held'[q] = held[q]
                           /\ handle'[held[q]] = handle[held[q]]
    BY <2>1, <2>2, <2>3, OnlyItsOwn
  <2>4. /\ handle'[held'[r]].seq = {r} /\ answers[r] = <<>>
        /\ handle'[held'[r]].valid => handle'[held'[r]].m_buffer = {}
    <3> DEFINE old == handle[held[r]]
               new == Configured(held[r], r)
    <3>1. held[r] \in Handles /\ handle'[held'[r]] = new
      BY <2>1, <2>2, OnlyItsOwn
    <3>2. new.valid = old.valid /\ new.seq = {r} /\ (old.valid => new.m_buffer = {})
      BY <3>1, ConfiguredFields
    <3>3. answers[r] = <<>>
      BY <2>1 DEF AnswerInv
    <3> HIDE DEF old, new
    <3> QED
      BY <3>1, <3>2, <3>3
  <2>5. stage'[r] = "commit"
    BY <2>1
  <2>6. ASSUME NEW q \in Requests, q # r
        PROVE  /\ stage'[q] = stage[q]
               /\ Using(q) => handle'[held'[q]] = handle[held[q]]
    BY <2>1, <2>3, <2>6
  <2> QED
    <3>1. ASSUME NEW q \in Requests, q # r
          PROVE  /\ stage'[q] \in {"commit", "queued", "go", "callback"} =>
                      /\ handle'[held'[q]].seq = {q}
                      /\ handle'[held'[q]].valid => handle'[held'[q]].m_buffer \subseteq {q}
                 /\ stage'[q] = "callback" => handle'[held'[q]].valid
                 /\ stage'[q] \in {"new", "configure", "commit", "queued", "go", "callback"}
                      => answers'[q] = <<>>
      BY <2>1, <2>6, <3>1 DEF AnswerInv, Using, Stages
    <3> QED
      BY <2>1, <2>4, <2>5, <3>1 DEF AnswerInv
<1>4. ASSUME NEW r \in Requests, Commit(r) PROVE AnswerInv'
  BY <1>4, AnswerKept DEF Commit, Goto, Executor!Submit, Executor!Move
<1>5. ASSUME NEW r \in Requests, CommitDrops(r) PROVE AnswerInv'
  BY <1>5, AnswerKept DEF CommitDrops, Goto, Executor!Drop, Executor!Move
<1>6. ASSUME NEW r \in Requests, Start(r) PROVE AnswerInv'
  BY <1>6, AnswerKept DEF Start, Goto, Executor!Start, Executor!Move
<1>7. ASSUME NEW r \in Requests, GoInvalid(r) PROVE AnswerInv'
  <2>1. /\ stage' = [stage EXCEPT ![r] = AfterGo(r)] /\ stage[r] = "go"
        /\ held' = held /\ pool' = pool /\ handle' = handle /\ asked' = asked
        /\ answers' = answers /\ AfterGo(r) \in {"reuse", "end"}
    BY <1>7 DEF GoInvalid, Goto, AfterGo
  <2> QED
    BY <2>1, AnswerKept
<1>8. ASSUME NEW r \in Requests, Perform(r) PROVE AnswerInv'
  <2>1. /\ stage' = [stage EXCEPT ![r] = "callback"] /\ stage[r] = "go" /\ Using(r)
        /\ held' = held /\ pool' = pool /\ answers' = answers
    BY <1>8 DEF Perform, Goto, Using, Stages
  <2>2. PICK data \in {{}, {r}} : handle' = [handle EXCEPT ![held[r]] = Received(held[r], data)]
    BY <1>8 DEF Perform
  <2>3. ASSUME NEW q \in Requests, q # r
        PROVE  Using(q) => /\ stage'[q] = stage[q] /\ held'[q] = held[q]
                           /\ handle'[held[q]] = handle[held[q]]
    BY <2>1, <2>2, <2>3, OnlyItsOwn
  <2>4. /\ held[r] \in Handles /\ handle[held[r]].valid
        /\ handle'[held'[r]] = Received(held[r], data)
        /\ data \in SUBSET Requests /\ data \subseteq {r}
    BY <1>8, <2>1, <2>2, OnlyItsOwn DEF Perform
  <2>5. /\ handle'[held'[r]].seq = {r} /\ answers[r] = <<>>
        /\ handle'[held'[r]].valid /\ handle'[held'[r]].m_buffer \subseteq {r}
    <3> DEFINE old == handle[held[r]]
               new == Received(held[r], data)
    <3>1. /\ new.m_buffer = old.m_buffer \cup data
          /\ new.valid = old.valid /\ new.seq = old.seq
      BY <2>4, ReceivedFields
    <3>2. answers[r] = <<>> /\ old.seq = {r} /\ old.valid /\ old.m_buffer \subseteq {r}
      BY <2>1, <2>4 DEF AnswerInv
    <3>3. handle'[held'[r]] = new
      BY <2>4
    <3> HIDE DEF old, new
    <3> QED
      BY <2>4, <3>1, <3>2, <3>3
  <2>6. ASSUME NEW q \in Requests, q # r
        PROVE  /\ stage'[q] = stage[q]
               /\ Using(q) => handle'[held'[q]] = handle[held[q]]
    BY <2>1, <2>3, <2>6
  <2> QED
    <3>1. ASSUME NEW q \in Requests, q # r
          PROVE  /\ stage'[q] \in {"commit", "queued", "go", "callback"} =>
                      /\ handle'[held'[q]].seq = {q}
                      /\ handle'[held'[q]].valid => handle'[held'[q]].m_buffer \subseteq {q}
                 /\ stage'[q] = "callback" => handle'[held'[q]].valid
                 /\ stage'[q] \in {"new", "configure", "commit", "queued", "go", "callback"}
                      => answers'[q] = <<>>
      BY <2>1, <2>6, <3>1 DEF AnswerInv, Using, Stages
    <3> QED
      BY <2>1, <2>5, <3>1 DEF AnswerInv
<1>9. ASSUME NEW r \in Requests, Callback(r) PROVE AnswerInv'
  <2>1. /\ stage' = [stage EXCEPT ![r] = AfterGo(r)] /\ stage[r] = "callback"
        /\ held' = held /\ handle' = handle /\ AfterGo(r) \in {"reuse", "end"}
    BY <1>9 DEF Callback, Goto, AfterGo
  <2>2. \A q \in Requests : q # r => answers'[q] = answers[q]
    BY <1>9, <2>1 DEF Callback, AnswerInv
  <2>3. stage'[r] \in {"reuse", "end"} /\ \A q \in Requests : q # r => stage'[q] = stage[q]
    BY <2>1
  <2> QED
    BY <2>1, <2>2, <2>3 DEF AnswerInv
<1>10. ASSUME NEW r \in Requests, ReuseUrl(r) PROVE AnswerInv'
  <2>1. /\ stage' = [stage EXCEPT ![r] = "add"] /\ stage[r] = "reuse" /\ Using(r)
        /\ held' = held /\ pool' = pool /\ answers' = answers
    BY <1>10 DEF ReuseUrl, Goto, Using, Stages
  <2>2. handle' = [handle EXCEPT ![held[r]] = reuse_url(held[r])]
    BY <1>10 DEF ReuseUrl
  <2>3. ASSUME NEW q \in Requests, q # r
        PROVE  Using(q) => /\ stage'[q] = stage[q] /\ held'[q] = held[q]
                           /\ handle'[held[q]] = handle[held[q]]
    BY <2>1, <2>2, <2>3, OnlyItsOwn
  <2>4. stage'[r] = "add" /\ \A q \in Requests : q # r => stage'[q] = stage[q]
    BY <2>1
  <2> QED
    BY <2>1, <2>3, <2>4, AnswerKept DEF Using, Stages
<1>11. ASSUME NEW r \in Requests, AddCacheUrl(r) PROVE AnswerInv'
  BY <1>11, AnswerKept DEF AddCacheUrl, Goto
<1>12. ASSUME NEW r \in Requests, Finish(r) PROVE AnswerInv'
  BY <1>12, AnswerKept DEF Finish, Goto, Executor!Finish, Executor!Move
<1>13. CASE SetCertPath
  BY <1>13, AnswerKept DEF SetCertPath
<1>14. CASE SetProxyPath
  BY <1>14, AnswerKept DEF SetProxyPath
<1>15. CASE Reinit
  BY <1>15, AnswerKept DEF Reinit
<1>16. CASE Clock
  BY <1>16, AnswerKept DEF Clock
<1>17. CASE Close
  BY <1>17, AnswerKept DEF Close, Executor!Close
<1>18. CASE Terminate
  <2>1. /\ stage' = [q \in Requests |-> IF stage[q] = "queued" THEN "gone" ELSE stage[q]]
        /\ answers' = answers
        /\ \A q \in Requests : stage'[q] \notin {"configure", "commit", "queued", "go", "callback"}
    BY <1>18 DEF Terminate, Executor!Terminate, StageInv
  <2>2. \A q \in Requests : stage'[q] = "new" => stage[q] = "new"
    BY <2>1
  <2> QED
    BY <2>1, <2>2, AnswerKept
<1> QED
  BY <1>1, <1>2, <1>3, <1>4, <1>5, <1>6, <1>7, <1>8, <1>9, <1>10, <1>11,
     <1>12, <1>13, <1>14, <1>15, <1>16, <1>17, <1>18
     DEF Next, Caller, Worker

(* Every step preserves that a request is answered once and with what is its own. *)
LEMMA OwnAnswerStep ==
    ASSUME IInv, [Next]_vars
    PROVE  OwnAnswer'
<1> USE DEF IInv, OwnAnswer
<1>1. CASE UNCHANGED vars
  BY <1>1 DEF vars
<1>2. ASSUME NEW r \in Requests, Call(r) PROVE OwnAnswer'
  BY <1>2 DEF Call, Goto
<1>3. ASSUME NEW r \in Requests, Configure(r) PROVE OwnAnswer'
  BY <1>3 DEF Configure, Goto
<1>4. ASSUME NEW r \in Requests, Commit(r) PROVE OwnAnswer'
  BY <1>4 DEF Commit, Goto
<1>5. ASSUME NEW r \in Requests, CommitDrops(r) PROVE OwnAnswer'
  BY <1>5 DEF CommitDrops, Goto
<1>6. ASSUME NEW r \in Requests, Start(r) PROVE OwnAnswer'
  BY <1>6 DEF Start, Goto
<1>7. ASSUME NEW r \in Requests, GoInvalid(r) PROVE OwnAnswer'
  BY <1>7 DEF GoInvalid, Goto
<1>8. ASSUME NEW r \in Requests, Perform(r) PROVE OwnAnswer'
  BY <1>8 DEF Perform, Goto
<1>9. ASSUME NEW r \in Requests, Callback(r) PROVE OwnAnswer'
  <2> DEFINE h == handle[held[r]]
             a == [by |-> r, body |-> h.m_buffer]
  <2>1. /\ h.seq = {r} /\ h.m_buffer \subseteq {r} /\ answers[r] = <<>>
    BY <1>9 DEF Callback, Goto, AnswerInv
  <2>2. /\ answers' = [q \in Requests |-> IF q \in h.seq THEN Append(answers[q], a)
                                                        ELSE answers[q]]
        /\ Append(<<>>, a) = <<a>>
    BY <1>9 DEF Callback
  <2>3. a.by = r /\ a.body \subseteq {r}
    BY <2>1
  <2> HIDE DEF a, h
  <2>4. answers'[r] = <<a>> /\ \A q \in Requests : q # r => answers'[q] = answers[q]
    BY <2>1, <2>2
  <2>5. Len(<<a>>) = 1 /\ DOMAIN <<a>> = {1} /\ <<a>>[1] = a
    OBVIOUS
  <2>6. /\ Len(answers'[r]) <= 1
        /\ \A i \in DOMAIN answers'[r] :
              answers'[r][i].by = r /\ answers'[r][i].body \subseteq {r}
    BY <2>3, <2>4, <2>5
  <2> QED
    BY <2>4, <2>6
<1>10. ASSUME NEW r \in Requests, ReuseUrl(r) PROVE OwnAnswer'
  BY <1>10 DEF ReuseUrl, Goto
<1>11. ASSUME NEW r \in Requests, AddCacheUrl(r) PROVE OwnAnswer'
  BY <1>11 DEF AddCacheUrl, Goto
<1>12. ASSUME NEW r \in Requests, Finish(r) PROVE OwnAnswer'
  BY <1>12 DEF Finish, Goto
<1>13. CASE SetCertPath
  BY <1>13 DEF SetCertPath
<1>14. CASE SetProxyPath
  BY <1>14 DEF SetProxyPath
<1>15. CASE Reinit
  BY <1>15 DEF Reinit
<1>16. CASE Clock
  BY <1>16 DEF Clock
<1>17. CASE Close
  BY <1>17 DEF Close, Executor!Close
<1>18. CASE Terminate
  BY <1>18 DEF Terminate, Executor!Terminate
<1> QED
  BY <1>1, <1>2, <1>3, <1>4, <1>5, <1>6, <1>7, <1>8, <1>9, <1>10, <1>11,
     <1>12, <1>13, <1>14, <1>15, <1>16, <1>17, <1>18
     DEF Next, Caller, Worker

-------------------------------------------------------------------------------
(* The invariant. *)

LEMMA InitInv == Init => IInv
<1> SUFFICES ASSUME Init PROVE IInv
  OBVIOUS
<1> USE CacheAssumption DEF Init, Executor!Init
<1>1. TypeOK
  <2>1. NewHandle(TRUE) \in Handle
    BY DEF NewHandle, Handle
  <2>2. handle \in [Handles -> Handle]
    <3> HIDE DEF NewHandle, Handle
    <3> QED
      BY <2>1
  <2>3. /\ pool \in [Pools -> Seq(Handles)]
        /\ answers \in [Requests -> Seq(Answer)]
    OBVIOUS
  <2>4. /\ asked \in [Requests -> [cert : Paths \cup {NoPath}, proxy : Paths \cup {NoPath}]]
        /\ m_cert_path \in Paths \cup {NoPath} /\ m_proxy_path \in Paths \cup {NoPath}
        /\ POOL_SIZE \in Sizes /\ inits \in Nat
    OBVIOUS
  <2>5. now \in 0 .. MaxTime
    OBVIOUS
  <2>6. /\ Executor!TypeOK
        /\ stage \in [Requests -> Stages]
        /\ held \in [Requests -> Handles \cup {NoHandle}]
    BY DEF Executor!TypeOK, Executor!Statuses, Stages
  <2> QED
    BY <2>2, <2>3, <2>4, <2>5, <2>6 DEF TypeOK
<1>2. StageInv
  BY DEF StageInv
<1>3. \A p \in Pools : pool[p] = <<>>
  OBVIOUS
<1>4. \A r \in Requests : stage[r] = "new" /\ answers[r] = <<>>
  OBVIOUS
<1>5. ExclusiveHandle
  BY <1>3, <1>4 DEF ExclusiveHandle, NoHandleTwice, Using
<1>6. CleanInv
  BY <1>3, <1>4 DEF CleanInv, Elements
<1>7. ConfigOfRequest /\ AnswerInv
  BY <1>4 DEF ConfigOfRequest, AnswerInv
<1>8. OwnAnswer
  BY <1>4 DEF OwnAnswer
<1> QED
  BY <1>1, <1>2, <1>5, <1>6, <1>7, <1>8 DEF IInv

(* The inductive invariant holds in every reachable state. *)
THEOREM Invariance == Spec => []IInv
<1>1. IInv /\ [Next]_vars => IInv'
  BY TypeStep, StageStep, ExclusiveStep, CleanStep, ConfigStep, AnswerStep,
     OwnAnswerStep DEF IInv
<1> QED
  BY InitInv, <1>1, PTL DEF Spec

(* The variables of RequestCache hold values of their types. *)
THEOREM TypeCorrect == Spec => []TypeOK
<1>1. IInv => TypeOK
  BY DEF IInv
<1> QED
  BY Invariance, <1>1, PTL

(* No two requests use one curl handle at a time, no handle waits in a deque
   while a request uses it, and none waits in two places: get_cached_url takes
   the handle out in the critical section in which it finds it, and
   add_cache_url is the last use (requestmanager.h:95-117, 392-436). *)
THEOREM HandlesAreExclusive == Spec => []ExclusiveHandle
<1>1. IInv => ExclusiveHandle
  BY DEF IInv
<1> QED
  BY Invariance, <1>1, PTL

(* A transfer is performed with the headers, body, proxy and certificate of its
   own request: what reuse_url clears before the handle is cached, and what the
   setters overwrite after it is taken, leave nothing of an earlier request
   (request.h:98-120, 130-209). *)
THEOREM ConfigIsOfRequest == Spec => []ConfigOfRequest
<1>1. IInv => ConfigOfRequest
  BY DEF IInv
<1> QED
  BY Invariance, <1>1, PTL

(* A request is answered at most once, with its own number and nothing of an
   earlier response (request.h:150, 237-266). *)
THEOREM AnswersAreOwn == Spec => []OwnAnswer
<1>1. IInv => OwnAnswer
  BY DEF IInv
<1> QED
  BY Invariance, <1>1, PTL

(* A step lets a deque grow only within the size, and changes the size only with
   another init. *)
LEMMA GrowthStep ==
    ASSUME IInv, [Next]_vars
    PROVE  /\ POOL_SIZE \in Nat /\ inits \in Nat
           /\ \A p \in Pools :
                /\ Len(pool'[p]) \in Nat /\ Len(pool[p]) \in Nat
                /\ Len(pool'[p]) <= Len(pool[p]) \/ Len(pool'[p]) <= POOL_SIZE
           /\ \/ POOL_SIZE' = POOL_SIZE /\ inits' = inits
              \/ pool' = pool /\ inits' = inits + 1
<1> DEFINE Kept == pool' = pool /\ POOL_SIZE' = POOL_SIZE /\ inits' = inits
           Within == /\ \A p \in Pools : \/ Len(pool'[p]) <= Len(pool[p])
                                        \/ Len(pool'[p]) <= POOL_SIZE
                     /\ \/ POOL_SIZE' = POOL_SIZE /\ inits' = inits
                        \/ pool' = pool /\ inits' = inits + 1
<1> USE DEF global
<1>1. POOL_SIZE \in Nat /\ inits \in Nat
  BY CacheAssumption DEF IInv, TypeOK
<1>2. TypeOK'
  BY TypeStep DEF IInv
<1>3. \A p \in Pools : Len(pool'[p]) \in Nat /\ Len(pool[p]) \in Nat
  BY <1>2 DEF IInv, TypeOK
<1>4. Kept => Within
  BY <1>3
<1>5. ASSUME NEW r \in Requests, Call(r) PROVE Within
  BY <1>5, CallEffect DEF Call
<1>6. ASSUME NEW r \in Requests, AddCacheUrl(r) PROVE Within
  <2>1. Cacheable(r)
    BY <1>6 DEF AddCacheUrl, Goto, IInv, StageInv
  <2>2. POOL_SIZE' = POOL_SIZE /\ inits' = inits
    BY <1>6 DEF AddCacheUrl
  <2>3. \A p \in Pools : Len(pool'[p]) <= POOL_SIZE \/ Len(pool'[p]) <= Len(pool[p])
    BY <1>6, <2>1, AddEffect
  <2> QED
    BY <2>2, <2>3
<1>7. ASSUME Reinit PROVE Within
  <2>1. pool' = pool /\ inits' = inits + 1
    BY <1>7 DEF Reinit
  <2> QED
    BY <1>3, <2>1
<1>8. ASSUME Terminate PROVE Within
  BY <1>1, <1>3, <1>8 DEF Terminate
<1>9. ASSUME NEW r \in Requests, Caller(r) PROVE Kept
  BY <1>9 DEF Caller, Configure, Commit, CommitDrops
<1>10. ASSUME NEW r \in Requests, Worker(r), ~ AddCacheUrl(r) PROVE Kept
  BY <1>10 DEF Worker, Start, GoInvalid, Perform, Callback, ReuseUrl, Finish
<1>11. ASSUME SetCertPath \/ SetProxyPath \/ Close \/ Clock PROVE Kept
  BY <1>11 DEF SetCertPath, SetProxyPath, Close, Clock
<1>12. UNCHANGED vars => Kept
  BY DEF vars
<1>13. Within
  <2> HIDE DEF Kept, Within
  <2>1. ASSUME NEW r \in Requests, Call(r) \/ Caller(r) \/ Worker(r) PROVE Within
    BY <1>4, <1>5, <1>6, <1>9, <1>10, <2>1
  <2>2. CASE Next
    BY <1>4, <1>7, <1>8, <1>11, <2>1, <2>2 DEF Next
  <2> QED
    BY <1>4, <1>12, <2>2
<1> QED
  BY <1>1, <1>3, <1>13

(* While init is called once, no cache holds more handles than the size init was
   given (requestmanager.h:22, 38, 430-434). *)
THEOREM CachesAreBounded == Spec => []CacheBound
<1> DEFINE I == inits >= 1 /\ CacheBound
<1>1. Init => I
  BY CacheAssumption DEF Init, CacheBound
<1>2. ASSUME IInv, I, [Next]_vars PROVE I'
  BY <1>2, GrowthStep DEF CacheBound
<1>3. I => CacheBound
  OBVIOUS
<1> HIDE DEF I
<1> QED
  BY Invariance, <1>1, <1>2, <1>3, PTL DEF Spec

(* However often init has changed the size, no cache grows but within the size of that
   moment (requestmanager.h:36-43, 399-421, 430-434). *)
THEOREM CachesGrowWithinSize == Spec => GrowsWithinSize
<1>1. ASSUME IInv, [Next]_vars
      PROVE  \A p \in Pools : Len(pool'[p]) > Len(pool[p]) => Len(pool'[p]) <= POOL_SIZE
  BY <1>1, GrowthStep
<1> QED
  BY Invariance, <1>1, PTL DEF Spec, GrowsWithinSize

-------------------------------------------------------------------------------
(* The abstract specification. *)

Waiting == {"configure", "commit", "queued", "go", "callback"}

(* A caller sees nothing of a step between two of these stages, or after them. *)
LEMMA UnseenStep ==
    ASSUME answers' = answers,
           \A r \in Requests :
              \/ stage'[r] = stage[r]
              \/ stage[r] \in Waiting /\ stage'[r] \in Waiting
              \/ /\ stage[r] \notin Waiting \cup {"new"}
                 /\ stage'[r] \notin Waiting \cup {"new"}
    PROVE  Answered' = Answered
<1>1. ASSUME NEW r \in Requests PROVE Outcome(r)' = Outcome(r)
  BY DEF Outcome, Waiting
<1> QED
  BY <1>1 DEF Answered

LEMMA OwedWhileWaiting ==
    ASSUME AnswerInv, NEW r \in Requests, stage[r] \in Waiting
    PROVE  answers[r] = <<>> /\ Answered[r] = "owed"
BY DEF AnswerInv, Outcome, Answered, Waiting

(* A request that leaves these stages without a callback is lost. *)
LEMMA LostStep ==
    ASSUME TypeOK, AnswerInv, answers' = answers, NEW r \in Requests,
           stage[r] \in Waiting, NEW to \in {"reuse", "end", "gone"},
           stage' = [stage EXCEPT ![r] = to]
    PROVE  Promise!Lose(r)
<1>1. answers[r] = <<>> /\ Answered[r] = "owed"
  BY OwedWhileWaiting
<1>2. stage' \in [Requests -> Stages] /\ stage'[r] = to
      /\ \A q \in Requests : q # r => stage'[q] = stage[q]
  BY DEF TypeOK, Stages
<1>3. Outcome(r)' = "lost"
  BY <1>1, <1>2 DEF Outcome
<1>4. \A q \in Requests : q # r => Outcome(q)' = Outcome(q)
  BY <1>2 DEF Outcome
<1>5. Answered' = [Answered EXCEPT ![r] = "lost"]
  BY <1>3, <1>4 DEF Answered
<1> QED
  BY <1>1, <1>5 DEF Promise!Lose, Promise!Settle

(* The callback answers the request of the worker, and no other. *)
LEMMA SucceedStep ==
    ASSUME TypeOK, AnswerInv, NEW r \in Requests, Callback(r)
    PROVE  Promise!Succeed(r)
<1> DEFINE h == handle[held[r]]
           a == [by |-> r, body |-> h.m_buffer]
<1>1. stage[r] = "callback" /\ h.seq = {r}
  BY DEF Callback, Goto, AnswerInv
<1>2. answers[r] = <<>> /\ Answered[r] = "owed"
  BY <1>1, OwedWhileWaiting DEF Waiting
<1>3. stage' \in [Requests -> Stages] /\ stage'[r] # "new"
      /\ \A q \in Requests : q # r => stage'[q] = stage[q]
  BY DEF TypeOK, Callback, Goto, AfterGo, Stages
<1>4. answers'[r] = Append(answers[r], a)
      /\ \A q \in Requests : q # r => answers'[q] = answers[q]
  BY <1>1 DEF Callback
<1>5. answers'[r] # <<>> /\ Len(answers'[r]) = 1
  <2> HIDE DEF a
  <2>1. answers'[r] = <<a>>
    BY <1>2, <1>4
  <2> QED
    BY <2>1
<1>6. Outcome(r)' = "success"
  BY <1>3, <1>5 DEF Outcome
<1>7. \A q \in Requests : q # r => Outcome(q)' = Outcome(q)
  BY <1>3, <1>4 DEF Outcome
<1>8. Answered' = [Answered EXCEPT ![r] = "success"]
  BY <1>6, <1>7 DEF Answered
<1> QED
  BY <1>2, <1>8 DEF Promise!Succeed, Promise!Settle

LEMMA AskStep ==
    ASSUME TypeOK, AnswerInv, NEW r \in Requests, Call(r)
    PROVE  Promise!Ask(r)
<1>1. stage[r] = "new" /\ answers[r] = <<>> /\ answers' = answers
  BY DEF Call, Goto, AnswerInv
<1>2. stage'[r] = "configure" /\ \A q \in Requests : q # r => stage'[q] = stage[q]
  BY DEF TypeOK, Call, Goto
<1>3. Outcome(r) = "unasked" /\ Outcome(r)' = "owed"
  BY <1>1, <1>2 DEF Outcome
<1>4. \A q \in Requests : q # r => Outcome(q)' = Outcome(q)
  BY <1>1, <1>2 DEF Outcome
<1>5. Answered[r] = "unasked" /\ Answered' = [Answered EXCEPT ![r] = "owed"]
  BY <1>3, <1>4 DEF Answered
<1> QED
  BY <1>5 DEF Promise!Ask, Promise!Settle

(* Every step of the manager and its workers is a step of RequestPromise, or the
   callers see nothing of it. *)
LEMMA PromiseStep ==
    ASSUME TypeOK, AnswerInv, StageInv, Next
    PROVE  [Promise!Next]_Answered
<1> DEFINE Goal == [Promise!Next]_Answered
<1>A. Answered' = Answered => Goal
  OBVIOUS
<1>B. ASSUME NEW r \in Requests, Promise!Ask(r) \/ Promise!Succeed(r) \/ Promise!Lose(r)
      PROVE  Goal
  BY <1>B DEF Promise!Next
<1> HIDE DEF Goal
<1>1. ASSUME NEW r \in Requests, Call(r) PROVE Goal
  BY <1>1, <1>B, AskStep
<1>2. ASSUME NEW r \in Requests, Callback(r) PROVE Goal
  BY <1>2, <1>B, SucceedStep
<1>3. ASSUME NEW r \in Requests, CommitDrops(r) PROVE Goal
  <2>1. answers' = answers /\ stage[r] \in Waiting /\ stage' = [stage EXCEPT ![r] = "gone"]
    BY <1>3 DEF CommitDrops, Goto, Waiting
  <2> QED
    BY <2>1, <1>B, LostStep
<1>4. ASSUME NEW r \in Requests, GoInvalid(r) PROVE Goal
  <2>1. answers' = answers /\ stage[r] \in Waiting
        /\ stage' = [stage EXCEPT ![r] = AfterGo(r)] /\ AfterGo(r) \in {"reuse", "end"}
    BY <1>4 DEF GoInvalid, Goto, Waiting, AfterGo
  <2> QED
    BY <2>1, <1>B, LostStep
<1>5. ASSUME NEW r \in Requests,
             Configure(r) \/ Commit(r) \/ Start(r) \/ Perform(r)
      PROVE  Goal
  <2>1. answers' = answers /\ stage[r] \in Waiting
        /\ \E to \in Waiting : stage' = [stage EXCEPT ![r] = to]
    BY <1>5 DEF Configure, Commit, Start, Perform, Goto, Waiting
  <2>2. \A q \in Requests : stage'[q] = stage[q] \/ (stage[q] \in Waiting /\ stage'[q] \in Waiting)
    BY <2>1 DEF TypeOK
  <2> QED
    BY <2>1, <2>2, <1>A, UnseenStep
<1>6. ASSUME NEW r \in Requests, ReuseUrl(r) \/ AddCacheUrl(r) \/ Finish(r)
      PROVE  Goal
  <2>1. answers' = answers /\ stage[r] \notin Waiting \cup {"new"}
        /\ \E to \in {"add", "end", "gone"} : stage' = [stage EXCEPT ![r] = to]
    BY <1>6 DEF ReuseUrl, AddCacheUrl, Finish, Goto, Waiting
  <2>2. \A q \in Requests :
           \/ stage'[q] = stage[q]
           \/ stage[q] \notin Waiting \cup {"new"} /\ stage'[q] \notin Waiting \cup {"new"}
    BY <2>1 DEF TypeOK, Waiting
  <2> QED
    BY <2>1, <2>2, <1>A, UnseenStep
<1>7. ASSUME SetCertPath \/ SetProxyPath \/ Reinit \/ Clock \/ Close PROVE Goal
  <2>1. answers' = answers /\ stage' = stage
    BY <1>7 DEF SetCertPath, SetProxyPath, Reinit, Clock, Close
  <2> QED
    BY <2>1, <1>A, UnseenStep
<1>8. ASSUME Terminate PROVE Goal
  <2> DEFINE lost == {r \in Requests : stage[r] = "queued"}
  <2>1. answers' = answers
        /\ stage' = [r \in Requests |-> IF stage[r] = "queued" THEN "gone" ELSE stage[r]]
    BY <1>8 DEF Terminate
  <2>2. \A r \in lost : Answered[r] = "owed" /\ answers[r] = <<>>
    BY OwedWhileWaiting DEF Waiting
  <2>3. \A r \in lost : Outcome(r)' = "lost"
    BY <2>1, <2>2 DEF Outcome
  <2>4. \A r \in Requests \ lost : Outcome(r)' = Outcome(r)
    BY <2>1 DEF Outcome
  <2>5. Answered' = [r \in Requests |-> IF r \in lost THEN "lost" ELSE Answered[r]]
    BY <2>3, <2>4 DEF Answered
  <2>6. lost \in SUBSET Requests
    OBVIOUS
  <2> HIDE DEF lost
  <2>7. Promise!LoseAll
    BY <2>2, <2>5, <2>6 DEF Promise!LoseAll
  <2> QED
    BY <2>7 DEF Goal, Promise!Next
<1> QED
  BY <1>1, <1>2, <1>3, <1>4, <1>5, <1>6, <1>7, <1>8 DEF Goal, Next, Caller, Worker

(* The caches and workers keep what RequestPromise promises of one callback: one
   answer at most, by the worker of its own request, nothing after it, and an answer
   or a loss only for what was called (request.h:237-266, requestmanager.h:95-118). *)
THEOREM ImplementsPromise == Spec => KeepsPromise
<1>1. Init => Promise!Init
  BY DEF Init, Promise!Init, Answered, Outcome
<1>2. IInv /\ [Next]_vars => [Promise!Next]_Answered
  <2> SUFFICES ASSUME IInv, [Next]_vars PROVE [Promise!Next]_Answered
    OBVIOUS
  <2>1. CASE Next
    BY <2>1, PromiseStep DEF IInv
  <2>2. CASE UNCHANGED vars
    BY <2>2, UnseenStep DEF vars
  <2> QED
    BY <2>1, <2>2
<1> QED
  BY <1>1, <1>2, Invariance, PTL DEF Spec, KeepsPromise, Promise!Spec

===============================================================================
