--------------------------- MODULE ThreadPoolProofs ---------------------------
(***************************************************************************)
(* Proofs about ThreadPool, for any number of closures, callers and        *)
(* threads. The invariants the runs check are not inductive: they rest on  *)
(* who holds the mutex and on where a closure can be, which IInv spells    *)
(* out.                                                                    *)
(***************************************************************************)
EXTENDS ThreadPool, FiniteSetTheorems, SequenceTheorems, TLAPS

(* The mutex is held by exactly the thread that is between its lock and its
   unlock. *)
LockInv ==
    /\ \A w \in Workers : worker[w] \in {"pred", "block", "fetch"} <=> m_mutex = w
    /\ \A c \in Callers : caller[c] = "push" <=> m_mutex = c
    /\ destroyer = "notify" <=> m_mutex = Destroyer

(* A thread holds a closure exactly where the code has one in a variable. *)
HandsInv ==
    /\ \A w \in Workers : fn[w] # NoTask <=> worker[w] \in {"inc", "run", "dec"}
    /\ \A c \in Callers : arg[c] # NoTask <=> caller[c] # "idle"

(* What the predicate of the wait has established while the mutex is held. *)
WaitInv ==
    \A w \in Workers :
        /\ worker[w] = "block" => m_threadfuncs = <<>>
        /\ worker[w] = "fetch" => m_threadfuncs # <<>> \/ m_atmoic_quit_sign

(* The destructor: the quit sign is set before anything else, and once it has
   had the mutex no commit can be past its second test. *)
QuitInv ==
    /\ destroyer # "idle" <=> m_atmoic_quit_sign
    /\ destroyer \in {"notify", "join", "destroyed"} =>
          \A c \in Callers : caller[c] # "push"
    /\ destroyer = "destroyed" => \A c \in Callers : caller[c] = "idle"

(* Which threads exist, and which of them have been joined. *)
JoinInv ==
    /\ destroyer # "destroyed" => \A w \in Workers : worker[w] = "none" <=> w > m_threads
    /\ destroyer = "join" =>
          /\ join_end = m_threads
          /\ \A w \in Workers : w < join_it => worker[w] = "exited"

IInv ==
    /\ TypeOK
    /\ LockInv /\ HandsInv /\ WaitInv /\ QuitInv /\ JoinInv
    /\ OnePlace
    /\ CounterExact
    /\ NoLostWakeup
    /\ NoSleeperAfterQuit
    /\ NoWorkerOutlivesPool

-------------------------------------------------------------------------------
(* Facts about the constants and about sequences. *)

LEMMA Constants ==
    /\ MaxThreads \in Nat
    /\ m_pool_size \in 0 .. MaxThreads
    /\ m_pool_size_max_growth \in 0 .. MaxThreads
    /\ IsFiniteSet(Workers)
<1>1. m_pool_size \in Nat /\ m_pool_size_max_growth \in Nat
  BY PoolAssumption DEF m_pool_size, m_pool_size_max_growth, Clamp
<1>2. MaxThreads \in Nat
  BY <1>1 DEF MaxThreads
<1>3. IsFiniteSet(Workers)
  BY <1>2, FS_Interval DEF Workers
<1> QED
  BY <1>1, <1>2, <1>3 DEF MaxThreads

(* What emplace_back does to the closures in the deque. *)
LEMMA AppendElements ==
    ASSUME NEW S, NEW s \in Seq(S), NEW e \in S
    PROVE  /\ Append(s, e) \in Seq(S)
           /\ Elements(Append(s, e)) = Elements(s) \cup {e}
           /\ Distinct(s) /\ e \notin Elements(s) => Distinct(Append(s, e))
<1> DEFINE a == Append(s, e)
<1>1. /\ a \in Seq(S) /\ Len(a) = Len(s) + 1
      /\ DOMAIN a = 1 .. Len(s) + 1 /\ DOMAIN s = 1 .. Len(s) /\ Len(s) \in Nat
      /\ \A i \in DOMAIN s : a[i] = s[i]
      /\ a[Len(s) + 1] = e
  OBVIOUS
<1>2. Elements(a) = Elements(s) \cup {e}
  BY <1>1 DEF Elements
<1>3. ASSUME Distinct(s), e \notin Elements(s) PROVE Distinct(a)
  BY <1>1, <1>3 DEF Distinct, Elements
<1> QED
  BY <1>1, <1>2, <1>3

(* What pop_front does to them. *)
LEMMA TailElements ==
    ASSUME NEW S, NEW s \in Seq(S), s # <<>>, Distinct(s)
    PROVE  /\ Tail(s) \in Seq(S) /\ Len(Tail(s)) = Len(s) - 1
           /\ Head(s) \in Elements(s)
           /\ Elements(Tail(s)) = Elements(s) \ {Head(s)}
           /\ Distinct(Tail(s))
<1> DEFINE a == Tail(s)
<1>1. /\ a \in Seq(S) /\ Len(a) = Len(s) - 1 /\ Len(s) \in Nat /\ Len(s) >= 1
      /\ DOMAIN a = 1 .. Len(s) - 1 /\ DOMAIN s = 1 .. Len(s)
      /\ \A i \in DOMAIN a : a[i] = s[i + 1]
      /\ Head(s) = s[1]
  OBVIOUS
<1>2. \A i \in DOMAIN s : i = 1 \/ i - 1 \in DOMAIN a
  BY <1>1
<1>3. \A i \in DOMAIN s : i = 1 \/ s[i] = a[i - 1]
  BY <1>1
<1>4. \A i \in DOMAIN a : i + 1 \in DOMAIN s /\ 1 \in DOMAIN s /\ i + 1 # 1
  BY <1>1
<1>5. Head(s) \in Elements(s)
  BY <1>1 DEF Elements
<1>6. \A i \in DOMAIN a : a[i] \in Elements(s) /\ a[i] # Head(s)
  BY <1>1, <1>4 DEF Distinct, Elements
<1>7. \A i \in DOMAIN s : s[i] = Head(s) \/ s[i] \in Elements(a)
  BY <1>1, <1>2, <1>3 DEF Elements
<1>8. Elements(a) = Elements(s) \ {Head(s)}
  BY <1>6, <1>7 DEF Elements
<1>9. Distinct(a)
  BY <1>1, <1>4 DEF Distinct
<1> QED
  BY <1>1, <1>5, <1>8, <1>9

(* What pop_back does to them. *)
LEMMA FrontElements ==
    ASSUME NEW S, NEW s \in Seq(S), s # <<>>, Distinct(s)
    PROVE  /\ Front(s) \in Seq(S) /\ Len(Front(s)) = Len(s) - 1
           /\ s[Len(s)] \in Elements(s)
           /\ Elements(Front(s)) = Elements(s) \ {s[Len(s)]}
           /\ Distinct(Front(s))
<1> DEFINE a == Front(s)
<1>1. Len(s) \in Nat /\ Len(s) >= 1 /\ DOMAIN s = 1 .. Len(s)
  OBVIOUS
<1>2. /\ a \in Seq(S) /\ Len(a) = Len(s) - 1
      /\ \A i \in 1 .. Len(s) - 1 : a[i] = s[i]
  BY <1>1, SubSeqProperties DEF Front
<1>3. DOMAIN a = 1 .. Len(s) - 1
  BY <1>2
<1>4. \A i \in DOMAIN s : i = Len(s) \/ i \in DOMAIN a
  BY <1>1, <1>3
<1>5. \A i \in DOMAIN a : i \in DOMAIN s /\ Len(s) \in DOMAIN s /\ i # Len(s)
  BY <1>1, <1>3
<1>6. Elements(a) = Elements(s) \ {s[Len(s)]}
  BY <1>1, <1>2, <1>3, <1>4, <1>5 DEF Distinct, Elements
<1>7. Distinct(a)
  BY <1>2, <1>3, <1>5 DEF Distinct
<1>8. s[Len(s)] \in Elements(s)
  BY <1>1 DEF Elements
<1> QED
  BY <1>2, <1>6, <1>7, <1>8

-------------------------------------------------------------------------------
(* What the steps do to the deque, to the threads and to the counter. *)

LEMMA FetchEffect ==
    ASSUME IInv, NEW w \in Workers, WorkerFetch(w)
    PROVE  /\ m_threadfuncs' \in Seq(Tasks)
           /\ Len(m_threadfuncs') = Len(m_threadfuncs) - 1
           /\ \E t \in Tasks :
                /\ t \in Elements(m_threadfuncs)
                /\ fn' = [fn EXCEPT ![w] = t]
                /\ Elements(m_threadfuncs') = Elements(m_threadfuncs) \ {t}
                /\ Distinct(m_threadfuncs')
<1>1. /\ m_threadfuncs \in Seq(Tasks) /\ m_threadfuncs # <<>>
      /\ Distinct(m_threadfuncs)
  BY DEF IInv, TypeOK, WaitInv, OnePlace, WorkerFetch, Goto
<1>2. \A t \in Elements(m_threadfuncs) : t \in Tasks
  BY <1>1 DEF Elements
<1>3. CASE m_atmoic_fifo_lifo
  <2>1. /\ fn' = [fn EXCEPT ![w] = Head(m_threadfuncs)]
        /\ m_threadfuncs' = Tail(m_threadfuncs)
    BY <1>1, <1>3 DEF WorkerFetch
  <2> QED
    BY <1>1, <1>2, <2>1, TailElements
<1>4. CASE ~ m_atmoic_fifo_lifo
  <2>1. /\ fn' = [fn EXCEPT ![w] = m_threadfuncs[Len(m_threadfuncs)]]
        /\ m_threadfuncs' = Front(m_threadfuncs)
    BY <1>1, <1>4 DEF WorkerFetch
  <2> QED
    BY <1>1, <1>2, <2>1, FrontElements
<1> QED
  BY <1>3, <1>4

LEMMA PushEffect ==
    ASSUME IInv, NEW c \in Callers, CommitPush(c)
    PROVE  /\ arg[c] \in Tasks
           /\ m_threadfuncs' \in Seq(Tasks)
           /\ Len(m_threadfuncs') = Len(m_threadfuncs) + 1
           /\ Elements(m_threadfuncs') = Elements(m_threadfuncs) \cup {arg[c]}
           /\ Distinct(m_threadfuncs')
<1>1. arg[c] \in Tasks
  BY DEF IInv, TypeOK, HandsInv, CommitPush
<1>2. arg[c] \notin Elements(m_threadfuncs)
  BY <1>1 DEF IInv, OnePlace, InHand, Pending
<1>3. m_threadfuncs \in Seq(Tasks) /\ Distinct(m_threadfuncs)
  BY DEF IInv, TypeOK, OnePlace
<1>4. m_threadfuncs' = Append(m_threadfuncs, arg[c])
  BY DEF CommitPush
<1>5. Len(m_threadfuncs') = Len(m_threadfuncs) + 1
  BY <1>1, <1>3, <1>4
<1> QED
  BY <1>1, <1>2, <1>3, <1>4, <1>5, AppendElements

(* commit adds at most the next thread and wakes at most one that waits, and
   it wakes one if there is one *)
LEMMA PushWorkers ==
    ASSUME IInv, NEW c \in Callers, CommitPush(c)
    PROVE  /\ worker' \in [Workers -> WorkerAt]
           /\ \A v \in Workers :
                \/ worker'[v] = worker[v] /\ ~ (WantsThread /\ v = m_threads + 1)
                \/ /\ worker[v] = "none" /\ worker'[v] = "top"
                   /\ WantsThread /\ v = m_threads + 1
                \/ worker[v] = "waiting" /\ worker'[v] = "lock"
           /\ Waiting # {} => \E v \in Waiting : worker'[v] = "lock"
<1> DEFINE at == IF WantsThread THEN [worker EXCEPT ![m_threads + 1] = "top"]
                                ELSE worker
<1>1. worker \in [Workers -> WorkerAt] /\ m_threads \in 0 .. MaxThreads
  BY DEF IInv, TypeOK
<1>2. WantsThread => m_threads + 1 \in Workers
  BY <1>1, Constants DEF WantsThread, Workers
<1>3. destroyer # "destroyed"
  BY DEF IInv, QuitInv, CommitPush
<1>4. WantsThread => worker[m_threads + 1] = "none"
  BY <1>1, <1>2, <1>3, Constants DEF IInv, JoinInv
<1>5. at \in [Workers -> WorkerAt]
  BY <1>1 DEF WorkerAt
<1>6. \A v \in Workers : at[v] = IF WantsThread /\ v = m_threads + 1
                                  THEN "top" ELSE worker[v]
  BY <1>1, <1>2
<1>7. worker' \in NotifyOne(at)
  BY DEF CommitPush
<1> HIDE DEF at
<1>8. CASE Waiting = {}
  <2>1. worker' = at
    BY <1>7, <1>8 DEF NotifyOne
  <2> QED
    BY <1>4, <1>5, <1>6, <1>8, <2>1
<1>9. CASE Waiting # {}
  <2>1. PICK u \in Waiting : worker' = [at EXCEPT ![u] = "lock"]
    BY <1>7, <1>9 DEF NotifyOne
  <2>2. u \in Workers /\ worker[u] = "waiting"
    BY DEF Waiting
  <2>3. worker' \in [Workers -> WorkerAt] /\ worker'[u] = "lock"
    BY <1>5, <2>1, <2>2 DEF WorkerAt
  <2>4. \A v \in Workers : v # u => worker'[v] = at[v]
    BY <1>5, <2>1
  <2> QED
    BY <1>4, <1>6, <2>2, <2>3, <2>4
<1> QED
  BY <1>8, <1>9

LEMMA CounterFacts ==
    ASSUME IInv
    PROVE  /\ IsFiniteSet(Working) /\ IsFiniteSet(Threw)
           /\ Cardinality(Working) \in Nat /\ Cardinality(Threw) \in Nat
           /\ Working # {} => m_atmoic_working_couter >= 1
<1>1. IsFiniteSet(Working) /\ IsFiniteSet(Threw)
  BY Constants, FS_Subset, PoolAssumption DEF Working, Threw
<1>2. Cardinality(Working) \in Nat /\ Cardinality(Threw) \in Nat
  BY <1>1, FS_CardinalityType
<1>3. Working # {} => Cardinality(Working) # 0
  BY <1>1, FS_EmptySet
<1> QED
  BY <1>1, <1>2, <1>3 DEF IInv, CounterExact

(* a step that wakes nobody up, puts nobody to sleep and leaves the deque
   alone loses no wake-up *)
LEMMA NothingLost ==
    ASSUME IInv, Fetching \subseteq Fetching', Waiting' \subseteq Waiting,
           Len(m_threadfuncs') = Len(m_threadfuncs),
           m_atmoic_quit_sign => m_atmoic_quit_sign'
    PROVE  NoLostWakeup'
<1>1. IsFiniteSet(Fetching')
  BY Constants, FS_Subset DEF Fetching
<1>2. Cardinality(Fetching) <= Cardinality(Fetching')
  BY <1>1, FS_Subset
<1>3. IsFiniteSet(Fetching)
  BY <1>1, FS_Subset
<1>4. Cardinality(Fetching) \in Nat /\ Cardinality(Fetching') \in Nat
  BY <1>1, <1>3, FS_CardinalityType
<1>5. Len(m_threadfuncs) \in Nat
  BY DEF IInv, TypeOK
<1> QED
  BY <1>2, <1>4, <1>5 DEF IInv, NoLostWakeup

-------------------------------------------------------------------------------
(* Each part of the invariant is preserved. *)

(* Every step preserves the types. *)
LEMMA TypeStep ==
    ASSUME IInv, [Next]_vars
    PROVE  TypeOK'
<1> USE Constants, PoolAssumption
    DEF IInv, TypeOK, HandsInv, WorkerAt, CallerAt, DestroyerAt, Outcomes,
        queue, atomics, callers, dtor
<1>1. CASE UNCHANGED vars
  BY <1>1 DEF vars
<1>2. ASSUME NEW w \in Workers, WorkerTop(w) PROVE TypeOK'
  BY <1>2 DEF WorkerTop, Goto
<1>3. ASSUME NEW w \in Workers, WorkerLock(w) PROVE TypeOK'
  BY <1>3 DEF WorkerLock, Goto, Acquire
<1>4. ASSUME NEW w \in Workers, WorkerPred(w) PROVE TypeOK'
  BY <1>4 DEF WorkerPred, Goto
<1>5. ASSUME NEW w \in Workers, WorkerBlock(w) PROVE TypeOK'
  BY <1>5 DEF WorkerBlock, Goto, Release
<1>6. ASSUME NEW w \in Workers, SpuriousWakeup(w) PROVE TypeOK'
  BY <1>6 DEF SpuriousWakeup, Goto
<1>7. ASSUME NEW w \in Workers, WorkerBreak(w) PROVE TypeOK'
  BY <1>7 DEF WorkerBreak, Goto, Release
<1>8. ASSUME NEW w \in Workers, WorkerFetch(w) PROVE TypeOK'
  <2>1. m_threadfuncs' \in Seq(Tasks) /\ fn' \in [Workers -> Tasks \cup {NoTask}]
    BY <1>8, FetchEffect
  <2> QED
    BY <1>8, <2>1 DEF WorkerFetch, Goto, Release
<1>9. ASSUME NEW w \in Workers, WorkerInc(w) PROVE TypeOK'
  BY <1>9 DEF WorkerInc, Goto
<1>10. ASSUME NEW w \in Workers, WorkerReturn(w) PROVE TypeOK'
  BY <1>10 DEF WorkerReturn, Goto
<1>11. ASSUME NEW w \in Workers, WorkerThrow(w) PROVE TypeOK'
  BY <1>11 DEF WorkerThrow, Goto, DropFn
<1>12. ASSUME NEW w \in Workers, WorkerDec(w) PROVE TypeOK'
  <2>1. w \in Working
    BY <1>12 DEF WorkerDec, Goto, Working
  <2>2. m_atmoic_working_couter >= 1
    BY <2>1, CounterFacts
  <2> QED
    BY <1>12, <2>2 DEF WorkerDec, Goto, DropFn
<1>13. ASSUME NEW c \in Callers, NEW t \in Tasks, CommitCheck(c, t) PROVE TypeOK'
  BY <1>13 DEF CommitCheck, CallerGoto
<1>14. ASSUME NEW c \in Callers, CommitLock(c) PROVE TypeOK'
  BY <1>14 DEF CommitLock, CallerGoto, CallerReturn
<1>15. ASSUME NEW c \in Callers, CommitPush(c) PROVE TypeOK'
  <2>1. worker' \in [Workers -> WorkerAt] /\ m_threadfuncs' \in Seq(Tasks)
    BY <1>15, PushEffect, PushWorkers
  <2> QED
    BY <1>15, <2>1, Constants DEF CommitPush, CallerReturn, Release, WantsThread
<1>16. ASSUME NEW c \in Callers, CommitSpawnFails(c) PROVE TypeOK'
  BY <1>16 DEF CommitSpawnFails, CallerReturn, Release, WantsThread
<1>17. CASE SetFifoLifo
  BY <1>17 DEF SetFifoLifo
<1>18. CASE QuitStore
  BY <1>18 DEF QuitStore
<1>19. CASE QuitLock
  BY <1>19 DEF QuitLock, Acquire
<1>20. CASE QuitNotify
  BY <1>20 DEF QuitNotify, Release
<1>21. CASE JoinNext
  BY <1>21 DEF JoinNext
<1>22. CASE Destroy
  BY <1>22 DEF Destroy
<1>23. CASE Terminated
  BY <1>23 DEF Terminated, vars
<1> QED
  BY <1>1, <1>2, <1>3, <1>4, <1>5, <1>6, <1>7, <1>8, <1>9, <1>10, <1>11,
     <1>12, <1>13, <1>14, <1>15, <1>16, <1>17, <1>18, <1>19, <1>20, <1>21,
     <1>22, <1>23
     DEF Next, Worker, Finishes, Commit, Dtor

(* The mutex changes hands only from its holder to nobody and from nobody to
   the thread that locks it. *)
LEMMA LockStep ==
    ASSUME IInv, [Next]_vars
    PROVE  LockInv'
<1> USE PoolAssumption DEF IInv, TypeOK, LockInv, WaitInv, queue, atomics, callers, dtor
<1>1. CASE UNCHANGED vars
  BY <1>1 DEF vars
<1>2. ASSUME NEW w \in Workers, WorkerTop(w) PROVE LockInv'
  BY <1>2 DEF WorkerTop, Goto
<1>3. ASSUME NEW w \in Workers, WorkerLock(w) PROVE LockInv'
  BY <1>3 DEF WorkerLock, Goto, Acquire
<1>4. ASSUME NEW w \in Workers, WorkerPred(w) PROVE LockInv'
  BY <1>4 DEF WorkerPred, Goto
<1>5. ASSUME NEW w \in Workers, WorkerBlock(w) PROVE LockInv'
  BY <1>5 DEF WorkerBlock, Goto, Release
<1>6. ASSUME NEW w \in Workers, SpuriousWakeup(w) PROVE LockInv'
  BY <1>6 DEF SpuriousWakeup, Goto
<1>7. ASSUME NEW w \in Workers, WorkerBreak(w) PROVE LockInv'
  BY <1>7 DEF WorkerBreak, Goto, Release
<1>8. ASSUME NEW w \in Workers, WorkerFetch(w) PROVE LockInv'
  BY <1>8 DEF WorkerFetch, Goto, Release
<1>9. ASSUME NEW w \in Workers, WorkerInc(w) PROVE LockInv'
  BY <1>9 DEF WorkerInc, Goto
<1>10. ASSUME NEW w \in Workers, WorkerReturn(w) PROVE LockInv'
  BY <1>10 DEF WorkerReturn, Goto
<1>11. ASSUME NEW w \in Workers, WorkerThrow(w) PROVE LockInv'
  BY <1>11 DEF WorkerThrow, Goto, DropFn
<1>12. ASSUME NEW w \in Workers, WorkerDec(w) PROVE LockInv'
  BY <1>12 DEF WorkerDec, Goto, DropFn
<1>13. ASSUME NEW c \in Callers, NEW t \in Tasks, CommitCheck(c, t) PROVE LockInv'
  BY <1>13 DEF CommitCheck, CallerGoto
<1>14. ASSUME NEW c \in Callers, CommitLock(c) PROVE LockInv'
  BY <1>14 DEF CommitLock, CallerGoto, CallerReturn
<1>15. ASSUME NEW c \in Callers, CommitPush(c) PROVE LockInv'
  BY <1>15, PushWorkers DEF CommitPush, CallerReturn, Release
<1>16. ASSUME NEW c \in Callers, CommitSpawnFails(c) PROVE LockInv'
  BY <1>16 DEF CommitSpawnFails, CallerReturn, Release, WantsThread
<1>17. CASE SetFifoLifo
  BY <1>17 DEF SetFifoLifo
<1>18. CASE QuitStore
  BY <1>18 DEF QuitStore
<1>19. CASE QuitLock
  BY <1>19 DEF QuitLock, Acquire
<1>20. CASE QuitNotify
  BY <1>20 DEF QuitNotify, Release
<1>21. CASE JoinNext
  BY <1>21 DEF JoinNext
<1>22. CASE Destroy
  BY <1>22 DEF Destroy
<1>23. CASE Terminated
  BY <1>23 DEF Terminated, vars
<1> QED
  BY <1>1, <1>2, <1>3, <1>4, <1>5, <1>6, <1>7, <1>8, <1>9, <1>10, <1>11,
     <1>12, <1>13, <1>14, <1>15, <1>16, <1>17, <1>18, <1>19, <1>20, <1>21,
     <1>22, <1>23
     DEF Next, Worker, Finishes, Commit, Dtor

(* A closure is held exactly from the fetch to the end of the iteration, and
   from the call of commit to its return. *)
LEMMA HandsStep ==
    ASSUME IInv, [Next]_vars
    PROVE  HandsInv'
<1> USE PoolAssumption DEF IInv, TypeOK, HandsInv, queue, atomics, callers, dtor
<1>1. CASE UNCHANGED vars
  BY <1>1 DEF vars
<1>2. ASSUME NEW w \in Workers, WorkerTop(w) PROVE HandsInv'
  BY <1>2 DEF WorkerTop, Goto
<1>3. ASSUME NEW w \in Workers, WorkerLock(w) PROVE HandsInv'
  BY <1>3 DEF WorkerLock, Goto, Acquire
<1>4. ASSUME NEW w \in Workers, WorkerPred(w) PROVE HandsInv'
  BY <1>4 DEF WorkerPred, Goto
<1>5. ASSUME NEW w \in Workers, WorkerBlock(w) PROVE HandsInv'
  BY <1>5 DEF WorkerBlock, Goto, Release
<1>6. ASSUME NEW w \in Workers, SpuriousWakeup(w) PROVE HandsInv'
  BY <1>6 DEF SpuriousWakeup, Goto
<1>7. ASSUME NEW w \in Workers, WorkerBreak(w) PROVE HandsInv'
  BY <1>7 DEF WorkerBreak, Goto, Release
<1>8. ASSUME NEW w \in Workers, WorkerFetch(w) PROVE HandsInv'
  <2>1. PICK t \in Tasks :
          /\ t \in Elements(m_threadfuncs)
          /\ fn' = [fn EXCEPT ![w] = t]
          /\ Elements(m_threadfuncs') = Elements(m_threadfuncs) \ {t}
          /\ Distinct(m_threadfuncs')
    BY <1>8, FetchEffect
  <2> QED
    BY <1>8, <2>1 DEF WorkerFetch, Goto
<1>9. ASSUME NEW w \in Workers, WorkerInc(w) PROVE HandsInv'
  BY <1>9 DEF WorkerInc, Goto
<1>10. ASSUME NEW w \in Workers, WorkerReturn(w) PROVE HandsInv'
  BY <1>10 DEF WorkerReturn, Goto
<1>11. ASSUME NEW w \in Workers, WorkerThrow(w) PROVE HandsInv'
  BY <1>11 DEF WorkerThrow, Goto, DropFn
<1>12. ASSUME NEW w \in Workers, WorkerDec(w) PROVE HandsInv'
  BY <1>12 DEF WorkerDec, Goto, DropFn
<1>13. ASSUME NEW c \in Callers, NEW t \in Tasks, CommitCheck(c, t) PROVE HandsInv'
  BY <1>13 DEF CommitCheck, CallerGoto
<1>14. ASSUME NEW c \in Callers, CommitLock(c) PROVE HandsInv'
  BY <1>14 DEF CommitLock, CallerGoto, CallerReturn
<1>15. ASSUME NEW c \in Callers, CommitPush(c) PROVE HandsInv'
  BY <1>15, PushWorkers DEF CommitPush, CallerReturn, Release
<1>16. ASSUME NEW c \in Callers, CommitSpawnFails(c) PROVE HandsInv'
  BY <1>16 DEF CommitSpawnFails, CallerReturn, Release, WantsThread
<1>17. CASE SetFifoLifo
  BY <1>17 DEF SetFifoLifo
<1>18. CASE QuitStore
  BY <1>18 DEF QuitStore
<1>19. CASE QuitLock
  BY <1>19 DEF QuitLock, Acquire
<1>20. CASE QuitNotify
  BY <1>20 DEF QuitNotify, Release
<1>21. CASE JoinNext
  BY <1>21 DEF JoinNext
<1>22. CASE Destroy
  BY <1>22 DEF Destroy
<1>23. CASE Terminated
  BY <1>23 DEF Terminated, vars
<1> QED
  BY <1>1, <1>2, <1>3, <1>4, <1>5, <1>6, <1>7, <1>8, <1>9, <1>10, <1>11,
     <1>12, <1>13, <1>14, <1>15, <1>16, <1>17, <1>18, <1>19, <1>20, <1>21,
     <1>22, <1>23
     DEF Next, Worker, Finishes, Commit, Dtor

(* Nobody changes the deque behind the back of the holder of the mutex, and
   the quit sign is never taken back. *)
LEMMA WaitStep ==
    ASSUME IInv, [Next]_vars
    PROVE  WaitInv'
<1> USE PoolAssumption DEF IInv, TypeOK, LockInv, WaitInv, QuitInv, MayProceed, queue, atomics, callers, dtor
<1>1. CASE UNCHANGED vars
  BY <1>1 DEF vars
<1>2. ASSUME NEW w \in Workers, WorkerTop(w) PROVE WaitInv'
  BY <1>2 DEF WorkerTop, Goto
<1>3. ASSUME NEW w \in Workers, WorkerLock(w) PROVE WaitInv'
  BY <1>3 DEF WorkerLock, Goto, Acquire
<1>4. ASSUME NEW w \in Workers, WorkerPred(w) PROVE WaitInv'
  BY <1>4 DEF WorkerPred, Goto
<1>5. ASSUME NEW w \in Workers, WorkerBlock(w) PROVE WaitInv'
  BY <1>5 DEF WorkerBlock, Goto, Release
<1>6. ASSUME NEW w \in Workers, SpuriousWakeup(w) PROVE WaitInv'
  BY <1>6 DEF SpuriousWakeup, Goto
<1>7. ASSUME NEW w \in Workers, WorkerBreak(w) PROVE WaitInv'
  BY <1>7 DEF WorkerBreak, Goto, Release
<1>8. ASSUME NEW w \in Workers, WorkerFetch(w) PROVE WaitInv'
  BY <1>8 DEF WorkerFetch, Goto, Release
<1>9. ASSUME NEW w \in Workers, WorkerInc(w) PROVE WaitInv'
  BY <1>9 DEF WorkerInc, Goto
<1>10. ASSUME NEW w \in Workers, WorkerReturn(w) PROVE WaitInv'
  BY <1>10 DEF WorkerReturn, Goto
<1>11. ASSUME NEW w \in Workers, WorkerThrow(w) PROVE WaitInv'
  BY <1>11 DEF WorkerThrow, Goto, DropFn
<1>12. ASSUME NEW w \in Workers, WorkerDec(w) PROVE WaitInv'
  BY <1>12 DEF WorkerDec, Goto, DropFn
<1>13. ASSUME NEW c \in Callers, NEW t \in Tasks, CommitCheck(c, t) PROVE WaitInv'
  BY <1>13 DEF CommitCheck, CallerGoto
<1>14. ASSUME NEW c \in Callers, CommitLock(c) PROVE WaitInv'
  BY <1>14 DEF CommitLock, CallerGoto, CallerReturn
<1>15. ASSUME NEW c \in Callers, CommitPush(c) PROVE WaitInv'
  BY <1>15, PushWorkers, PushEffect DEF CommitPush, CallerReturn, Release
<1>16. ASSUME NEW c \in Callers, CommitSpawnFails(c) PROVE WaitInv'
  BY <1>16 DEF CommitSpawnFails, CallerReturn, Release, WantsThread
<1>17. CASE SetFifoLifo
  BY <1>17 DEF SetFifoLifo
<1>18. CASE QuitStore
  BY <1>18 DEF QuitStore
<1>19. CASE QuitLock
  BY <1>19 DEF QuitLock, Acquire
<1>20. CASE QuitNotify
  BY <1>20 DEF QuitNotify, Release
<1>21. CASE JoinNext
  BY <1>21 DEF JoinNext
<1>22. CASE Destroy
  BY <1>22 DEF Destroy
<1>23. CASE Terminated
  BY <1>23 DEF Terminated, vars
<1> QED
  BY <1>1, <1>2, <1>3, <1>4, <1>5, <1>6, <1>7, <1>8, <1>9, <1>10, <1>11,
     <1>12, <1>13, <1>14, <1>15, <1>16, <1>17, <1>18, <1>19, <1>20, <1>21,
     <1>22, <1>23
     DEF Next, Worker, Finishes, Commit, Dtor

(* Once the destructor has had the mutex, no commit gets past its second test. *)
LEMMA QuitStep ==
    ASSUME IInv, [Next]_vars
    PROVE  QuitInv'
<1> USE PoolAssumption DEF IInv, TypeOK, LockInv, QuitInv, queue, atomics, callers, dtor
<1>1. CASE UNCHANGED vars
  BY <1>1 DEF vars
<1>2. ASSUME NEW w \in Workers, WorkerTop(w) PROVE QuitInv'
  BY <1>2 DEF WorkerTop, Goto
<1>3. ASSUME NEW w \in Workers, WorkerLock(w) PROVE QuitInv'
  BY <1>3 DEF WorkerLock, Goto, Acquire
<1>4. ASSUME NEW w \in Workers, WorkerPred(w) PROVE QuitInv'
  BY <1>4 DEF WorkerPred, Goto
<1>5. ASSUME NEW w \in Workers, WorkerBlock(w) PROVE QuitInv'
  BY <1>5 DEF WorkerBlock, Goto, Release
<1>6. ASSUME NEW w \in Workers, SpuriousWakeup(w) PROVE QuitInv'
  BY <1>6 DEF SpuriousWakeup, Goto
<1>7. ASSUME NEW w \in Workers, WorkerBreak(w) PROVE QuitInv'
  BY <1>7 DEF WorkerBreak, Goto, Release
<1>8. ASSUME NEW w \in Workers, WorkerFetch(w) PROVE QuitInv'
  BY <1>8 DEF WorkerFetch, Goto, Release
<1>9. ASSUME NEW w \in Workers, WorkerInc(w) PROVE QuitInv'
  BY <1>9 DEF WorkerInc, Goto
<1>10. ASSUME NEW w \in Workers, WorkerReturn(w) PROVE QuitInv'
  BY <1>10 DEF WorkerReturn, Goto
<1>11. ASSUME NEW w \in Workers, WorkerThrow(w) PROVE QuitInv'
  BY <1>11 DEF WorkerThrow, Goto, DropFn
<1>12. ASSUME NEW w \in Workers, WorkerDec(w) PROVE QuitInv'
  BY <1>12 DEF WorkerDec, Goto, DropFn
<1>13. ASSUME NEW c \in Callers, NEW t \in Tasks, CommitCheck(c, t) PROVE QuitInv'
  BY <1>13 DEF CommitCheck, CallerGoto
<1>14. ASSUME NEW c \in Callers, CommitLock(c) PROVE QuitInv'
  BY <1>14 DEF CommitLock, CallerGoto, CallerReturn
<1>15. ASSUME NEW c \in Callers, CommitPush(c) PROVE QuitInv'
  BY <1>15 DEF CommitPush, CallerReturn, Release, NotifyOne, WantsThread
<1>16. ASSUME NEW c \in Callers, CommitSpawnFails(c) PROVE QuitInv'
  BY <1>16 DEF CommitSpawnFails, CallerReturn, Release, WantsThread
<1>17. CASE SetFifoLifo
  BY <1>17 DEF SetFifoLifo
<1>18. CASE QuitStore
  BY <1>18 DEF QuitStore
<1>19. CASE QuitLock
  BY <1>19 DEF QuitLock, Acquire
<1>20. CASE QuitNotify
  BY <1>20 DEF QuitNotify, Release
<1>21. CASE JoinNext
  BY <1>21 DEF JoinNext
<1>22. CASE Destroy
  BY <1>22 DEF Destroy
<1>23. CASE Terminated
  BY <1>23 DEF Terminated, vars
<1> QED
  BY <1>1, <1>2, <1>3, <1>4, <1>5, <1>6, <1>7, <1>8, <1>9, <1>10, <1>11,
     <1>12, <1>13, <1>14, <1>15, <1>16, <1>17, <1>18, <1>19, <1>20, <1>21,
     <1>22, <1>23
     DEF Next, Worker, Finishes, Commit, Dtor

(* No thread is added while the destructor joins, and a joined thread has ended. *)
LEMMA JoinStep ==
    ASSUME IInv, [Next]_vars
    PROVE  JoinInv'
<1> USE Constants, PoolAssumption
    DEF IInv, TypeOK, JoinInv, QuitInv, Workers, queue, atomics, callers, dtor
<1>1. CASE UNCHANGED vars
  BY <1>1 DEF vars
<1>2. ASSUME NEW w \in Workers, WorkerTop(w) PROVE JoinInv'
  BY <1>2 DEF WorkerTop, Goto
<1>3. ASSUME NEW w \in Workers, WorkerLock(w) PROVE JoinInv'
  BY <1>3 DEF WorkerLock, Goto, Acquire
<1>4. ASSUME NEW w \in Workers, WorkerPred(w) PROVE JoinInv'
  BY <1>4 DEF WorkerPred, Goto
<1>5. ASSUME NEW w \in Workers, WorkerBlock(w) PROVE JoinInv'
  BY <1>5 DEF WorkerBlock, Goto, Release
<1>6. ASSUME NEW w \in Workers, SpuriousWakeup(w) PROVE JoinInv'
  BY <1>6 DEF SpuriousWakeup, Goto
<1>7. ASSUME NEW w \in Workers, WorkerBreak(w) PROVE JoinInv'
  BY <1>7 DEF WorkerBreak, Goto, Release
<1>8. ASSUME NEW w \in Workers, WorkerFetch(w) PROVE JoinInv'
  BY <1>8 DEF WorkerFetch, Goto, Release
<1>9. ASSUME NEW w \in Workers, WorkerInc(w) PROVE JoinInv'
  BY <1>9 DEF WorkerInc, Goto
<1>10. ASSUME NEW w \in Workers, WorkerReturn(w) PROVE JoinInv'
  BY <1>10 DEF WorkerReturn, Goto
<1>11. ASSUME NEW w \in Workers, WorkerThrow(w) PROVE JoinInv'
  BY <1>11 DEF WorkerThrow, Goto, DropFn
<1>12. ASSUME NEW w \in Workers, WorkerDec(w) PROVE JoinInv'
  BY <1>12 DEF WorkerDec, Goto, DropFn
<1>13. ASSUME NEW c \in Callers, NEW t \in Tasks, CommitCheck(c, t) PROVE JoinInv'
  BY <1>13 DEF CommitCheck, CallerGoto
<1>14. ASSUME NEW c \in Callers, CommitLock(c) PROVE JoinInv'
  BY <1>14 DEF CommitLock, CallerGoto, CallerReturn
<1>15. ASSUME NEW c \in Callers, CommitPush(c) PROVE JoinInv'
  <2>1. /\ destroyer \notin {"join", "destroyed"} /\ destroyer' = destroyer
        /\ m_threads \in Nat
        /\ m_threads' = IF WantsThread THEN m_threads + 1 ELSE m_threads
    BY <1>15 DEF CommitPush
  <2>2. \A v \in Workers : worker[v] = "none" <=> v > m_threads
    BY <2>1
  <2>3. ASSUME NEW v \in Workers PROVE worker'[v] = "none" <=> v > m_threads'
    <3>1. \/ worker'[v] = worker[v] /\ ~ (WantsThread /\ v = m_threads + 1)
          \/ worker'[v] = "top" /\ WantsThread /\ v = m_threads + 1
          \/ worker[v] = "waiting" /\ worker'[v] = "lock"
      BY <1>15, PushWorkers
    <3> QED
      BY <2>1, <2>2, <3>1
  <2> QED
    BY <2>1, <2>3
<1>16. ASSUME NEW c \in Callers, CommitSpawnFails(c) PROVE JoinInv'
  BY <1>16 DEF CommitSpawnFails, CallerReturn, Release, WantsThread
<1>17. CASE SetFifoLifo
  BY <1>17 DEF SetFifoLifo
<1>18. CASE QuitStore
  BY <1>18 DEF QuitStore
<1>19. CASE QuitLock
  BY <1>19 DEF QuitLock, Acquire
<1>20. CASE QuitNotify
  BY <1>20 DEF QuitNotify, Release
<1>21. CASE JoinNext
  BY <1>21 DEF JoinNext
<1>22. CASE Destroy
  BY <1>22 DEF Destroy
<1>23. CASE Terminated
  BY <1>23 DEF Terminated, vars
<1> QED
  BY <1>1, <1>2, <1>3, <1>4, <1>5, <1>6, <1>7, <1>8, <1>9, <1>10, <1>11,
     <1>12, <1>13, <1>14, <1>15, <1>16, <1>17, <1>18, <1>19, <1>20, <1>21,
     <1>22, <1>23
     DEF Next, Worker, Finishes, Commit, Dtor

(* A worker that locks the mutex after the notify finds the quit sign set. *)
LEMMA SleeperStep ==
    ASSUME IInv, [Next]_vars
    PROVE  NoSleeperAfterQuit'
<1> USE PoolAssumption
    DEF IInv, TypeOK, LockInv, QuitInv, NoSleeperAfterQuit, MayProceed, queue, atomics, callers, dtor
<1>1. CASE UNCHANGED vars
  BY <1>1 DEF vars
<1>2. ASSUME NEW w \in Workers, WorkerTop(w) PROVE NoSleeperAfterQuit'
  BY <1>2 DEF WorkerTop, Goto
<1>3. ASSUME NEW w \in Workers, WorkerLock(w) PROVE NoSleeperAfterQuit'
  BY <1>3 DEF WorkerLock, Goto, Acquire
<1>4. ASSUME NEW w \in Workers, WorkerPred(w) PROVE NoSleeperAfterQuit'
  BY <1>4 DEF WorkerPred, Goto
<1>5. ASSUME NEW w \in Workers, WorkerBlock(w) PROVE NoSleeperAfterQuit'
  BY <1>5 DEF WorkerBlock, Goto, Release
<1>6. ASSUME NEW w \in Workers, SpuriousWakeup(w) PROVE NoSleeperAfterQuit'
  BY <1>6 DEF SpuriousWakeup, Goto
<1>7. ASSUME NEW w \in Workers, WorkerBreak(w) PROVE NoSleeperAfterQuit'
  BY <1>7 DEF WorkerBreak, Goto, Release
<1>8. ASSUME NEW w \in Workers, WorkerFetch(w) PROVE NoSleeperAfterQuit'
  BY <1>8 DEF WorkerFetch, Goto, Release
<1>9. ASSUME NEW w \in Workers, WorkerInc(w) PROVE NoSleeperAfterQuit'
  BY <1>9 DEF WorkerInc, Goto
<1>10. ASSUME NEW w \in Workers, WorkerReturn(w) PROVE NoSleeperAfterQuit'
  BY <1>10 DEF WorkerReturn, Goto
<1>11. ASSUME NEW w \in Workers, WorkerThrow(w) PROVE NoSleeperAfterQuit'
  BY <1>11 DEF WorkerThrow, Goto, DropFn
<1>12. ASSUME NEW w \in Workers, WorkerDec(w) PROVE NoSleeperAfterQuit'
  BY <1>12 DEF WorkerDec, Goto, DropFn
<1>13. ASSUME NEW c \in Callers, NEW t \in Tasks, CommitCheck(c, t) PROVE NoSleeperAfterQuit'
  BY <1>13 DEF CommitCheck, CallerGoto
<1>14. ASSUME NEW c \in Callers, CommitLock(c) PROVE NoSleeperAfterQuit'
  BY <1>14 DEF CommitLock, CallerGoto, CallerReturn
<1>15. ASSUME NEW c \in Callers, CommitPush(c) PROVE NoSleeperAfterQuit'
  BY <1>15, PushWorkers DEF CommitPush, CallerReturn, Release
<1>16. ASSUME NEW c \in Callers, CommitSpawnFails(c) PROVE NoSleeperAfterQuit'
  BY <1>16 DEF CommitSpawnFails, CallerReturn, Release, WantsThread
<1>17. CASE SetFifoLifo
  BY <1>17 DEF SetFifoLifo
<1>18. CASE QuitStore
  BY <1>18 DEF QuitStore
<1>19. CASE QuitLock
  BY <1>19 DEF QuitLock, Acquire
<1>20. CASE QuitNotify
  BY <1>20 DEF QuitNotify, Release
<1>21. CASE JoinNext
  BY <1>21 DEF JoinNext
<1>22. CASE Destroy
  BY <1>22 DEF Destroy
<1>23. CASE Terminated
  BY <1>23 DEF Terminated, vars
<1> QED
  BY <1>1, <1>2, <1>3, <1>4, <1>5, <1>6, <1>7, <1>8, <1>9, <1>10, <1>11,
     <1>12, <1>13, <1>14, <1>15, <1>16, <1>17, <1>18, <1>19, <1>20, <1>21,
     <1>22, <1>23
     DEF Next, Worker, Finishes, Commit, Dtor

(* The destructor has joined every thread there is. *)
LEMMA OutliveStep ==
    ASSUME IInv, [Next]_vars
    PROVE  NoWorkerOutlivesPool'
<1> USE Constants, PoolAssumption
    DEF IInv, TypeOK, JoinInv, QuitInv, NoWorkerOutlivesPool, Workers, queue, atomics, callers, dtor
<1>1. CASE UNCHANGED vars
  BY <1>1 DEF vars
<1>2. ASSUME NEW w \in Workers, WorkerTop(w) PROVE NoWorkerOutlivesPool'
  BY <1>2 DEF WorkerTop, Goto
<1>3. ASSUME NEW w \in Workers, WorkerLock(w) PROVE NoWorkerOutlivesPool'
  BY <1>3 DEF WorkerLock, Goto, Acquire
<1>4. ASSUME NEW w \in Workers, WorkerPred(w) PROVE NoWorkerOutlivesPool'
  BY <1>4 DEF WorkerPred, Goto
<1>5. ASSUME NEW w \in Workers, WorkerBlock(w) PROVE NoWorkerOutlivesPool'
  BY <1>5 DEF WorkerBlock, Goto, Release
<1>6. ASSUME NEW w \in Workers, SpuriousWakeup(w) PROVE NoWorkerOutlivesPool'
  BY <1>6 DEF SpuriousWakeup, Goto
<1>7. ASSUME NEW w \in Workers, WorkerBreak(w) PROVE NoWorkerOutlivesPool'
  BY <1>7 DEF WorkerBreak, Goto, Release
<1>8. ASSUME NEW w \in Workers, WorkerFetch(w) PROVE NoWorkerOutlivesPool'
  BY <1>8 DEF WorkerFetch, Goto, Release
<1>9. ASSUME NEW w \in Workers, WorkerInc(w) PROVE NoWorkerOutlivesPool'
  BY <1>9 DEF WorkerInc, Goto
<1>10. ASSUME NEW w \in Workers, WorkerReturn(w) PROVE NoWorkerOutlivesPool'
  BY <1>10 DEF WorkerReturn, Goto
<1>11. ASSUME NEW w \in Workers, WorkerThrow(w) PROVE NoWorkerOutlivesPool'
  BY <1>11 DEF WorkerThrow, Goto, DropFn
<1>12. ASSUME NEW w \in Workers, WorkerDec(w) PROVE NoWorkerOutlivesPool'
  BY <1>12 DEF WorkerDec, Goto, DropFn
<1>13. ASSUME NEW c \in Callers, NEW t \in Tasks, CommitCheck(c, t) PROVE NoWorkerOutlivesPool'
  BY <1>13 DEF CommitCheck, CallerGoto
<1>14. ASSUME NEW c \in Callers, CommitLock(c) PROVE NoWorkerOutlivesPool'
  BY <1>14 DEF CommitLock, CallerGoto, CallerReturn
<1>15. ASSUME NEW c \in Callers, CommitPush(c) PROVE NoWorkerOutlivesPool'
  BY <1>15, PushWorkers DEF CommitPush, CallerReturn, Release
<1>16. ASSUME NEW c \in Callers, CommitSpawnFails(c) PROVE NoWorkerOutlivesPool'
  BY <1>16 DEF CommitSpawnFails, CallerReturn, Release, WantsThread
<1>17. CASE SetFifoLifo
  BY <1>17 DEF SetFifoLifo
<1>18. CASE QuitStore
  BY <1>18 DEF QuitStore
<1>19. CASE QuitLock
  BY <1>19 DEF QuitLock, Acquire
<1>20. CASE QuitNotify
  BY <1>20 DEF QuitNotify, Release
<1>21. CASE JoinNext
  BY <1>21 DEF JoinNext
<1>22. CASE Destroy
  BY <1>22 DEF Destroy
<1>23. CASE Terminated
  BY <1>23 DEF Terminated, vars
<1> QED
  BY <1>1, <1>2, <1>3, <1>4, <1>5, <1>6, <1>7, <1>8, <1>9, <1>10, <1>11,
     <1>12, <1>13, <1>14, <1>15, <1>16, <1>17, <1>18, <1>19, <1>20, <1>21,
     <1>22, <1>23
     DEF Next, Worker, Finishes, Commit, Dtor

(* A closure moves from one place to the next. *)
LEMMA OnePlaceStep ==
    ASSUME IInv, [Next]_vars
    PROVE  OnePlace'
<1> USE PoolAssumption
    DEF IInv, TypeOK, HandsInv, LockInv, OnePlace, InHand, Pending, Taken, Settled, queue, atomics, callers, dtor
<1>1. CASE UNCHANGED vars
  BY <1>1 DEF vars
<1>2. ASSUME NEW w \in Workers, WorkerTop(w) PROVE OnePlace'
  BY <1>2 DEF WorkerTop, Goto
<1>3. ASSUME NEW w \in Workers, WorkerLock(w) PROVE OnePlace'
  BY <1>3 DEF WorkerLock, Goto, Acquire
<1>4. ASSUME NEW w \in Workers, WorkerPred(w) PROVE OnePlace'
  BY <1>4 DEF WorkerPred, Goto
<1>5. ASSUME NEW w \in Workers, WorkerBlock(w) PROVE OnePlace'
  BY <1>5 DEF WorkerBlock, Goto, Release
<1>6. ASSUME NEW w \in Workers, SpuriousWakeup(w) PROVE OnePlace'
  BY <1>6 DEF SpuriousWakeup, Goto
<1>7. ASSUME NEW w \in Workers, WorkerBreak(w) PROVE OnePlace'
  BY <1>7 DEF WorkerBreak, Goto, Release
<1>8. ASSUME NEW w \in Workers, WorkerFetch(w) PROVE OnePlace'
  <2>1. PICK t \in Tasks :
          /\ t \in Elements(m_threadfuncs)
          /\ fn' = [fn EXCEPT ![w] = t]
          /\ Elements(m_threadfuncs') = Elements(m_threadfuncs) \ {t}
          /\ Distinct(m_threadfuncs')
    BY <1>8, FetchEffect
  <2>2. fn[w] = NoTask
    BY <1>8 DEF WorkerFetch, Goto
  <2> QED
    BY <1>8, <2>1, <2>2 DEF WorkerFetch
<1>9. ASSUME NEW w \in Workers, WorkerInc(w) PROVE OnePlace'
  BY <1>9 DEF WorkerInc, Goto
<1>10. ASSUME NEW w \in Workers, WorkerReturn(w) PROVE OnePlace'
  BY <1>10 DEF WorkerReturn, Goto
<1>11. ASSUME NEW w \in Workers, WorkerThrow(w) PROVE OnePlace'
  BY <1>11 DEF WorkerThrow, Goto, DropFn
<1>12. ASSUME NEW w \in Workers, WorkerDec(w) PROVE OnePlace'
  BY <1>12 DEF WorkerDec, Goto, DropFn
<1>13. ASSUME NEW c \in Callers, NEW t \in Tasks, CommitCheck(c, t) PROVE OnePlace'
  <2>1. CASE m_atmoic_quit_sign
    BY <1>13, <2>1 DEF CommitCheck, Unused
  <2>2. CASE ~ m_atmoic_quit_sign
    BY <1>13, <2>2 DEF CommitCheck, CallerGoto, Unused
  <2> QED
    BY <2>1, <2>2
<1>14. ASSUME NEW c \in Callers, CommitLock(c) PROVE OnePlace'
  BY <1>14 DEF CommitLock, CallerGoto, CallerReturn
<1>15. ASSUME NEW c \in Callers, CommitPush(c) PROVE OnePlace'
  <2>1. arg[c] \in Tasks /\ Elements(m_threadfuncs') = Elements(m_threadfuncs) \cup {arg[c]}
    BY <1>15, PushEffect
  <2>2. Distinct(m_threadfuncs')
    BY <1>15, PushEffect
  <2> QED
    BY <1>15, <2>1, <2>2 DEF CommitPush, CallerReturn
<1>16. ASSUME NEW c \in Callers, CommitSpawnFails(c) PROVE OnePlace'
  BY <1>16 DEF CommitSpawnFails, CallerReturn, Release, WantsThread
<1>17. CASE SetFifoLifo
  BY <1>17 DEF SetFifoLifo
<1>18. CASE QuitStore
  BY <1>18 DEF QuitStore
<1>19. CASE QuitLock
  BY <1>19 DEF QuitLock, Acquire
<1>20. CASE QuitNotify
  BY <1>20 DEF QuitNotify, Release
<1>21. CASE JoinNext
  BY <1>21 DEF JoinNext
<1>22. CASE Destroy
  <2>1. Elements(m_threadfuncs') = {} /\ Distinct(m_threadfuncs')
    BY <1>22 DEF Destroy, Elements, Distinct
  <2>2. \A t \in Tasks : outcome'[t] = IF Pending(t) THEN "dropped" ELSE outcome[t]
    BY <1>22 DEF Destroy
  <2>3. fn' = fn /\ arg' = arg
    BY <1>22 DEF Destroy
  <2> QED
    BY <2>1, <2>2, <2>3
<1>23. CASE Terminated
  BY <1>23 DEF Terminated, vars
<1> QED
  BY <1>1, <1>2, <1>3, <1>4, <1>5, <1>6, <1>7, <1>8, <1>9, <1>10, <1>11,
     <1>12, <1>13, <1>14, <1>15, <1>16, <1>17, <1>18, <1>19, <1>20, <1>21,
     <1>22, <1>23
     DEF Next, Worker, Finishes, Commit, Dtor

(* The counter moves with the set of workers that run a closure, except for a
   closure that throws. *)
LEMMA CounterStep ==
    ASSUME IInv, [Next]_vars
    PROVE  CounterExact'
<1> USE PoolAssumption DEF IInv, TypeOK, CounterExact, queue, atomics, callers, dtor
<1>1. CASE UNCHANGED vars
  <2>1. Working' = Working /\ Threw' = Threw
    BY <1>1 DEF vars, Working, Threw
  <2> QED
    BY <1>1, <2>1 DEF vars
<1>2. ASSUME NEW w \in Workers, WorkerTop(w) PROVE CounterExact'
  <2>1. Working' = Working /\ Threw' = Threw
    BY <1>2 DEF WorkerTop, Goto, Working, Threw
  <2> QED
    BY <1>2, <2>1 DEF WorkerTop, Goto
<1>3. ASSUME NEW w \in Workers, WorkerLock(w) PROVE CounterExact'
  <2>1. Working' = Working /\ Threw' = Threw
    BY <1>3 DEF WorkerLock, Goto, Acquire, Working, Threw
  <2> QED
    BY <1>3, <2>1 DEF WorkerLock, Goto, Acquire
<1>4. ASSUME NEW w \in Workers, WorkerPred(w) PROVE CounterExact'
  <2>1. Working' = Working /\ Threw' = Threw
    BY <1>4 DEF WorkerPred, Goto, Working, Threw
  <2> QED
    BY <1>4, <2>1 DEF WorkerPred, Goto
<1>5. ASSUME NEW w \in Workers, WorkerBlock(w) PROVE CounterExact'
  <2>1. Working' = Working /\ Threw' = Threw
    BY <1>5 DEF WorkerBlock, Goto, Release, Working, Threw
  <2> QED
    BY <1>5, <2>1 DEF WorkerBlock, Goto, Release
<1>6. ASSUME NEW w \in Workers, SpuriousWakeup(w) PROVE CounterExact'
  <2>1. Working' = Working /\ Threw' = Threw
    BY <1>6 DEF SpuriousWakeup, Goto, Working, Threw
  <2> QED
    BY <1>6, <2>1 DEF SpuriousWakeup, Goto
<1>7. ASSUME NEW w \in Workers, WorkerBreak(w) PROVE CounterExact'
  <2>1. Working' = Working /\ Threw' = Threw
    BY <1>7 DEF WorkerBreak, Goto, Release, Working, Threw
  <2> QED
    BY <1>7, <2>1 DEF WorkerBreak, Goto, Release
<1>8. ASSUME NEW w \in Workers, WorkerFetch(w) PROVE CounterExact'
  <2>1. Working' = Working /\ Threw' = Threw
    BY <1>8 DEF WorkerFetch, Goto, Release, Working, Threw
  <2> QED
    BY <1>8, <2>1 DEF WorkerFetch, Goto, Release
<1>9. ASSUME NEW w \in Workers, WorkerInc(w) PROVE CounterExact'
  <2>1. Working' = Working \cup {w} /\ w \notin Working /\ Threw' = Threw
    BY <1>9 DEF WorkerInc, Goto, Working, Threw
  <2>2. Cardinality(Working') = Cardinality(Working) + 1
    BY <2>1, CounterFacts, FS_AddElement
  <2> QED
    BY <1>9, <2>1, <2>2, CounterFacts DEF WorkerInc
<1>10. ASSUME NEW w \in Workers, WorkerReturn(w) PROVE CounterExact'
  <2>1. Working' = Working /\ Threw' = Threw
    BY <1>10 DEF WorkerReturn, Goto, Working, Threw
  <2> QED
    BY <1>10, <2>1 DEF WorkerReturn, Goto
<1>11. ASSUME NEW w \in Workers, WorkerThrow(w) PROVE CounterExact'
  <2>1. fn[w] \in Tasks /\ fn[w] \notin Threw
    BY <1>11 DEF WorkerThrow, OnePlace, Taken, Settled, Threw
  <2>2. Working' = Working \ {w} /\ w \in Working /\ Threw' = Threw \cup {fn[w]}
    BY <1>11, <2>1 DEF WorkerThrow, DropFn, Goto, Working, Threw
  <2>3. Cardinality(Working') = Cardinality(Working) - 1
    BY <2>2, CounterFacts, FS_RemoveElement
  <2>4. Cardinality(Threw') = Cardinality(Threw) + 1
    BY <2>1, <2>2, CounterFacts, FS_AddElement
  <2> QED
    BY <1>11, <2>3, <2>4, CounterFacts DEF WorkerThrow
<1>12. ASSUME NEW w \in Workers, WorkerDec(w) PROVE CounterExact'
  <2>1. fn[w] \in Tasks => fn[w] \notin Threw
    BY <1>12 DEF WorkerDec, OnePlace, Taken, Settled, Threw
  <2>2. Working' = Working \ {w} /\ w \in Working /\ Threw' = Threw
    BY <1>12, <2>1 DEF WorkerDec, DropFn, Goto, Working, Threw
  <2>3. Cardinality(Working') = Cardinality(Working) - 1
    BY <2>2, CounterFacts, FS_RemoveElement
  <2> QED
    BY <1>12, <2>2, <2>3, CounterFacts DEF WorkerDec
<1>13. ASSUME NEW c \in Callers, NEW t \in Tasks, CommitCheck(c, t) PROVE CounterExact'
  <2>1. Working' = Working /\ Threw' = Threw
    BY <1>13 DEF CommitCheck, CallerGoto, Unused, Settled, Working, Threw
  <2> QED
    BY <1>13, <2>1 DEF CommitCheck, CallerGoto, Unused, Settled
<1>14. ASSUME NEW c \in Callers, CommitLock(c) PROVE CounterExact'
  <2>1. arg[c] \in Tasks /\ outcome[arg[c]] = "none"
    BY <1>14 DEF CommitLock, HandsInv, OnePlace, InHand, Settled
  <2>2. Threw' = Threw /\ Working' = Working
    BY <1>14, <2>1 DEF CommitLock, Threw, Working
  <2> QED
    BY <1>14, <2>2 DEF CommitLock
<1>15. ASSUME NEW c \in Callers, CommitPush(c) PROVE CounterExact'
  <2>1. Working' = Working
    BY <1>15, PushWorkers DEF Working
  <2> QED
    BY <1>15, <2>1 DEF CommitPush, Threw
<1>16. ASSUME NEW c \in Callers, CommitSpawnFails(c) PROVE CounterExact'
  <2>1. arg[c] \in Tasks /\ outcome[arg[c]] = "none"
    BY <1>16 DEF CommitSpawnFails, HandsInv, OnePlace, InHand, Settled
  <2>2. Threw' = Threw /\ Working' = Working
    BY <1>16, <2>1 DEF CommitSpawnFails, Threw, Working
  <2> QED
    BY <1>16, <2>2 DEF CommitSpawnFails
<1>17. CASE SetFifoLifo
  <2>1. Working' = Working /\ Threw' = Threw
    BY <1>17 DEF SetFifoLifo, Working, Threw
  <2> QED
    BY <1>17, <2>1 DEF SetFifoLifo
<1>18. CASE QuitStore
  <2>1. Working' = Working /\ Threw' = Threw
    BY <1>18 DEF QuitStore, Working, Threw
  <2> QED
    BY <1>18, <2>1 DEF QuitStore
<1>19. CASE QuitLock
  <2>1. Working' = Working /\ Threw' = Threw
    BY <1>19 DEF QuitLock, Acquire, Working, Threw
  <2> QED
    BY <1>19, <2>1 DEF QuitLock, Acquire
<1>20. CASE QuitNotify
  <2>1. Working' = Working /\ Threw' = Threw
    BY <1>20 DEF QuitNotify, Release, Working, Threw
  <2> QED
    BY <1>20, <2>1 DEF QuitNotify, Release
<1>21. CASE JoinNext
  <2>1. Working' = Working /\ Threw' = Threw
    BY <1>21 DEF JoinNext, Working, Threw
  <2> QED
    BY <1>21, <2>1 DEF JoinNext
<1>22. CASE Destroy
  <2>1. Working' = Working /\ Threw' = Threw
    BY <1>22 DEF Destroy, OnePlace, Settled, Working, Threw
  <2> QED
    BY <1>22, <2>1 DEF Destroy, OnePlace, Settled
<1>23. CASE Terminated
  <2>1. Working' = Working /\ Threw' = Threw
    BY <1>23 DEF Terminated, vars, Working, Threw
  <2> QED
    BY <1>23, <2>1 DEF Terminated, vars
<1> QED
  BY <1>1, <1>2, <1>3, <1>4, <1>5, <1>6, <1>7, <1>8, <1>9, <1>10, <1>11,
     <1>12, <1>13, <1>14, <1>15, <1>16, <1>17, <1>18, <1>19, <1>20, <1>21,
     <1>22, <1>23
     DEF Next, Worker, Finishes, Commit, Dtor

(* A closure that is queued while a worker sleeps wakes one up, and a worker
   goes to sleep only when the deque is empty. *)
LEMMA WakeupStep ==
    ASSUME IInv, [Next]_vars
    PROVE  NoLostWakeup'
<1> USE PoolAssumption DEF IInv, TypeOK, queue, atomics, callers, dtor
<1>1. CASE UNCHANGED vars
  <2>1. Fetching \subseteq Fetching' /\ Waiting' \subseteq Waiting
    BY <1>1 DEF vars, Fetching, Waiting
  <2> QED
    BY <1>1, <2>1, NothingLost DEF vars
<1>2. ASSUME NEW w \in Workers, WorkerTop(w) PROVE NoLostWakeup'
  <2>1. CASE m_atmoic_quit_sign
    BY <1>2, <2>1 DEF WorkerTop, NoLostWakeup
  <2>2. CASE ~ m_atmoic_quit_sign
    <3>1. Fetching \subseteq Fetching' /\ Waiting' \subseteq Waiting
      BY <1>2, <2>2 DEF WorkerTop, Goto, Fetching, Waiting
    <3> QED
      BY <1>2, <3>1, NothingLost DEF WorkerTop
  <2> QED
    BY <2>1, <2>2
<1>3. ASSUME NEW w \in Workers, WorkerLock(w) PROVE NoLostWakeup'
  <2>1. Fetching \subseteq Fetching' /\ Waiting' \subseteq Waiting
    BY <1>3 DEF WorkerLock, Goto, Acquire, Fetching, Waiting
  <2> QED
    BY <1>3, <2>1, NothingLost DEF WorkerLock, Goto, Acquire
<1>4. ASSUME NEW w \in Workers, WorkerPred(w) PROVE NoLostWakeup'
  <2>1. Fetching \subseteq Fetching' /\ Waiting' \subseteq Waiting
    BY <1>4 DEF WorkerPred, Goto, Fetching, Waiting
  <2> QED
    BY <1>4, <2>1, NothingLost DEF WorkerPred, Goto
<1>5. ASSUME NEW w \in Workers, WorkerBlock(w) PROVE NoLostWakeup'
  <2>1. m_threadfuncs' = <<>>
    BY <1>5 DEF WorkerBlock, Goto, WaitInv
  <2>2. IsFiniteSet(Fetching')
    BY Constants, FS_Subset DEF Fetching
  <2>3. Cardinality(Fetching') \in Nat
    BY <2>2, FS_CardinalityType
  <2> QED
    BY <2>1, <2>3 DEF NoLostWakeup
<1>6. ASSUME NEW w \in Workers, SpuriousWakeup(w) PROVE NoLostWakeup'
  <2>1. Fetching \subseteq Fetching' /\ Waiting' \subseteq Waiting
    BY <1>6 DEF SpuriousWakeup, Goto, Fetching, Waiting
  <2> QED
    BY <1>6, <2>1, NothingLost DEF SpuriousWakeup, Goto
<1>7. ASSUME NEW w \in Workers, WorkerBreak(w) PROVE NoLostWakeup'
  BY <1>7 DEF WorkerBreak, NoLostWakeup
<1>8. ASSUME NEW w \in Workers, WorkerFetch(w) PROVE NoLostWakeup'
  <2>1. Fetching' = Fetching \ {w} /\ w \in Fetching /\ Waiting' = Waiting
    BY <1>8 DEF WorkerFetch, Goto, Fetching, Waiting
  <2>2. IsFiniteSet(Fetching)
    BY Constants, FS_Subset DEF Fetching
  <2>3. Cardinality(Fetching') = Cardinality(Fetching) - 1
    BY <2>1, <2>2, FS_RemoveElement
  <2>4. Len(m_threadfuncs') = Len(m_threadfuncs) - 1
    BY <1>8, FetchEffect
  <2>5. Cardinality(Fetching) \in Nat /\ Len(m_threadfuncs) \in Nat
    BY <2>2, FS_CardinalityType
  <2> QED
    BY <1>8, <2>1, <2>3, <2>4, <2>5 DEF WorkerFetch, NoLostWakeup
<1>9. ASSUME NEW w \in Workers, WorkerInc(w) PROVE NoLostWakeup'
  <2>1. Fetching \subseteq Fetching' /\ Waiting' \subseteq Waiting
    BY <1>9 DEF WorkerInc, Goto, Fetching, Waiting
  <2> QED
    BY <1>9, <2>1, NothingLost DEF WorkerInc, Goto
<1>10. ASSUME NEW w \in Workers, WorkerReturn(w) PROVE NoLostWakeup'
  <2>1. Fetching \subseteq Fetching' /\ Waiting' \subseteq Waiting
    BY <1>10 DEF WorkerReturn, Goto, Fetching, Waiting
  <2> QED
    BY <1>10, <2>1, NothingLost DEF WorkerReturn, Goto
<1>11. ASSUME NEW w \in Workers, WorkerThrow(w) PROVE NoLostWakeup'
  <2>1. Fetching \subseteq Fetching' /\ Waiting' \subseteq Waiting
    BY <1>11 DEF WorkerThrow, Goto, DropFn, Fetching, Waiting
  <2> QED
    BY <1>11, <2>1, NothingLost DEF WorkerThrow, Goto, DropFn
<1>12. ASSUME NEW w \in Workers, WorkerDec(w) PROVE NoLostWakeup'
  <2>1. Fetching \subseteq Fetching' /\ Waiting' \subseteq Waiting
    BY <1>12 DEF WorkerDec, Goto, DropFn, Fetching, Waiting
  <2> QED
    BY <1>12, <2>1, NothingLost DEF WorkerDec, Goto, DropFn
<1>13. ASSUME NEW c \in Callers, NEW t \in Tasks, CommitCheck(c, t) PROVE NoLostWakeup'
  <2>1. Fetching \subseteq Fetching' /\ Waiting' \subseteq Waiting
    BY <1>13 DEF CommitCheck, CallerGoto, Fetching, Waiting
  <2> QED
    BY <1>13, <2>1, NothingLost DEF CommitCheck, CallerGoto
<1>14. ASSUME NEW c \in Callers, CommitLock(c) PROVE NoLostWakeup'
  <2>1. Fetching \subseteq Fetching' /\ Waiting' \subseteq Waiting
    BY <1>14 DEF CommitLock, CallerGoto, CallerReturn, Fetching, Waiting
  <2> QED
    BY <1>14, <2>1, NothingLost DEF CommitLock, CallerGoto, CallerReturn
<1>15. ASSUME NEW c \in Callers, CommitPush(c) PROVE NoLostWakeup'
  <2>1. Waiting' \subseteq Waiting /\ Fetching \subseteq Fetching'
    BY <1>15, PushWorkers DEF Waiting, Fetching
  <2>2. IsFiniteSet(Fetching) /\ IsFiniteSet(Fetching')
    BY Constants, FS_Subset DEF Fetching
  <2>3. CASE Waiting = {}
    BY <2>1, <2>3 DEF NoLostWakeup
  <2>4. CASE Waiting # {}
    <3>1. PICK v \in Waiting : worker'[v] = "lock"
      BY <1>15, <2>4, PushWorkers
    <3>2. v \notin Fetching /\ Fetching \cup {v} \subseteq Fetching'
      BY <2>1, <3>1 DEF Waiting, Fetching
    <3>3. Cardinality(Fetching \cup {v}) = Cardinality(Fetching) + 1
      BY <2>2, <3>2, FS_AddElement
    <3>4. Cardinality(Fetching \cup {v}) <= Cardinality(Fetching')
      BY <2>2, <3>2, FS_Subset
    <3>5. /\ Cardinality(Fetching) \in Nat /\ Cardinality(Fetching') \in Nat
          /\ Len(m_threadfuncs) \in Nat
      BY <2>2, FS_CardinalityType
    <3>6. Len(m_threadfuncs') = Len(m_threadfuncs) + 1
      BY <1>15, PushEffect
    <3>7. m_atmoic_quit_sign' = m_atmoic_quit_sign
      BY <1>15 DEF CommitPush
    <3> QED
      BY <2>4, <3>3, <3>4, <3>5, <3>6, <3>7 DEF NoLostWakeup
  <2> QED
    BY <2>3, <2>4
<1>16. ASSUME NEW c \in Callers, CommitSpawnFails(c) PROVE NoLostWakeup'
  <2>1. Fetching \subseteq Fetching' /\ Waiting' \subseteq Waiting
    BY <1>16 DEF CommitSpawnFails, CallerReturn, Release, WantsThread, Fetching, Waiting
  <2> QED
    BY <1>16, <2>1, NothingLost DEF CommitSpawnFails, CallerReturn, Release, WantsThread
<1>17. CASE SetFifoLifo
  <2>1. Fetching \subseteq Fetching' /\ Waiting' \subseteq Waiting
    BY <1>17 DEF SetFifoLifo, Fetching, Waiting
  <2> QED
    BY <1>17, <2>1, NothingLost DEF SetFifoLifo
<1>18. CASE QuitStore
  BY <1>18 DEF QuitStore, NoLostWakeup
<1>19. CASE QuitLock
  <2>1. Fetching \subseteq Fetching' /\ Waiting' \subseteq Waiting
    BY <1>19 DEF QuitLock, Acquire, Fetching, Waiting
  <2> QED
    BY <1>19, <2>1, NothingLost DEF QuitLock, Acquire
<1>20. CASE QuitNotify
  BY <1>20 DEF QuitNotify, QuitInv, NoLostWakeup
<1>21. CASE JoinNext
  <2>1. Fetching \subseteq Fetching' /\ Waiting' \subseteq Waiting
    BY <1>21 DEF JoinNext, Fetching, Waiting
  <2> QED
    BY <1>21, <2>1, NothingLost DEF JoinNext
<1>22. CASE Destroy
  BY <1>22 DEF Destroy, QuitInv, NoLostWakeup
<1>23. CASE Terminated
  <2>1. Fetching \subseteq Fetching' /\ Waiting' \subseteq Waiting
    BY <1>23 DEF Terminated, vars, Fetching, Waiting
  <2> QED
    BY <1>23, <2>1, NothingLost DEF Terminated, vars
<1> QED
  BY <1>1, <1>2, <1>3, <1>4, <1>5, <1>6, <1>7, <1>8, <1>9, <1>10, <1>11,
     <1>12, <1>13, <1>14, <1>15, <1>16, <1>17, <1>18, <1>19, <1>20, <1>21,
     <1>22, <1>23
     DEF Next, Worker, Finishes, Commit, Dtor

-------------------------------------------------------------------------------
(* The refinement of TaskExecutor. *)

LEMMA Stutters ==
    ASSUME \A t \in Tasks : Pending(t)' <=> Pending(t),
           \A t \in Tasks : (Taken(t)' <=> Taken(t)) /\ outcome'[t] = outcome[t],
           ExecutorOpen' = ExecutorOpen
    PROVE  UNCHANGED Executor!vars
<1>1. \A t \in Tasks : ExecutorStatus(t)' = ExecutorStatus(t)
  BY DEF ExecutorStatus
<1> QED
  BY <1>1 DEF Executor!vars

LEMMA Moves ==
    ASSUME NEW t \in Tasks, NEW from, NEW to,
           ExecutorStatus(t) = from, ExecutorStatus(t)' = to,
           \A u \in Tasks : u # t => ExecutorStatus(u)' = ExecutorStatus(u),
           ExecutorOpen' = ExecutorOpen
    PROVE  Executor!Move(t, from, to)
BY DEF Executor!Move

(* Every step of the pool is a step of the executor, or none. *)
LEMMA ExecutorStep ==
    ASSUME IInv, [Next]_vars
    PROVE  [Executor!Next]_(Executor!vars)
<1> USE PoolAssumption DEF IInv, TypeOK, queue, atomics, callers, dtor
<1>1. CASE UNCHANGED vars
  <2>1. \A u \in Tasks : Pending(u)' <=> Pending(u)
    BY <1>1 DEF vars, Pending
  <2>2. \A u \in Tasks : (Taken(u)' <=> Taken(u)) /\ outcome'[u] = outcome[u]
    BY <1>1 DEF vars, Taken
  <2>3. ExecutorOpen' = ExecutorOpen
    BY <1>1 DEF vars, ExecutorOpen
  <2> QED
    BY <2>1, <2>2, <2>3, Stutters
<1>2. ASSUME NEW w \in Workers, WorkerTop(w) PROVE [Executor!Next]_(Executor!vars)
  <2>1. \A u \in Tasks : Pending(u)' <=> Pending(u)
    BY <1>2 DEF WorkerTop, Goto, Pending
  <2>2. \A u \in Tasks : (Taken(u)' <=> Taken(u)) /\ outcome'[u] = outcome[u]
    BY <1>2 DEF WorkerTop, Goto, Taken
  <2>3. ExecutorOpen' = ExecutorOpen
    BY <1>2 DEF WorkerTop, Goto, ExecutorOpen
  <2> QED
    BY <2>1, <2>2, <2>3, Stutters
<1>3. ASSUME NEW w \in Workers, WorkerLock(w) PROVE [Executor!Next]_(Executor!vars)
  <2>1. \A u \in Tasks : Pending(u)' <=> Pending(u)
    BY <1>3 DEF WorkerLock, Goto, Acquire, Pending
  <2>2. \A u \in Tasks : (Taken(u)' <=> Taken(u)) /\ outcome'[u] = outcome[u]
    BY <1>3 DEF WorkerLock, Goto, Acquire, Taken
  <2>3. ExecutorOpen' = ExecutorOpen
    BY <1>3 DEF WorkerLock, Goto, Acquire, ExecutorOpen
  <2> QED
    BY <2>1, <2>2, <2>3, Stutters
<1>4. ASSUME NEW w \in Workers, WorkerPred(w) PROVE [Executor!Next]_(Executor!vars)
  <2>1. \A u \in Tasks : Pending(u)' <=> Pending(u)
    BY <1>4 DEF WorkerPred, Goto, Pending
  <2>2. \A u \in Tasks : (Taken(u)' <=> Taken(u)) /\ outcome'[u] = outcome[u]
    BY <1>4 DEF WorkerPred, Goto, Taken
  <2>3. ExecutorOpen' = ExecutorOpen
    BY <1>4 DEF WorkerPred, Goto, ExecutorOpen
  <2> QED
    BY <2>1, <2>2, <2>3, Stutters
<1>5. ASSUME NEW w \in Workers, WorkerBlock(w) PROVE [Executor!Next]_(Executor!vars)
  <2>1. \A u \in Tasks : Pending(u)' <=> Pending(u)
    BY <1>5 DEF WorkerBlock, Goto, Release, Pending
  <2>2. \A u \in Tasks : (Taken(u)' <=> Taken(u)) /\ outcome'[u] = outcome[u]
    BY <1>5 DEF WorkerBlock, Goto, Release, Taken
  <2>3. ExecutorOpen' = ExecutorOpen
    BY <1>5 DEF WorkerBlock, Goto, Release, ExecutorOpen
  <2> QED
    BY <2>1, <2>2, <2>3, Stutters
<1>6. ASSUME NEW w \in Workers, SpuriousWakeup(w) PROVE [Executor!Next]_(Executor!vars)
  <2>1. \A u \in Tasks : Pending(u)' <=> Pending(u)
    BY <1>6 DEF SpuriousWakeup, Goto, Pending
  <2>2. \A u \in Tasks : (Taken(u)' <=> Taken(u)) /\ outcome'[u] = outcome[u]
    BY <1>6 DEF SpuriousWakeup, Goto, Taken
  <2>3. ExecutorOpen' = ExecutorOpen
    BY <1>6 DEF SpuriousWakeup, Goto, ExecutorOpen
  <2> QED
    BY <2>1, <2>2, <2>3, Stutters
<1>7. ASSUME NEW w \in Workers, WorkerBreak(w) PROVE [Executor!Next]_(Executor!vars)
  <2>1. \A u \in Tasks : Pending(u)' <=> Pending(u)
    BY <1>7 DEF WorkerBreak, Goto, Release, Pending
  <2>2. \A u \in Tasks : (Taken(u)' <=> Taken(u)) /\ outcome'[u] = outcome[u]
    BY <1>7 DEF WorkerBreak, Goto, Release, Taken
  <2>3. ExecutorOpen' = ExecutorOpen
    BY <1>7 DEF WorkerBreak, Goto, Release, ExecutorOpen
  <2> QED
    BY <2>1, <2>2, <2>3, Stutters
<1>8. ASSUME NEW w \in Workers, WorkerFetch(w) PROVE [Executor!Next]_(Executor!vars)
  <2>1. PICK t \in Tasks :
          /\ t \in Elements(m_threadfuncs)
          /\ fn' = [fn EXCEPT ![w] = t]
          /\ Elements(m_threadfuncs') = Elements(m_threadfuncs) \ {t}
          /\ Distinct(m_threadfuncs')
    BY <1>8, FetchEffect
  <2>2. fn[w] = NoTask /\ outcome[t] = "none" /\ ~ Taken(t) /\ Pending(t) /\ ~ Pending(t)' /\ Taken(t)'
    BY <1>8, <2>1 DEF WorkerFetch, Goto, HandsInv, OnePlace, Pending, Taken, Settled
  <2>3. \A u \in Tasks : u # t => (Pending(u)' <=> Pending(u)) /\ (Taken(u)' <=> Taken(u))
    BY <2>1, <2>2 DEF Pending, Taken
  <2>4. outcome' = outcome /\ destroyer' = destroyer /\ destroyer \in {"idle", "lock"}
    BY <1>8 DEF WorkerFetch, QuitInv, DestroyerAt
  <2>5. Executor!Move(t, "queued", "running")
    BY <2>2, <2>3, <2>4, Moves DEF ExecutorStatus, ExecutorOpen
  <2>6. ExecutorOpen = "open"
    BY <2>4 DEF ExecutorOpen
  <2> QED
    BY <2>5, <2>6 DEF Executor!Next, Executor!Start
<1>9. ASSUME NEW w \in Workers, WorkerInc(w) PROVE [Executor!Next]_(Executor!vars)
  <2>1. \A u \in Tasks : Pending(u)' <=> Pending(u)
    BY <1>9 DEF WorkerInc, Goto, Pending
  <2>2. \A u \in Tasks : (Taken(u)' <=> Taken(u)) /\ outcome'[u] = outcome[u]
    BY <1>9 DEF WorkerInc, Goto, Taken
  <2>3. ExecutorOpen' = ExecutorOpen
    BY <1>9 DEF WorkerInc, Goto, ExecutorOpen
  <2> QED
    BY <2>1, <2>2, <2>3, Stutters
<1>10. ASSUME NEW w \in Workers, WorkerReturn(w) PROVE [Executor!Next]_(Executor!vars)
  <2>1. \A u \in Tasks : Pending(u)' <=> Pending(u)
    BY <1>10 DEF WorkerReturn, Goto, Pending
  <2>2. \A u \in Tasks : (Taken(u)' <=> Taken(u)) /\ outcome'[u] = outcome[u]
    BY <1>10 DEF WorkerReturn, Goto, Taken
  <2>3. ExecutorOpen' = ExecutorOpen
    BY <1>10 DEF WorkerReturn, Goto, ExecutorOpen
  <2> QED
    BY <2>1, <2>2, <2>3, Stutters
<1>11. ASSUME NEW w \in Workers, WorkerThrow(w) PROVE [Executor!Next]_(Executor!vars)
  <2>1. PICK t \in Tasks : fn[w] = t
    BY <1>11 DEF WorkerThrow, Goto, HandsInv
  <2>2. Taken(t) /\ ~ Pending(t) /\ outcome'[t] = "threw"
    BY <1>11, <2>1 DEF WorkerThrow, DropFn, OnePlace, Taken
  <2>3. \A v \in Workers : fn'[v] = IF v = w THEN NoTask ELSE fn[v]
    BY <1>11 DEF WorkerThrow, DropFn
  <2>4. ~ Taken(t)'
    BY <2>1, <2>3 DEF OnePlace, Taken
  <2>5. \A u \in Tasks : u # t => (Taken(u)' <=> Taken(u)) /\ outcome'[u] = outcome[u]
    BY <1>11, <2>1, <2>3 DEF WorkerThrow, DropFn, Taken
  <2>6. \A u \in Tasks : Pending(u)' <=> Pending(u)
    BY <1>11 DEF WorkerThrow, Pending
  <2>7. destroyer' = destroyer /\ destroyer # "destroyed"
    BY <1>11 DEF WorkerThrow, Goto, NoWorkerOutlivesPool
  <2>8. Executor!Move(t, "running", "done")
    BY <2>1, <2>2, <2>4, <2>5, <2>6, <2>7, Moves DEF ExecutorStatus, ExecutorOpen
  <2>9. ExecutorOpen # "terminated"
    BY <2>7 DEF ExecutorOpen
  <2> QED
    BY <2>1, <2>8, <2>9 DEF Executor!Next, Executor!Finish
<1>12. ASSUME NEW w \in Workers, WorkerDec(w) PROVE [Executor!Next]_(Executor!vars)
  <2>1. PICK t \in Tasks : fn[w] = t
    BY <1>12 DEF WorkerDec, Goto, HandsInv
  <2>2. Taken(t) /\ ~ Pending(t) /\ outcome'[t] = "returned"
    BY <1>12, <2>1 DEF WorkerDec, DropFn, OnePlace, Taken
  <2>3. \A v \in Workers : fn'[v] = IF v = w THEN NoTask ELSE fn[v]
    BY <1>12 DEF WorkerDec, DropFn
  <2>4. ~ Taken(t)'
    BY <2>1, <2>3 DEF OnePlace, Taken
  <2>5. \A u \in Tasks : u # t => (Taken(u)' <=> Taken(u)) /\ outcome'[u] = outcome[u]
    BY <1>12, <2>1, <2>3 DEF WorkerDec, DropFn, Taken
  <2>6. \A u \in Tasks : Pending(u)' <=> Pending(u)
    BY <1>12 DEF WorkerDec, Pending
  <2>7. destroyer' = destroyer /\ destroyer # "destroyed"
    BY <1>12 DEF WorkerDec, Goto, NoWorkerOutlivesPool
  <2>8. Executor!Move(t, "running", "done")
    BY <2>1, <2>2, <2>4, <2>5, <2>6, <2>7, Moves DEF ExecutorStatus, ExecutorOpen
  <2>9. ExecutorOpen # "terminated"
    BY <2>7 DEF ExecutorOpen
  <2> QED
    BY <2>1, <2>8, <2>9 DEF Executor!Next, Executor!Finish
<1>13. ASSUME NEW c \in Callers, NEW t \in Tasks, CommitCheck(c, t) PROVE [Executor!Next]_(Executor!vars)
  <2>1. t \in Tasks
    BY <1>13
  <2>2. CASE m_atmoic_quit_sign
    <3>3. ~ Pending(t) /\ ~ Taken(t) /\ outcome[t] = "none"
      BY <1>13, <2>1 DEF CommitCheck, Unused, OnePlace, InHand, Settled
    <3>4. outcome' = [outcome EXCEPT ![t] = "dropped"]
      BY <1>13, <2>2 DEF CommitCheck, Unused
    <3>5. m_threadfuncs' = m_threadfuncs /\ fn' = fn
      BY <1>13 DEF CommitCheck, Unused
    <3>6. destroyer' = destroyer /\ destroyer # "destroyed"
      BY <1>13 DEF CommitCheck, Unused
    <3>7. Executor!Move(t, "new", "dropped")
      BY <2>1, <3>3, <3>4, <3>5, <3>6, Moves DEF ExecutorStatus, ExecutorOpen, Pending, Taken
    <3>8. ExecutorOpen # "terminated"
      BY <3>6 DEF ExecutorOpen
    <3> QED
      BY <2>1, <3>7, <3>8 DEF Executor!Next, Executor!Drop
  <2>3. CASE ~ m_atmoic_quit_sign
    <3>1. \A u \in Tasks : Pending(u)' <=> Pending(u)
      BY <1>13, <2>3 DEF CommitCheck, CallerGoto, Pending
    <3>2. \A u \in Tasks : (Taken(u)' <=> Taken(u)) /\ outcome'[u] = outcome[u]
      BY <1>13, <2>3 DEF CommitCheck, CallerGoto, Taken
    <3>3. ExecutorOpen' = ExecutorOpen
      BY <1>13, <2>3 DEF CommitCheck, CallerGoto, ExecutorOpen
    <3> QED
      BY <3>1, <3>2, <3>3, Stutters
  <2> QED
    BY <2>2, <2>3
<1>14. ASSUME NEW c \in Callers, CommitLock(c) PROVE [Executor!Next]_(Executor!vars)
  <2>1. arg[c] \in Tasks
    BY <1>14 DEF CommitLock, HandsInv
  <2>2. CASE m_atmoic_quit_sign
    <3>1. destroyer # "destroyed"
      BY <1>14 DEF CommitLock, QuitInv
    <3>3. ~ Pending(arg[c]) /\ ~ Taken(arg[c]) /\ outcome[arg[c]] = "none"
      BY <1>14, <2>1 DEF CommitLock, OnePlace, InHand, Settled
    <3>4. outcome' = [outcome EXCEPT ![arg[c]] = "dropped"]
      BY <1>14, <2>2 DEF CommitLock
    <3>5. m_threadfuncs' = m_threadfuncs /\ fn' = fn
      BY <1>14 DEF CommitLock
    <3>6. destroyer' = destroyer /\ destroyer # "destroyed"
      BY <1>14, <3>1 DEF CommitLock
    <3>7. Executor!Move(arg[c], "new", "dropped")
      BY <2>1, <3>3, <3>4, <3>5, <3>6, Moves DEF ExecutorStatus, ExecutorOpen, Pending, Taken
    <3>8. ExecutorOpen # "terminated"
      BY <3>6 DEF ExecutorOpen
    <3> QED
      BY <2>1, <3>7, <3>8 DEF Executor!Next, Executor!Drop
  <2>3. CASE ~ m_atmoic_quit_sign
    <3>1. \A u \in Tasks : Pending(u)' <=> Pending(u)
      BY <1>14, <2>3 DEF CommitLock, CallerGoto, Pending
    <3>2. \A u \in Tasks : (Taken(u)' <=> Taken(u)) /\ outcome'[u] = outcome[u]
      BY <1>14, <2>3 DEF CommitLock, CallerGoto, Taken
    <3>3. ExecutorOpen' = ExecutorOpen
      BY <1>14, <2>3 DEF CommitLock, CallerGoto, ExecutorOpen
    <3> QED
      BY <3>1, <3>2, <3>3, Stutters
  <2> QED
    BY <2>2, <2>3
<1>15. ASSUME NEW c \in Callers, CommitPush(c) PROVE [Executor!Next]_(Executor!vars)
  <2>1. PICK t \in Tasks : arg[c] = t
    BY <1>15, PushEffect
  <2>2. Elements(m_threadfuncs') = Elements(m_threadfuncs) \cup {t}
    BY <1>15, <2>1, PushEffect
  <2>3. fn' = fn /\ outcome' = outcome
    BY <1>15 DEF CommitPush
  <2>4. InHand(t)
    BY <2>1 DEF InHand
  <2>5. ~ Pending(t) /\ ~ Taken(t) /\ outcome[t] = "none"
    BY <2>4 DEF OnePlace, Settled
  <2>6. Pending(t)' /\ \A u \in Tasks : u # t => (Pending(u)' <=> Pending(u))
    BY <2>2 DEF Pending
  <2>7. \A u \in Tasks : Taken(u)' <=> Taken(u)
    BY <2>3 DEF Taken
  <2>8. destroyer' = destroyer /\ destroyer \in {"idle", "lock"}
    BY <1>15 DEF CommitPush, QuitInv, DestroyerAt
  <2>9. Executor!Move(t, "new", "queued")
    BY <2>3, <2>5, <2>6, <2>7, <2>8, Moves DEF ExecutorStatus, ExecutorOpen
  <2>10. ExecutorOpen = "open"
    BY <2>8 DEF ExecutorOpen
  <2> QED
    BY <2>9, <2>10 DEF Executor!Next, Executor!Submit
<1>16. ASSUME NEW c \in Callers, CommitSpawnFails(c) PROVE [Executor!Next]_(Executor!vars)
  <2>1. arg[c] \in Tasks
    BY <1>16 DEF CommitSpawnFails, HandsInv
  <2>2. caller[c] = "push"
    BY <1>16 DEF CommitSpawnFails
  <2>3. ~ Pending(arg[c]) /\ ~ Taken(arg[c]) /\ outcome[arg[c]] = "none"
    BY <1>16, <2>1 DEF CommitSpawnFails, OnePlace, InHand, Settled
  <2>4. outcome' = [outcome EXCEPT ![arg[c]] = "dropped"]
    BY <1>16, <2>2 DEF CommitSpawnFails
  <2>5. m_threadfuncs' = m_threadfuncs /\ fn' = fn
    BY <1>16 DEF CommitSpawnFails
  <2>6. destroyer' = destroyer /\ destroyer # "destroyed"
    BY <1>16, <2>2 DEF CommitSpawnFails, QuitInv
  <2>7. Executor!Move(arg[c], "new", "dropped")
    BY <2>1, <2>3, <2>4, <2>5, <2>6, Moves DEF ExecutorStatus, ExecutorOpen, Pending, Taken
  <2>8. ExecutorOpen # "terminated"
    BY <2>6 DEF ExecutorOpen
  <2> QED
    BY <2>1, <2>7, <2>8 DEF Executor!Next, Executor!Drop
<1>17. CASE SetFifoLifo
  <2>1. \A u \in Tasks : Pending(u)' <=> Pending(u)
    BY <1>17 DEF SetFifoLifo, Pending
  <2>2. \A u \in Tasks : (Taken(u)' <=> Taken(u)) /\ outcome'[u] = outcome[u]
    BY <1>17 DEF SetFifoLifo, Taken
  <2>3. ExecutorOpen' = ExecutorOpen
    BY <1>17 DEF SetFifoLifo, ExecutorOpen
  <2> QED
    BY <2>1, <2>2, <2>3, Stutters
<1>18. CASE QuitStore
  <2>1. \A u \in Tasks : Pending(u)' <=> Pending(u)
    BY <1>18 DEF QuitStore, Pending
  <2>2. \A u \in Tasks : (Taken(u)' <=> Taken(u)) /\ outcome'[u] = outcome[u]
    BY <1>18 DEF QuitStore, Taken
  <2>3. ExecutorOpen' = ExecutorOpen
    BY <1>18 DEF QuitStore, ExecutorOpen
  <2> QED
    BY <2>1, <2>2, <2>3, Stutters
<1>19. CASE QuitLock
  <2>1. \A t \in Tasks : ExecutorStatus(t)' = ExecutorStatus(t)
    BY <1>19 DEF QuitLock, ExecutorStatus, Pending, Taken
  <2>2. ExecutorOpen = "open" /\ ExecutorOpen' = "closed"
    BY <1>19 DEF QuitLock, ExecutorOpen
  <2> QED
    BY <2>1, <2>2 DEF Executor!Next, Executor!Close
<1>20. CASE QuitNotify
  <2>1. \A u \in Tasks : Pending(u)' <=> Pending(u)
    BY <1>20 DEF QuitNotify, Release, Pending
  <2>2. \A u \in Tasks : (Taken(u)' <=> Taken(u)) /\ outcome'[u] = outcome[u]
    BY <1>20 DEF QuitNotify, Release, Taken
  <2>3. ExecutorOpen' = ExecutorOpen
    BY <1>20 DEF QuitNotify, Release, ExecutorOpen
  <2> QED
    BY <2>1, <2>2, <2>3, Stutters
<1>21. CASE JoinNext
  <2>1. \A u \in Tasks : Pending(u)' <=> Pending(u)
    BY <1>21 DEF JoinNext, Pending
  <2>2. \A u \in Tasks : (Taken(u)' <=> Taken(u)) /\ outcome'[u] = outcome[u]
    BY <1>21 DEF JoinNext, Taken
  <2>3. ExecutorOpen' = ExecutorOpen
    BY <1>21 DEF JoinNext, ExecutorOpen
  <2> QED
    BY <2>1, <2>2, <2>3, Stutters
<1>22. CASE Destroy
  <2>1. \A w \in Workers : worker[w] \in {"none", "exited"}
    BY <1>22, Constants DEF Destroy, JoinInv, Workers
  <2>2. \A t \in Tasks : ~ Taken(t) /\ ~ Taken(t)' /\ ~ Pending(t)'
    BY <1>22, <2>1 DEF Destroy, HandsInv, Taken, Pending, Elements
  <2>3. \A t \in Tasks : outcome'[t] = IF Pending(t) THEN "dropped" ELSE outcome[t]
    BY <1>22 DEF Destroy
  <2>4. ExecutorOpen = "closed" /\ ExecutorOpen' = "terminated"
    BY <1>22 DEF Destroy, ExecutorOpen
  <2>5. \A t \in Tasks : ExecutorStatus(t) # "running"
    BY <2>2 DEF ExecutorStatus, Outcomes
  <2>6. \A t \in Tasks : ExecutorStatus(t)' = IF ExecutorStatus(t) = "queued"
                                              THEN "dropped" ELSE ExecutorStatus(t)
    BY <2>2, <2>3 DEF ExecutorStatus, Outcomes
  <2> QED
    BY <2>4, <2>5, <2>6 DEF Executor!Next, Executor!Terminate
<1>23. CASE Terminated
  <2>1. \A u \in Tasks : Pending(u)' <=> Pending(u)
    BY <1>23 DEF Terminated, vars, Pending
  <2>2. \A u \in Tasks : (Taken(u)' <=> Taken(u)) /\ outcome'[u] = outcome[u]
    BY <1>23 DEF Terminated, vars, Taken
  <2>3. ExecutorOpen' = ExecutorOpen
    BY <1>23 DEF Terminated, vars, ExecutorOpen
  <2> QED
    BY <2>1, <2>2, <2>3, Stutters
<1> QED
  BY <1>1, <1>2, <1>3, <1>4, <1>5, <1>6, <1>7, <1>8, <1>9, <1>10, <1>11,
     <1>12, <1>13, <1>14, <1>15, <1>16, <1>17, <1>18, <1>19, <1>20, <1>21,
     <1>22, <1>23
     DEF Next, Worker, Finishes, Commit, Dtor

-------------------------------------------------------------------------------
(* The theorems. *)

LEMMA InitInv ==
    ASSUME Init
    PROVE  IInv
<1> USE PoolAssumption, Constants DEF Init
<1>1. TypeOK
  <2>1. m_threadfuncs \in Seq(Tasks) /\ m_threads \in 0 .. MaxThreads
    OBVIOUS
  <2>2. worker \in [Workers -> WorkerAt] /\ fn \in [Workers -> Tasks \cup {NoTask}]
    BY DEF WorkerAt
  <2>3. caller \in [Callers -> CallerAt] /\ arg \in [Callers -> Tasks \cup {NoTask}]
    BY DEF CallerAt
  <2>4. outcome \in [Tasks -> Outcomes] /\ destroyer \in DestroyerAt
    BY DEF Outcomes, DestroyerAt
  <2>5. /\ join_it \in Nat /\ join_end \in 0 .. MaxThreads /\ spurious \in 0 .. MaxSpurious
        /\ m_atmoic_working_couter \in Nat
    OBVIOUS
  <2> QED
    BY <2>1, <2>2, <2>3, <2>4, <2>5 DEF TypeOK
<1>2. LockInv /\ HandsInv /\ WaitInv /\ QuitInv
  BY DEF LockInv, HandsInv, WaitInv, QuitInv
<1>3. JoinInv
  BY DEF JoinInv, Workers
<1>4. OnePlace
  BY DEF OnePlace, Distinct, InHand, Pending, Taken, Settled, Elements
<1>5. Working = {} /\ Threw = {} /\ Waiting = {}
  BY DEF Working, Threw, Waiting
<1>6. CounterExact
  BY <1>5, FS_EmptySet DEF CounterExact
<1>7. NoLostWakeup /\ NoSleeperAfterQuit /\ NoWorkerOutlivesPool
  BY <1>5 DEF NoLostWakeup, NoSleeperAfterQuit, NoWorkerOutlivesPool
<1> QED
  BY <1>1, <1>2, <1>3, <1>4, <1>6, <1>7 DEF IInv

LEMMA StepInv ==
    ASSUME IInv, [Next]_vars
    PROVE  IInv'
BY TypeStep, LockStep, HandsStep, WaitStep, QuitStep, JoinStep, SleeperStep,
   OutliveStep, OnePlaceStep, CounterStep, WakeupStep DEF IInv

(* The inductive invariant holds in every reachable state. *)
THEOREM Invariance == Spec => []IInv
<1>1. Init => IInv
  BY InitInv
<1>2. IInv /\ [Next]_vars => IInv'
  BY StepInv
<1> QED
  BY <1>1, <1>2, PTL DEF Spec

(* The pool never has more threads than the larger of its two limits, and its
   variables keep their types, for any limits and any number of closures. *)
THEOREM TypeCorrect == Spec => []TypeOK
BY Invariance, PTL DEF IInv

(* No closure is queued, held or run twice (threadpool.h:72-91, 172-179). *)
THEOREM ClosuresInOnePlace == Spec => []OnePlace
BY Invariance, PTL DEF IInv

(* While a worker sleeps, every queued closure has an awake worker coming for
   it (threadpool.h:60-67, 168-180). *)
THEOREM NoWakeupLost == Spec => []NoLostWakeup
BY Invariance, PTL DEF IInv

(* The working counter counts the running closures plus those that have
   thrown (threadpool.h:87-97). *)
THEOREM CounterCounts == Spec => []CounterExact
BY Invariance, PTL DEF IInv

(* After quit() has notified no worker sleeps (threadpool.h:191-203). *)
THEOREM NobodySleepsAfterQuit == Spec => []NoSleeperAfterQuit
BY Invariance, PTL DEF IInv

(* No thread of the pool survives its destructor (threadpool.h:103-112,
   144-148). *)
THEOREM NobodyOutlivesThePool == Spec => []NoWorkerOutlivesPool
BY Invariance, PTL DEF IInv

(* The vector of threads is not changed while uninit iterates over it
   (threadpool.h:105-111, 170-175). *)
THEOREM ThreadsStable == Spec => JoinStable
<1>1. IInv /\ [Next]_vars =>
        [destroyer = "join" => m_threads' = m_threads \/ destroyer' = "destroyed"]_vars
  <2> SUFFICES ASSUME IInv, [Next]_vars, destroyer = "join"
               PROVE  m_threads' = m_threads \/ destroyer' = "destroyed"
    OBVIOUS
  <2>1. ASSUME NEW c \in Callers PROVE ~ CommitPush(c)
    BY DEF CommitPush, IInv, QuitInv
  <2> QED
    BY <2>1 DEF Next, Worker, Finishes, Commit, Dtor, WorkerTop, WorkerLock, WorkerPred,
       WorkerBlock, SpuriousWakeup, WorkerBreak, WorkerFetch, WorkerInc, WorkerReturn,
       WorkerThrow, WorkerDec, CommitCheck, CommitLock, CommitSpawnFails, SetFifoLifo,
       QuitStore, QuitLock, QuitNotify, JoinNext, Destroy, Terminated, vars, queue
<1> QED
  BY <1>1, Invariance, PTL DEF Spec, JoinStable

(* The pool implements TaskExecutor: what commit has queued is started at most
   once, never after quit() has had the mutex, and has ended when the destructor
   returns (threadpool.h:51-113, 144-203). *)
THEOREM ImplementsExecutor == Spec => ExecutorSpec
<1>1. Init => Executor!Init
  <2> SUFFICES ASSUME Init PROVE Executor!Init
    OBVIOUS
  <2>1. ExecutorOpen = "open"
    BY DEF Init, ExecutorOpen
  <2>2. ASSUME NEW t \in Tasks PROVE ExecutorStatus(t) = "new"
    BY PoolAssumption DEF Init, ExecutorStatus, Taken, Pending, Elements
  <2> QED
    BY <2>1, <2>2 DEF Executor!Init
<1>2. IInv /\ [Next]_vars => [Executor!Next]_(Executor!vars)
  BY ExecutorStep
<1> QED
  BY <1>1, <1>2, Invariance, PTL DEF Spec, ExecutorSpec, Executor!Spec
===============================================================================
