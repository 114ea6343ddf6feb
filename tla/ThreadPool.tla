------------------------------ MODULE ThreadPool ------------------------------
(***************************************************************************)
(* stdx::ThreadPool (curl_native/src/main/cpp/manager/threadpool.h): a     *)
(* pool of worker threads that take closures from one deque guarded by one *)
(* mutex and one condition variable, grow up to a maximum, and are stopped *)
(* and joined by the destructor.                                           *)
(*                                                                         *)
(* A step of the model is what a thread does between two points where      *)
(* another thread can observe it: an operation on the mutex, on the        *)
(* condition variable, or on one of the atomics.                           *)
(***************************************************************************)
EXTENDS Naturals, Sequences, FiniteSets

CONSTANTS
    Tasks,              \* the closures that callers hand to commit, each once
    Callers,            \* the threads that call commit
    NoTask,             \* an empty std::function
    NoOne,              \* m_mutex is free
    Destroyer,          \* the thread that runs ~ThreadPool
    count_begin,        \* the constructor's arguments
    count_max_growth,
    THRESHOLD,          \* DEFAULT_THREAD_POOL_COUNT_THRESHOLD
    MaxSpurious         \* bound of the model: wake-ups without a notify

(* The constructor clamps both of its arguments. *)
Clamp(n) == IF n > THRESHOLD THEN THRESHOLD ELSE n
m_pool_size == Clamp(count_begin)
m_pool_size_max_growth == Clamp(count_max_growth)

MaxThreads == IF m_pool_size > m_pool_size_max_growth
              THEN m_pool_size ELSE m_pool_size_max_growth

(* the i-th element of the vector m_threads is worker i *)
Workers == 1 .. MaxThreads

ASSUME PoolAssumption ==
    /\ IsFiniteSet(Tasks) /\ NoTask \notin Tasks
    /\ Callers \cap Workers = {}
    /\ NoOne \notin Callers \cup Workers
    /\ Destroyer \notin Callers \cup Workers
    /\ NoOne # Destroyer
    /\ count_begin \in Nat /\ count_max_growth \in Nat
    /\ THRESHOLD \in Nat /\ MaxSpurious \in Nat

VARIABLES
    m_threads,                  \* size of the vector of threads
    m_threadfuncs,              \* the deque of closures, front first
    m_mutex,                    \* the thread that holds it, or NoOne
    m_atmoic_working_couter,
    m_atmoic_quit_sign,
    m_atmoic_fifo_lifo,         \* TRUE: take from the front
    worker,                     \* where each worker thread is
    fn,                         \* the closure each worker holds
    caller,                     \* where each thread is inside commit
    arg,                        \* the closure it was called with
    destroyer,                  \* where ~ThreadPool is
    join_it, join_end,          \* the range-for of uninit: next, and last
    spurious,                   \* wake-ups without a notify so far
    outcome                     \* history: how each task left the pool

atomics == <<m_atmoic_working_couter, m_atmoic_quit_sign, m_atmoic_fifo_lifo>>
queue   == <<m_threads, m_threadfuncs>>
callers == <<caller, arg>>
dtor    == <<destroyer, join_it, join_end>>
vars == <<queue, m_mutex, atomics, worker, fn, callers, dtor, spurious, outcome>>

WorkerAt == {"none", "top", "lock", "pred", "block", "waiting", "fetch",
             "inc", "run", "dec", "exited"}
CallerAt == {"idle", "lock", "push"}
DestroyerAt == {"idle", "lock", "notify", "join", "destroyed"}
Outcomes == {"none", "returned", "threw", "dropped"}

Elements(s) == {s[i] : i \in DOMAIN s}
Distinct(s) == \A i, j \in DOMAIN s : s[i] = s[j] => i = j
Waiting == {w \in Workers : worker[w] = "waiting"}
(* awake and on the way to the deque *)
Fetching == {w \in Workers : worker[w] \in {"top", "lock", "pred", "block", "fetch"}}
(* counted by m_atmoic_working_couter *)
Working == {w \in Workers : worker[w] \in {"run", "dec"}}

Threw == {t \in Tasks : outcome[t] = "threw"}

InHand(t) == \E c \in Callers : arg[c] = t
Pending(t) == t \in Elements(m_threadfuncs)
Taken(t) == \E w \in Workers : fn[w] = t
Settled(t) == outcome[t] # "none"
Unused(t) == ~ (InHand(t) \/ Pending(t) \/ Taken(t) \/ Settled(t))

(* The constructor: init() starts m_pool_size threads. *)
Init ==
    /\ m_threads = m_pool_size
    /\ m_threadfuncs = <<>>
    /\ m_mutex = NoOne
    /\ m_atmoic_working_couter = 0
    /\ m_atmoic_quit_sign = FALSE
    /\ m_atmoic_fifo_lifo = TRUE
    /\ worker = [w \in Workers |-> IF w <= m_pool_size THEN "top" ELSE "none"]
    /\ fn = [w \in Workers |-> NoTask]
    /\ caller = [c \in Callers |-> "idle"]
    /\ arg = [c \in Callers |-> NoTask]
    /\ destroyer = "idle"
    /\ join_it = 1 /\ join_end = 0
    /\ spurious = 0
    /\ outcome = [t \in Tasks |-> "none"]

-------------------------------------------------------------------------------
(* One iteration of the worker's loop. *)

Goto(w, from, to) ==
    /\ worker[w] = from
    /\ worker' = [worker EXCEPT ![w] = to]

Acquire(p) == m_mutex = NoOne /\ m_mutex' = p
Release == m_mutex' = NoOne

(* while (!m_atmoic_quit_sign.load()) *)
WorkerTop(w) ==
    /\ Goto(w, "top", IF m_atmoic_quit_sign THEN "exited" ELSE "lock")
    /\ UNCHANGED <<queue, m_mutex, atomics, fn, callers, dtor, spurious, outcome>>

(* LOCK lock(m_mutex), and the same again inside m_cv.wait after a wake-up *)
WorkerLock(w) ==
    /\ Goto(w, "lock", "pred")
    /\ Acquire(w)
    /\ UNCHANGED <<queue, atomics, fn, callers, dtor, spurious, outcome>>

(* the predicate of m_cv.wait, with the mutex held *)
MayProceed == m_threadfuncs # <<>> \/ m_atmoic_quit_sign

WorkerPred(w) ==
    /\ Goto(w, "pred", IF MayProceed THEN "fetch" ELSE "block")
    /\ UNCHANGED <<queue, m_mutex, atomics, fn, callers, dtor, spurious, outcome>>

(* m_cv.wait releases the mutex and starts to wait in one step *)
WorkerBlock(w) ==
    /\ Goto(w, "block", "waiting")
    /\ Release
    /\ UNCHANGED <<queue, atomics, fn, callers, dtor, spurious, outcome>>

(* a wait may return although nobody has notified *)
SpuriousWakeup(w) ==
    /\ spurious < MaxSpurious
    /\ Goto(w, "waiting", "lock")
    /\ spurious' = spurious + 1
    /\ UNCHANGED <<queue, m_mutex, atomics, fn, callers, dtor, outcome>>

(* break on the quit sign: the lock's destructor releases the mutex *)
WorkerBreak(w) ==
    /\ m_atmoic_quit_sign
    /\ Goto(w, "fetch", "exited")
    /\ Release
    /\ UNCHANGED <<queue, atomics, fn, callers, dtor, spurious, outcome>>

Front(s) == SubSeq(s, 1, Len(s) - 1)

(* mutant: the closure is copied out of the front and stays in the deque *)
WorkerFetchKeepsIt(w) ==
    /\ ~ m_atmoic_quit_sign
    /\ Goto(w, "fetch", "inc")
    /\ fn' = [fn EXCEPT ![w] = Head(m_threadfuncs)]
    /\ Release
    /\ UNCHANGED <<queue, atomics, callers, dtor, spurious, outcome>>

(* mutant: the test of the quit sign after the wait is missing *)
WorkerFetchAfterQuit(w) ==
    /\ Goto(w, "fetch", "inc")
    /\ m_threadfuncs # <<>>
    /\ fn' = [fn EXCEPT ![w] = Head(m_threadfuncs)]
    /\ m_threadfuncs' = Tail(m_threadfuncs)
    /\ Release
    /\ UNCHANGED <<m_threads, atomics, callers, dtor, spurious, outcome>>

(* The quit sign is tested, the closure moved out of the front or the back,
   and the mutex released: one step, because only the holder of the mutex can
   see the deque, so that a store of the quit sign after the test commutes
   with the rest. *)
WorkerFetch(w) ==
    /\ ~ m_atmoic_quit_sign
    /\ Goto(w, "fetch", "inc")
    /\ IF m_threadfuncs = <<>>
       THEN UNCHANGED <<m_threadfuncs, fn>>
       ELSE IF m_atmoic_fifo_lifo
       THEN /\ fn' = [fn EXCEPT ![w] = Head(m_threadfuncs)]
            /\ m_threadfuncs' = Tail(m_threadfuncs)
       ELSE /\ fn' = [fn EXCEPT ![w] = m_threadfuncs[Len(m_threadfuncs)]]
            /\ m_threadfuncs' = Front(m_threadfuncs)
    /\ Release
    /\ UNCHANGED <<m_threads, atomics, callers, dtor, spurious, outcome>>

(* ++m_atmoic_working_couter, after the mutex has been released *)
WorkerInc(w) ==
    /\ Goto(w, "inc", "run")
    /\ m_atmoic_working_couter' = m_atmoic_working_couter + 1
    /\ UNCHANGED <<queue, m_mutex, m_atmoic_quit_sign, m_atmoic_fifo_lifo, fn,
                   callers, dtor, spurious, outcome>>

(* mutant: the counter is decremented on return and again after it *)
WorkerReturnDecrements(w) ==
    /\ Goto(w, "run", "dec")
    /\ m_atmoic_working_couter' = m_atmoic_working_couter - 1
    /\ UNCHANGED <<queue, m_mutex, m_atmoic_quit_sign, m_atmoic_fifo_lifo, fn,
                   callers, dtor, spurious, outcome>>

(* if (fn) fn(); returns *)
WorkerReturn(w) ==
    /\ Goto(w, "run", "dec")
    /\ UNCHANGED <<queue, m_mutex, atomics, fn, callers, dtor, spurious, outcome>>

(* the closure the worker holds is destroyed at the end of the iteration *)
DropFn(w, how) ==
    /\ fn' = [fn EXCEPT ![w] = NoTask]
    /\ outcome' = [t \in Tasks |-> IF t = fn[w] THEN how ELSE outcome[t]]

(* fn() throws: catch (...) skips the decrement of the counter *)
WorkerThrow(w) ==
    /\ fn[w] # NoTask
    /\ Goto(w, "run", "top")
    /\ DropFn(w, "threw")
    /\ UNCHANGED <<queue, m_mutex, atomics, callers, dtor, spurious>>

(* mutant: the decrement is missing *)
WorkerDecForgets(w) ==
    /\ Goto(w, "dec", "top")
    /\ DropFn(w, "returned")
    /\ UNCHANGED <<queue, m_mutex, atomics, callers, dtor, spurious>>

(* --m_atmoic_working_couter and the end of the iteration *)
WorkerDec(w) ==
    /\ Goto(w, "dec", "top")
    /\ m_atmoic_working_couter' = m_atmoic_working_couter - 1
    /\ DropFn(w, "returned")
    /\ UNCHANGED <<queue, m_mutex, m_atmoic_quit_sign, m_atmoic_fifo_lifo,
                   callers, dtor, spurious>>

-------------------------------------------------------------------------------
(* commit *)

CallerGoto(c, from, to) ==
    /\ caller[c] = from
    /\ caller' = [caller EXCEPT ![c] = to]

(* commit returns: it drops its copy of the closure, queued or not *)
CallerReturn(c) ==
    /\ caller' = [caller EXCEPT ![c] = "idle"]
    /\ arg' = [arg EXCEPT ![c] = NoTask]

(* the first test of the quit sign, without the mutex *)
CommitCheck(c, t) ==
    /\ destroyer # "destroyed"
    /\ Unused(t)
    /\ IF m_atmoic_quit_sign
       THEN /\ caller[c] = "idle"
            /\ outcome' = [outcome EXCEPT ![t] = "dropped"]
            /\ UNCHANGED callers
       ELSE /\ CallerGoto(c, "idle", "lock")
            /\ arg' = [arg EXCEPT ![c] = t]
            /\ UNCHANGED outcome
    /\ UNCHANGED <<queue, m_mutex, atomics, worker, fn, dtor, spurious>>

(* mutant: the quit sign is not tested again under the mutex *)
CommitLockUntested(c) ==
    /\ CallerGoto(c, "lock", "push")
    /\ Acquire(c)
    /\ UNCHANGED <<queue, atomics, worker, fn, arg, dtor, spurious, outcome>>

(* LOCK lock(m_mutex) and the second test *)
CommitLock(c) ==
    /\ caller[c] = "lock"
    /\ m_mutex = NoOne
    /\ IF m_atmoic_quit_sign
       THEN /\ CallerReturn(c)
            /\ outcome' = [outcome EXCEPT ![arg[c]] = "dropped"]
            /\ UNCHANGED m_mutex
       ELSE /\ CallerGoto(c, "lock", "push")
            /\ m_mutex' = c
            /\ UNCHANGED <<arg, outcome>>
    /\ UNCHANGED <<queue, atomics, worker, fn, dtor, spurious>>

has_idle == m_atmoic_working_couter < m_threads

WantsThread == ~ has_idle /\ m_threads < m_pool_size_max_growth

(* mutant: commit queues without a notify *)
NotifyNobody(at) == {at}

(* m_cv.notify_one(): the possible program counters after it *)
NotifyOne(at) ==
    IF Waiting = {} THEN {at} ELSE {[at EXCEPT ![w] = "lock"] : w \in Waiting}

(* grow if no thread seems idle, queue the closure, notify, unlock *)
CommitPush(c) ==
    /\ caller[c] = "push"
    /\ m_threads' = IF WantsThread THEN m_threads + 1 ELSE m_threads
    /\ m_threadfuncs' = Append(m_threadfuncs, arg[c])
    /\ worker' \in NotifyOne(IF WantsThread
                             THEN [worker EXCEPT ![m_threads + 1] = "top"]
                             ELSE worker)
    /\ CallerReturn(c)
    /\ Release
    /\ UNCHANGED <<atomics, fn, dtor, spurious, outcome>>

(* the constructor of std::thread throws: catch (...) loses the closure,
   because it is queued only after the thread has been created *)
CommitSpawnFails(c) ==
    /\ caller[c] = "push"
    /\ WantsThread
    /\ outcome' = [outcome EXCEPT ![arg[c]] = "dropped"]
    /\ CallerReturn(c)
    /\ Release
    /\ UNCHANGED <<queue, atomics, worker, fn, dtor, spurious>>

(* set_execute_fifo_lifo *)
SetFifoLifo ==
    /\ destroyer # "destroyed"
    /\ m_atmoic_fifo_lifo' = ~ m_atmoic_fifo_lifo
    /\ UNCHANGED <<queue, m_mutex, m_atmoic_working_couter, m_atmoic_quit_sign,
                   worker, fn, callers, dtor, spurious, outcome>>

-------------------------------------------------------------------------------
(* ~ThreadPool: quit(), uninit(), then the members are destroyed *)

QuitStore ==
    /\ destroyer = "idle"
    /\ destroyer' = "lock"
    /\ m_atmoic_quit_sign' = TRUE
    /\ UNCHANGED <<queue, m_mutex, m_atmoic_working_couter, m_atmoic_fifo_lifo,
                   worker, fn, callers, join_it, join_end, spurious, outcome>>

(* mutant: quit() notifies without having taken the mutex *)
QuitLockless ==
    /\ destroyer = "lock"
    /\ destroyer' = "join"
    /\ worker' = [w \in Workers |->
                    IF worker[w] = "waiting" THEN "lock" ELSE worker[w]]
    /\ join_it' = 1 /\ join_end' = m_threads
    /\ UNCHANGED <<queue, m_mutex, atomics, fn, callers, spurious, outcome>>

QuitLock ==
    /\ destroyer = "lock"
    /\ destroyer' = "notify"
    /\ Acquire(Destroyer)
    /\ UNCHANGED <<queue, atomics, worker, fn, callers, join_it, join_end,
                   spurious, outcome>>

(* m_cv.notify_all(), unlock; the range-for of uninit fixes its end once *)
QuitNotify ==
    /\ destroyer = "notify"
    /\ destroyer' = "join"
    /\ worker' = [w \in Workers |->
                    IF worker[w] = "waiting" THEN "lock" ELSE worker[w]]
    /\ Release
    /\ join_it' = 1 /\ join_end' = m_threads
    /\ UNCHANGED <<queue, atomics, fn, callers, spurious, outcome>>

(* mutant: the threads are detached, not joined *)
JoinDetaches ==
    /\ destroyer = "join"
    /\ join_it <= join_end
    /\ join_it' = join_it + 1
    /\ UNCHANGED <<queue, m_mutex, atomics, worker, fn, callers, destroyer,
                   join_end, spurious, outcome>>

(* thread.join() *)
JoinNext ==
    /\ destroyer = "join"
    /\ join_it <= join_end
    /\ worker[join_it] = "exited"
    /\ join_it' = join_it + 1
    /\ UNCHANGED <<queue, m_mutex, atomics, worker, fn, callers, destroyer,
                   join_end, spurious, outcome>>

(* m_threads.clear() and the end of the object's lifetime, which C++ lets
   happen only when no thread is inside a member function; closures still in
   the deque are destroyed without having run *)
Destroy ==
    /\ destroyer = "join"
    /\ join_it > join_end
    /\ \A c \in Callers : caller[c] = "idle"
    /\ destroyer' = "destroyed"
    /\ m_threads' = 0
    /\ m_threadfuncs' = <<>>
    /\ outcome' = [t \in Tasks |-> IF Pending(t) THEN "dropped" ELSE outcome[t]]
    /\ UNCHANGED <<m_mutex, atomics, worker, fn, callers, join_it, join_end, spurious>>

(* nothing is left to do: the only state in which the pool may stop *)
Terminated ==
    /\ destroyer = "destroyed"
    /\ UNCHANGED vars

-------------------------------------------------------------------------------
Worker(w) ==
    \/ WorkerTop(w) \/ WorkerLock(w) \/ WorkerPred(w) \/ WorkerBlock(w)
    \/ WorkerBreak(w) \/ WorkerFetch(w) \/ WorkerInc(w) \/ WorkerDec(w)

Finishes(w) == WorkerReturn(w) \/ WorkerThrow(w)

Commit(c) == CommitLock(c) \/ CommitPush(c) \/ CommitSpawnFails(c)

Dtor == QuitLock \/ QuitNotify \/ JoinNext \/ Destroy

Next ==
    \/ \E w \in Workers : Worker(w) \/ Finishes(w) \/ SpuriousWakeup(w)
    \/ \E c \in Callers : Commit(c) \/ \E t \in Tasks : CommitCheck(c, t)
    \/ SetFifoLifo
    \/ QuitStore
    \/ Dtor
    \/ Terminated

Spec == Init /\ [][Next]_vars

(* A thread that can take a step takes it: the scheduler of the platform runs
   every thread, a closure ends because its transfer has a timeout, and commit
   is code without a loop. Nobody is obliged to call commit or the destructor,
   and neither a failing thread creation nor a throwing closure is owed. *)
Fairness ==
    /\ \A w \in Workers : WF_vars(Worker(w)) /\ WF_vars(Finishes(w))
    /\ \A c \in Callers : WF_vars(Commit(c))
    /\ WF_vars(Dtor)

FairSpec == Spec /\ Fairness

-------------------------------------------------------------------------------
(* Properties *)

(* Every variable holds a value of its type; in particular the vector of
   threads never outgrows the limit of the constructor (threadpool.h:172). *)
TypeOK ==
    /\ m_threads \in 0 .. MaxThreads
    /\ m_threadfuncs \in Seq(Tasks)
    /\ m_mutex \in {NoOne, Destroyer} \cup Workers \cup Callers
    /\ m_atmoic_working_couter \in Nat
    /\ m_atmoic_quit_sign \in BOOLEAN /\ m_atmoic_fifo_lifo \in BOOLEAN
    /\ worker \in [Workers -> WorkerAt]
    /\ fn \in [Workers -> Tasks \cup {NoTask}]
    /\ caller \in [Callers -> CallerAt]
    /\ arg \in [Callers -> Tasks \cup {NoTask}]
    /\ destroyer \in DestroyerAt
    /\ join_it \in Nat /\ join_end \in 0 .. MaxThreads
    /\ spurious \in 0 .. MaxSpurious
    /\ outcome \in [Tasks -> Outcomes]

(* A closure is in one place at a time: with one caller of commit, in one slot
   of the deque, in the hands of one worker, or gone. A worker therefore never
   runs a closure that another one runs or has run, whatever the interleaving
   of commit and the workers (threadpool.h:72-91, 172-179). *)
OnePlace ==
    /\ Distinct(m_threadfuncs)
    /\ \A t \in Tasks :
          /\ \A v, w \in Workers : fn[v] = t /\ fn[w] = t => v = w
          /\ \A b, c \in Callers : arg[b] = t /\ arg[c] = t => b = c
          /\ Settled(t) => ~ (InHand(t) \/ Pending(t) \/ Taken(t))
          /\ InHand(t) => ~ (Pending(t) \/ Taken(t))
          /\ Pending(t) => ~ Taken(t)

(* No wake-up is lost: while the pool is open and some worker sleeps, at least
   as many workers are awake and on their way to the deque as there are
   closures in it. It relies on the predicate of the wait and on one notify per
   commit under the same mutex (threadpool.h:60-67, 168-180). *)
NoLostWakeup ==
    ~ m_atmoic_quit_sign /\ Waiting # {} =>
        Len(m_threadfuncs) <= Cardinality(Fetching)

(* What the counter behind has_idle and get_working_count really counts: the
   workers that run a closure, and, for ever, every closure that has thrown,
   because catch (...) skips the decrement (threadpool.h:87-97). *)
CounterExact ==
    m_atmoic_working_couter = Cardinality(Working) + Cardinality(Threw)

(* Once quit() has notified, no worker sleeps or is about to, although the quit
   sign is stored before the mutex is taken (threadpool.h:193-197): the join
   waits only for workers that will see the sign. *)
NoSleeperAfterQuit ==
    destroyer \in {"join", "destroyed"} =>
        \A w \in Workers : worker[w] \notin {"block", "waiting"}

(* When the destructor returns, no thread of the pool is alive to touch the
   freed members, including threads that commit added while the destructor had
   already stored the quit sign (threadpool.h:103-112, 144-148, 172-175). *)
NoWorkerOutlivesPool ==
    destroyer = "destroyed" =>
        \A w \in Workers : worker[w] \in {"none", "exited"}

(* The vector that uninit iterates over without the mutex is not changed by a
   commit that is still inside the pool (threadpool.h:105, 170-175). *)
JoinStable == [][destroyer = "join" => m_threads' = m_threads \/ destroyer' = "destroyed"]_vars

(* The pool implements the abstract executor. *)
ExecutorStatus(t) ==
    IF Taken(t) THEN "running"
    ELSE IF Pending(t) THEN "queued"
    ELSE IF outcome[t] \in {"returned", "threw"} THEN "done"
    ELSE IF outcome[t] = "dropped" THEN "dropped"
    ELSE "new"

ExecutorOpen ==
    IF destroyer \in {"idle", "lock"} THEN "open"
    ELSE IF destroyer = "destroyed" THEN "terminated"
    ELSE "closed"

Executor == INSTANCE TaskExecutor WITH
    status <- [t \in Tasks |-> ExecutorStatus(t)],
    open <- ExecutorOpen

(* Every behaviour of the pool is one of TaskExecutor: no closure is started
   twice, or after quit() took the mutex, or still runs when the destructor
   returns (threadpool.h:51-113, 144-203). *)
ExecutorSpec == Executor!Spec

(* A queued closure runs to its end unless the pool is told to quit: no
   worker sleeps for ever while there is work (threadpool.h:61-67, 180). *)
EventuallyRuns ==
    \A t \in Tasks : Pending(t) ~> (Settled(t) \/ m_atmoic_quit_sign)

(* The destructor returns, provided that the closures that run end: the join
   of no worker waits for ever (threadpool.h:103-113, 191-203). *)
DestructorReturns == m_atmoic_quit_sign ~> (destroyer = "destroyed")
===============================================================================
