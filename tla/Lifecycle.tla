------------------------------- MODULE Lifecycle -------------------------------
(***************************************************************************)
(* The life of the library inside one Android process: the main thread,    *)
(* which runs BizNetWrapper.init and uninit, the calls of the requests and *)
(* the messages posted to it, and the workers, which run the requests and  *)
(* call back through JNI.                                                  *)
(*                                                                         *)
(* The native side is jni.cpp and manager/httpmanager.h: g_threadpool,     *)
(* g_manager, the global reference g_obj and the global state of libcurl.  *)
(* The Java side is HttpManager, RequestManager and utils/ThreadUtils. The *)
(* application is app/, whose activities call init and uninit, and any     *)
(* other user of the library, who may call HttpManager.Init once more.     *)
(*                                                                         *)
(* Each pool that init creates is used as TaskExecutor promises, see       *)
(* UsesExecutor, and what a caller sees is RequestPromise.                 *)
(***************************************************************************)
EXTENDS Naturals, Sequences, FiniteSets

CONSTANTS
    Requests,       \* the calls of get, postForm, ...
    Listening,      \* those with an HttpCallback
    Reporting,      \* the downloads and uploads, which report their progress
    Activities,     \* instances of MainActivity
    Fields,         \* mRequest1, mRequest2, ...
    Hashes,         \* the UUIDs that name native managers
    Null,           \* a null reference or pointer
    MaxProgress,    \* bound of the model: progress callbacks of one request
    MaxAgain        \* bound of the model: inits without an uninit before

ASSUME LifecycleAssumption ==
    /\ Listening \subseteq Requests /\ Reporting \subseteq Requests
    /\ Null \notin Hashes \cup Requests \cup {"open", "closed"}
    /\ MaxProgress \in Nat /\ MaxAgain \in Nat

VARIABLES
    ui, next,           \* what the main thread does, and what it does it for
    waiting, alive,     \* activities not yet created, and not yet destroyed
    together,           \* history: two were alive at a time
    again,              \* inits without an uninit so far
    field, used,        \* the wrapper's request managers; hashes given out
    current,            \* the request being committed
    stage,              \* how far each request is
    event,              \* what its worker calls back
    reported,           \* how often it has called back progress
    via,                \* the hash it was sent to
    sent,               \* history: the manager it was sent by
    mCallbackMap,       \* requests whose callback is registered
    looper,             \* the messages posted to the main thread
    delivered,          \* history: what each callback has been told
    g_threadpool,       \* Null, "open" or "closed"
    gen, pool,          \* pools created; the pool a request was committed to
    m_request_managers, \* native managers
    g_obj, refs,        \* the global reference; the references that are valid
    initialized,        \* libcurl's count of global initialisations
    inits               \* history: how often it was initialised

app == <<next, waiting, alive, together, again>>
main == <<ui, app, current>>
java == <<field, used, mCallbackMap>>
work == <<stage, event, reported, via, sent, pool>>
inbox == <<looper, delivered>>
jni == <<g_obj, refs>>
curl == <<initialized, inits>>
native == <<g_threadpool, gen, m_request_managers>>
vars == <<main, java, work, inbox, jni, curl, native>>

Doing == {"looper", "commit", "uninit", "join", "cleanup", "init", "ref",
          "newref", "forget", "crashed"}
Running == {"transfer", "test", "call"}
Stages == {"new", "commit", "queued", "done", "silent", "dropped"} \cup Running
Final == {"success", "fail"}
Events == {"progress"} \cup Final

Init ==
    /\ ui = "looper" /\ next = "init"
    /\ waiting = Activities /\ alive = {} /\ together = FALSE /\ again = 0
    /\ field = [f \in Fields |-> Null] /\ used = {}
    /\ current = Null
    /\ stage = [r \in Requests |-> "new"]
    /\ event = [r \in Requests |-> "progress"]
    /\ reported = [r \in Requests |-> 0]
    /\ via = [r \in Requests |-> Null]
    /\ sent = [r \in Requests |-> "absent"]
    /\ pool = [r \in Requests |-> 0]
    /\ mCallbackMap = {}
    /\ looper = <<>>
    /\ delivered = [r \in Requests |-> <<>>]
    /\ g_threadpool = Null
    /\ gen = 0
    /\ m_request_managers = [k \in Hashes |-> "absent"]
    /\ g_obj = 0 /\ refs = {}
    /\ initialized = 0 /\ inits = 0

-------------------------------------------------------------------------------
(* The main thread: activities *)

(* onCreate calls BizNetWrapper.init: Uninit, then Init *)
OnCreate(a) ==
    /\ ui = "looper"
    /\ a \in waiting
    /\ waiting' = waiting \ {a}
    /\ alive' = alive \cup {a}
    /\ together' = (together \/ alive # {})
    /\ ui' = "uninit" /\ next' = "init"
    /\ UNCHANGED <<again, current, java, work, inbox, jni, curl, native>>

(* mutant: uninit is called when the activity pauses *)
StillAlive(a) == alive

Left(a) == alive \ {a}

(* onDestroy calls BizNetWrapper.uninit: Uninit, then the fields are cleared *)
OnDestroy(a) ==
    /\ ui = "looper"
    /\ a \in alive
    /\ alive' = Left(a)
    /\ ui' = "uninit" /\ next' = "forget"
    /\ UNCHANGED <<waiting, together, again, current, java, work, inbox, jni, curl,
                   native>>

(* HttpManager.Init is called while the library is in use *)
InitAgain ==
    /\ ui = "looper"
    /\ alive # {}
    /\ again < MaxAgain
    /\ again' = again + 1
    /\ ui' = "init" /\ next' = "again"
    /\ UNCHANGED <<waiting, alive, together, current, java, work, inbox, jni, curl,
                   native>>

(* mutant: the fields are not cleared *)
Remembered == field

Forgotten == [f \in Fields |-> Null]

Forget ==
    /\ ui = "forget"
    /\ field' = Forgotten
    /\ ui' = "looper"
    /\ UNCHANGED <<app, current, used, mCallbackMap, work, inbox, jni, curl,
                   native>>

-------------------------------------------------------------------------------
(* The main thread: JniCurl.unInit and JniCurl.init *)

(* delete g_threadpool: the pool is told to quit *)
UnInit ==
    /\ ui = "uninit"
    /\ IF g_threadpool = Null
       THEN ui' = "cleanup" /\ UNCHANGED g_threadpool
       ELSE ui' = "join" /\ g_threadpool' = "closed"
    /\ UNCHANGED <<app, current, java, work, inbox, jni, curl, gen,
                   m_request_managers>>

(* mutants: the destructor does not wait for its threads; or for the queue, too *)
JoinedAtOnce == TRUE
JoinedAndDrained == \A r \in Requests : stage[r] \notin Running \cup {"queued"}

Joined == \A r \in Requests : stage[r] \notin Running

(* mutant: the queue outlives the pool *)
QueueKept == stage

QueueDestroyed == [r \in Requests |-> IF stage[r] = "queued" THEN "dropped" ELSE stage[r]]

(* the main thread waits for the workers; what is queued is destroyed *)
Join ==
    /\ ui = "join"
    /\ Joined
    /\ g_threadpool' = Null
    /\ stage' = QueueDestroyed
    /\ ui' = "cleanup"
    /\ UNCHANGED <<app, current, java, event, reported, via, sent, pool, inbox, jni,
                   curl, gen, m_request_managers>>

OneLess == IF initialized = 0 THEN 0 ELSE initialized - 1

(* curl_global_cleanup, delete g_manager with its request managers, and
   DeleteGlobalRef *)
Cleanup ==
    /\ ui = "cleanup"
    /\ initialized' = OneLess
    /\ m_request_managers' = [k \in Hashes |-> "absent"]
    /\ refs' = refs \ {g_obj}
    /\ g_obj' = 0
    /\ ui' = next
    /\ UNCHANGED <<app, current, java, work, inbox, inits, g_threadpool, gen>>

(* HttpManager::init: curl_global_init, and a pool if there is none *)
InitNative ==
    /\ ui = "init"
    /\ initialized' = initialized + 1
    /\ inits' = inits + 1
    /\ IF g_threadpool = Null
       THEN g_threadpool' = "open" /\ gen' = gen + 1
       ELSE UNCHANGED <<g_threadpool, gen>>
    /\ ui' = "ref"
    /\ UNCHANGED <<app, current, java, work, inbox, jni, m_request_managers>>

(* the previous reference to the HttpManager of Java is deleted ... *)
DropRef ==
    /\ ui = "ref"
    /\ refs' = refs \ {g_obj}
    /\ ui' = "newref"
    /\ UNCHANGED <<app, current, java, work, inbox, g_obj, curl, native>>

(* ... before the new one is made *)
NewRef ==
    /\ ui = "newref"
    /\ g_obj' = inits
    /\ refs' = refs \cup {inits}
    /\ ui' = "looper"
    /\ UNCHANGED <<app, current, java, work, inbox, curl, native>>

-------------------------------------------------------------------------------
(* The main thread: requests *)

(* getBizRequestManager: the manager is made and configured by its first use *)
Manager(f, k) ==
    IF field[f] = Null
    THEN /\ k \in Hashes \ used
         /\ used' = used \cup {k}
         /\ field' = [field EXCEPT ![f] = k]
         /\ m_request_managers' = [m_request_managers EXCEPT ![k] = "configured"]
    ELSE /\ k = field[f]
         /\ UNCHANGED <<used, field, m_request_managers>>

(* mutant: the callback is not registered *)
RegisteredNever(r) == mCallbackMap

Registered(r) == mCallbackMap \cup ({r} \cap Listening)

(* a button: the number is taken and the callback registered *)
Call(r, f) ==
    /\ ui = "looper"
    /\ alive # {}
    /\ stage[r] = "new"
    /\ \E k \in Hashes :
          /\ Manager(f, k)
          /\ via' = [via EXCEPT ![r] = k]
    /\ mCallbackMap' = Registered(r)
    /\ stage' = [stage EXCEPT ![r] = "commit"]
    /\ current' = r
    /\ ui' = "commit"
    /\ UNCHANGED <<app, event, reported, sent, pool, inbox, jni, curl, g_threadpool,
                   gen>>

(* get_request_manager, which creates a manager of an unknown hash *)
Found(k) == IF m_request_managers[k] = "absent" THEN "empty" ELSE m_request_managers[k]

(* the closure is queued, or dropped when a thread could not be created *)
Commit(r) ==
    /\ ui = "commit" /\ current = r
    /\ g_threadpool # Null
    /\ m_request_managers' = [m_request_managers EXCEPT ![via[r]] = Found(via[r])]
    /\ sent' = [sent EXCEPT ![r] = Found(via[r])]
    /\ pool' = [pool EXCEPT ![r] = gen]
    /\ \E result \in {"queued", "dropped"} : stage' = [stage EXCEPT ![r] = result]
    /\ ui' = "looper"
    /\ current' = Null
    /\ UNCHANGED <<app, java, event, reported, via, inbox, jni, curl, g_threadpool,
                   gen>>

(* g_threadpool is used without a test: the process ends *)
CommitCrash ==
    /\ ui = "commit"
    /\ g_threadpool = Null
    /\ ui' = "crashed"
    /\ UNCHANGED <<app, current, java, work, inbox, jni, curl, native>>

(* the main looper runs the oldest message *)
RunMessage ==
    /\ ui = "looper"
    /\ looper # <<>>
    /\ LET m == Head(looper)
       IN  delivered' = [delivered EXCEPT ![m.request] = Append(@, m.event)]
    /\ looper' = Tail(looper)
    /\ UNCHANGED <<main, java, work, jni, curl, native>>

-------------------------------------------------------------------------------
(* A worker *)

Step(r, from, to) ==
    /\ ui # "crashed"
    /\ stage[r] = from
    /\ stage' = [stage EXCEPT ![r] = to]

(* mutant: a thread tests the quit sign only before it sleeps *)
MayStartLate == g_threadpool # Null

MayStart == g_threadpool = "open"

Start(r) ==
    /\ MayStart
    /\ Step(r, "queued", "transfer")
    /\ UNCHANGED <<main, java, event, reported, via, sent, pool, inbox, jni, curl,
                   native>>

(* go returns without a callback when libcurl could not create a handle *)
GoInvalid(r) ==
    /\ reported[r] = 0
    /\ Step(r, "transfer", "silent")
    /\ UNCHANGED <<main, java, event, reported, via, sent, pool, inbox, jni, curl,
                   native>>

(* the transfer reports its progress *)
Report(r) ==
    /\ r \in Reporting
    /\ reported[r] < MaxProgress
    /\ Step(r, "transfer", "test")
    /\ event' = [event EXCEPT ![r] = "progress"]
    /\ reported' = [reported EXCEPT ![r] = @ + 1]
    /\ UNCHANGED <<main, java, via, sent, pool, inbox, jni, curl, native>>

(* or ends *)
End(r) ==
    /\ Step(r, "transfer", "test")
    /\ \E e \in Final : event' = [event EXCEPT ![r] = e]
    /\ UNCHANGED <<main, java, reported, via, sent, pool, inbox, jni, curl, native>>

(* mutant: a transfer that failed is tried once more *)
ResumeRetry(r, silent) ==
    IF event[r] \in {"progress", "fail"} THEN "transfer" ELSE
    IF silent THEN "silent" ELSE "done"

(* go continues the transfer or returns *)
Resume(r, silent) ==
    IF event[r] = "progress" THEN "transfer" ELSE IF silent THEN "silent" ELSE "done"

(* GlobalCallBackFunc: the thread is attached and g_obj tested *)
TestRef(r) ==
    /\ Step(r, "test", IF g_obj # 0 THEN "call" ELSE Resume(r, TRUE))
    /\ UNCHANGED <<main, java, event, reported, via, sent, pool, inbox, jni, curl,
                   native>>

(* mutant: a worker's message overtakes the ones posted before *)
PostedAhead(r) == <<[request |-> r, event |-> event[r]]>> \o looper

Posted(r) == Append(looper, [request |-> r, event |-> event[r]])

(* CallVoidMethod: callBack looks the callback up and posts to the main thread *)
CallBack(r) ==
    /\ r \in mCallbackMap
    /\ Step(r, "call", Resume(r, FALSE))
    /\ looper' = Posted(r)
    /\ UNCHANGED <<main, java, event, reported, via, sent, pool, delivered, jni,
                   curl, native>>

(* nobody listens, or the search misses the callback, as it may (see CallbackMap) *)
CallBackNobody(r) ==
    /\ Step(r, "call", Resume(r, TRUE))
    /\ UNCHANGED <<main, java, event, reported, via, sent, pool, inbox, jni, curl,
                   native>>

(* the reference has been deleted: the process may end *)
CallDeleted(r) ==
    /\ ui # "crashed"
    /\ stage[r] = "call"
    /\ g_obj \notin refs
    /\ ui' = "crashed"
    /\ UNCHANGED <<app, current, java, work, inbox, jni, curl, native>>

Worker(r) ==
    \/ Start(r) \/ GoInvalid(r) \/ Report(r) \/ End(r)
    \/ TestRef(r) \/ CallBack(r) \/ CallBackNobody(r) \/ CallDeleted(r)

-------------------------------------------------------------------------------
(* What the main thread has begun it goes on with. *)
Main ==
    \/ Forget \/ UnInit \/ Join \/ Cleanup \/ InitNative \/ DropRef \/ NewRef
    \/ \E r \in Requests : Commit(r)
    \/ CommitCrash
    \/ RunMessage

Next ==
    \/ \E a \in Activities : OnCreate(a) \/ OnDestroy(a)
    \/ InitAgain
    \/ \E r \in Requests, f \in Fields : Call(r, f)
    \/ Main
    \/ \E r \in Requests : Worker(r)

Spec == Init /\ [][Next]_vars

(* The platform schedules the main thread and the workers; a transfer ends by
   its timeout. Users owe nothing. *)
Fairness == WF_vars(Main) /\ \A r \in Requests : WF_vars(Worker(r))

FairSpec == Spec /\ Fairness

-------------------------------------------------------------------------------
(* Every variable has the values its type in the code allows. *)
TypeOK ==
    /\ ui \in Doing /\ next \in {"init", "forget", "again"}
    /\ waiting \subseteq Activities /\ alive \subseteq Activities /\ together \in BOOLEAN
    /\ again \in 0 .. MaxAgain
    /\ field \in [Fields -> Hashes \cup {Null}] /\ used \subseteq Hashes
    /\ current \in Requests \cup {Null}
    /\ stage \in [Requests -> Stages]
    /\ event \in [Requests -> Events]
    /\ reported \in [Requests -> 0 .. MaxProgress]
    /\ via \in [Requests -> Hashes \cup {Null}]
    /\ sent \in [Requests -> {"absent", "empty", "configured"}]
    /\ pool \in [Requests -> Nat]
    /\ mCallbackMap \subseteq Requests
    /\ looper \in Seq([request : Requests, event : Events])
    /\ delivered \in [Requests -> Seq(Events)]
    /\ g_threadpool \in {Null, "open", "closed"} /\ gen \in Nat
    /\ m_request_managers \in [Hashes -> {"absent", "empty", "configured"}]
    /\ g_obj \in Nat /\ refs \subseteq Nat
    /\ initialized \in Nat /\ inits \in Nat

(* A worker inside GlobalCallBackFunc calls through a reference that is valid: uninit
   deletes it only when the workers have been joined. The one exception is an init while
   the library is in use, between DeleteGlobalRef and NewGlobalRef (jni.cpp:88-90), and
   the crash it may lead to. And unInit and init leave no reference behind that nobody
   deletes. *)
RefsAreLive ==
    /\ \A r \in Requests : stage[r] \in {"test", "call"} =>
          \/ g_obj \in refs
          \/ ui \in {"newref", "crashed"} /\ next = "again"
    /\ refs \subseteq {g_obj}

(* While a transfer is under way libcurl is initialised: global cleanup waits
   for the workers of every pool. *)
TransfersInitialised ==
    \A r \in Requests : stage[r] \in Running => initialized > 0

(* The callback of a request is registered before its worker may answer. *)
AnswerRegistered ==
    \A r \in Listening : stage[r] \in Running => r \in mCallbackMap

(* All of this a worker relies on while it runs. *)
WorkersServed == RefsAreLive /\ TransfersInitialised /\ AnswerRegistered

(* A callback is told its progress first and then, once, success or failure:
   nothing overtakes on the way through the main looper, whatever the other
   workers post, and nothing follows an answer that is under way or delivered. *)
ToldInOrder ==
    /\ \A i, j \in DOMAIN looper :
          i < j /\ looper[i].request = looper[j].request => looper[i].event \notin Final
    /\ \A i \in DOMAIN looper : looper[i].event \in Final => stage[looper[i].request] = "done"
    /\ \A r \in Requests : \A i \in DOMAIN delivered[r] :
          delivered[r][i] \in Final =>
             /\ i = Len(delivered[r]) /\ stage[r] = "done"
             /\ \A j \in DOMAIN looper : looper[j].request # r

(* As long as no activity has been created while another was alive, no request
   is committed to a manager that lost its host and certificate when uninit
   deleted it: the Java side forgets its managers, too. *)
SentConfigured == ~together => \A r \in Requests : sent[r] # "empty"

(* ... and none is committed without a pool. *)
RequestsFindTheirPool == ~together /\ ui = "commit" => g_threadpool = "open"

(* So much is certain until two activities are alive together, and no longer. *)
ServedUntilOverlap == SentConfigured /\ RequestsFindTheirPool

(* Every pool is used as TaskExecutor allows, whatever init and uninit do. *)
ExecutorStatus(g) ==
    [r \in Requests |->
        IF pool[r] # g THEN "new" ELSE
        IF stage[r] \in Running THEN "running" ELSE
        IF stage[r] = "silent" THEN "done" ELSE stage[r]]

ExecutorOpen(g) ==
    IF g > gen THEN "open" ELSE
    IF g < gen \/ g_threadpool = Null THEN "terminated" ELSE g_threadpool

Executor(g) == INSTANCE TaskExecutor WITH
                   Tasks <- Requests, status <- ExecutorStatus(g), open <- ExecutorOpen(g)

Pools == 1 .. Cardinality(Activities) + MaxAgain

UsesExecutor ==
    /\ \A g \in Pools : Executor(g)!Init
    /\ [][\A g \in Pools : [Executor(g)!Next]_(Executor(g)!vars)]_vars

(* A caller sees what RequestPromise promises. *)
Answer ==
    [r \in Requests |->
        IF stage[r] = "new" THEN "unasked" ELSE
        IF stage[r] \in {"silent", "dropped"} THEN "lost" ELSE
        IF delivered[r] # <<>> /\ delivered[r][Len(delivered[r])] \in Final
        THEN delivered[r][Len(delivered[r])] ELSE "owed"]

Promise == INSTANCE RequestPromise WITH answer <- Answer

KeepsPromise == Promise!Spec

(* The main thread comes back from the destructor of the pool: the workers it
   waits for never wait for it. *)
UninitReturns == ui = "join" ~> ui \in {"cleanup", "crashed"}

(* A request is settled in the end, unless the process crashes. *)
EventuallySettled ==
    \A r \in Requests :
        Answer[r] = "owed" ~> Answer[r] \in Promise!Settled \/ ui = "crashed"
===============================================================================
