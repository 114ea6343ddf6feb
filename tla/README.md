# A TLA+ model of android-curl

android-curl wraps libcurl for Android applications: Java calls go through JNI to
C++ request managers, which run each HTTP request as a closure on a thread pool and
call back through JNI to the main thread. The difficult part is not HTTP, which is
libcurl's, but what happens between the threads. This directory models that part,
model-checks it with TLC on small instances and proves its main properties with
TLAPS for every value of the constants.

Paths below are relative to `src/`; `cpp/` is `curl_native/src/main/cpp/` and `java/`
is `curl_native/src/main/java/com/github/yutianzuo/curl_native/`.

## Inventory

| Component | State | Operations | What is hard |
|---|---|---|---|
| `stdx::ThreadPool`, `cpp/manager/threadpool.h` | vector of threads, deque of closures, mutex, condition variable, three atomics | constructor, worker loop, `commit`, `set_execute_fifo_lifo`, `quit`, `uninit`, destructor | lost wake-ups, growth during shutdown, throwing closures, failing thread creation |
| `RequestManager`, `cpp/manager/requestmanager.h` | host, certificate, proxy, basic parameters and headers, three deques of cached handles, the static pool and its size | `init`, `uninit`, setters, `get`, `post_form`, `post_json`, `post_file`, `put`, `download`, `get_cached_url`, `add_cache_url` | a handle passes between threads through the deques; what it keeps of its previous request |
| `HttpRequest` and subclasses, `cpp/request/` | easy handle, headers, response buffer, callback, number, time of last use; the document of a put, the file of a download, the parts of a form | setters, `config_curl`, `go`, `write_callback`, `read_callback`, `write_file_callback`, `reuse_url`, `can_reuse` | reset between uses, invalid handles, short buffers, a file closed after its success is reported |
| `HttpManager` (C++), `cpp/manager/httpmanager.h` | singleton, map of request managers | `init`, `uninit`, `get_instance`, `get_request_manager` | order of global cleanup, unsynchronised singleton |
| JNI layer, `cpp/jni.cpp` | `g_jvm`, `g_obj` | `init`, `unInit`, one function per Java method, `GlobalCallBackFunc` | `g_obj` replaced or deleted while workers call back, attaching threads |
| `HttpManager`, `RequestManager` (Java), `java/` | sequence counter, map of callbacks, hash that names the native manager | one method per request, `addCallback`, `callBack` | registration before the answer, map shared by threads, delivery on the main thread |
| `Misc.copyCertFile`, `java/utils/Misc.java` | the certificate file | copy once, in its own thread | a partial copy after a crash, two copiers |
| `BizNetWrapper`, `MainActivity`, `app/` | Java request managers | `init`, `uninit`, the buttons | uninit and init while requests are under way |
| crash handler, `native_crash_handler/` | the previous signal actions | `install`, the handler | double installation |
| `get_url`, string, time, digest utilities | none | pure functions | boundaries: empty path, trailing slash, `?` |

How they interact: the application calls a Java `RequestManager`; it registers the
callback under a fresh number and calls JNI; JNI finds the native `RequestManager` of
the hash; that takes a handle from a cache or makes one, configures it and commits a
closure; a worker performs the transfer and calls `GlobalCallBackFunc`, which calls
Java's `callBack`, which posts to the main thread; then the worker resets the handle
and caches it. Shutdown deletes the pool, which joins the workers, and only then the
managers.

What makes the components correct:

* ThreadPool: a closure is in one place at a time; a queued closure is run unless the
  pool quits; nothing starts after `quit`; the destructor returns, and no thread
  outlives it; the threads stay within the limit.
* RequestManager with HttpRequest: one user per easy handle at a time; a transfer is
  performed with its own request's configuration only; an answer carries its own
  number and body, and comes once or not at all; the caches
  stay within their threshold.
* HttpManager, JNI and the application: a worker calls through a valid reference and
  with libcurl initialised, however often `init` and `unInit` are called, but for the
  moment in which a repeated `init` replaces the reference; `unInit` returns; every
  request is settled; no request is sent without its configuration.
* Callbacks: registered before the answer, found by the worker, progress first, then
  one answer.
* Bodies and files: a put sends its document, a download leaves a whole file and
  reports failures of the disk, an upload sends the file it found.
* Certificate copy: the file that `isFile` takes for complete is complete.
* Crash handler: the platform still gets the signal and the marker is left, except in the
  cases that a second install, a second thread or a file that cannot be opened bring about.
* `get_url`: the URL has everything it was given, once.

## Modules

### TaskExecutor: the abstract specification of the pool

A task is `new`, `queued`, `running`, `done` or `dropped`, the executor `open`,
`closed` or `terminated`. Nothing is accepted or started once it is closed, and it
terminates only when no task is running. RequestCache is written against it, and
ThreadPool is proved to implement it.

### ThreadPool: `cpp/manager/threadpool.h`

The variables have the names of the members (`m_threadfuncs`, `m_mutex`,
`m_atmoic_working_couter`, ...); `worker`, `caller` and `destroyer` are program
counters; `fn` and `arg` are the closures in local variables. An action is what a
thread does between two points where another thread can observe it. The wait of the
condition variable is four steps (predicate, atomic release and sleep, wake-up,
lock), so that a notify can come between any two. `commit` is `CommitCheck` (first
test of the quit sign, no lock), `CommitLock` (lock and second test) and `CommitPush`
(grow, queue, notify, unlock) or `CommitSpawnFails` (`std::thread` throws, and the
`catch` at line 186 loses the closure). The destructor is `QuitStore`, `QuitLock`,
`QuitNotify`, one `JoinNext` per thread and `Destroy`. A throwing closure takes the
`catch` at line 94, which skips the decrement of the counter.

Steps merged, and why that loses nothing: `WorkerFetch` tests the quit sign, takes
the closure and unlocks in one step, because the deque is visible only to the holder
of the mutex; `WorkerDec` includes the end of the iteration, in which the worker
touches only its local closure.

`Destroy` requires that no thread is inside `commit`: C++ gives the destruction of an
object in use no meaning. That the application does so is a matter for the life
cycle of the library, not for the pool.

### RequestCache: `cpp/manager/requestmanager.h`, `cpp/request/request.h`

One request manager and the handles its requests use, on top of an INSTANCE of
TaskExecutor whose tasks are the requests. `stage` says how far each request is,
`held` which handle its `shared_ptr` refers to (it still does after the handle has
been cached, until the closure is destroyed), `handle` the state of every handle,
`pool` the three deques. One call of `get`, `post_form`, ... is `Call`
(`get_cached_url` under its lock, or a new request object), `Configure` (every
setter; the handle is the caller's alone, so they are one step) and `Commit` or
`CommitDrops`. The closure is `Start`, `Perform` or `GoInvalid`, `Callback`,
`ReuseUrl`, `AddCacheUrl` (under the lock) and `Finish`. The application may set
certificate and proxy, call `init` again and `uninit`; the clock may be set to any
value of its range, so it may also go back.

Data is reduced to its origin: the headers, the body, the callback and the number in
a handle are the set of requests they come from. A proxy is one of
`Paths`, and `SetProxy` gives it to libcurl only if its text contains "http"
(`HttpPaths`), as `set_proxy` does: any other leaves the handle without a proxy. What
libcurl does is external: a transfer receives nothing or the answer of its request, and then ends with success or
failure, which call back alike.

`Terminate` requires that no request is between `Call` and `Commit`: uninit and
the requests are calls of one thread in the application. A request after uninit uses
a null pointer in the code; it is excluded by `open # "terminated"` in `Call` and
is what Lifecycle is about. Sizes are positive, as all sizes passed in
the repository are.

### RequestPromise and Lifecycle: `cpp/manager/httpmanager.h`, `cpp/jni.cpp`, `java/`, `app/`

RequestPromise is what a caller may rely on: after the call an answer is owed, then
there is one success, one failure, or the request is lost, and nothing more. Lifecycle
composes the main thread with the workers. `ui` is what the main thread is at: in its
looper, committing a request, or in one of the steps of `unInit` (`UnInit` tells the
pool to quit, `Join` waits for the workers and destroys the queue, `Cleanup` is
`curl_global_cleanup` with the destruction of the managers and of `g_obj`), `init`
(`InitNative`, `DropRef`, `NewRef`) and the application's `Forget`. `OnCreate` and
`OnDestroy` are the activities; the demo uninits before every init, but any other user of
the library may not: `InitAgain` is `HttpManager.Init` while the library is in use, with
workers running. `Call` is a button: it takes the request manager of a
wrapper field, which the first use creates and configures, and registers the callback;
`Commit` is the native call. A worker is `Start`, `GoInvalid`, `Report` and `End`
(progress and the end of the transfer), `TestRef` and `CallBack` (the two halves of
`GlobalCallBackFunc`, between which anything may happen). The call ends in
`CallBackNobody` if nobody listens or the lookup misses the callback (see CallbackMap),
and in `CallDeleted`, the end of the process, if an `InitAgain` has deleted the reference. `RunMessage` is the main
looper. An activity may be created before the previous one is destroyed, which Android
allows and the demo does not exclude; `together` remembers that this has happened,
because two properties hold only until then.

Pools are numbered by `gen`; each is used as TaskExecutor allows (`UsesExecutor`), so
that ThreadPool can stand for it. Native managers are `absent`, `empty` (created by a
lookup of an unknown hash) or `configured`. A committed request takes a closure of the
pool that is open, or none when a thread cannot be created. The requests a worker runs
wait for no one else here; threads are as many as requests.

### CallbackMap: `mCallbackMap` of `java/HttpManager.java`

The main thread puts callbacks into an `android.util.SparseArray` while workers search
it, without synchronisation. SparseArray is external, modelled from its published
algorithm: sorted keys, values and a size, insertion in place or into a larger array,
binary search. Every field keeps all its versions; a worker reads any version since its
own request was committed (that one is certain, through the pool's mutex), each field
and each entry separately: `GetKeys` and `GetSize` read the fields, each `Probe` one
entry of the array (one round of the binary search), `GetValue` the value found. In a
larger array the worker may also see an entry that has not been copied into it yet.
`GetNothing` is the end of a search without result, or the exception of an index beyond
an array. As numbers only grow, an insertion never moves an older entry.

### PutReader: `cpp/request/putrequest.h`

A document is its length, what is sent are positions. `read_callback` has the
arithmetic of the code, which compares the whole length with the buffer. One handle is
reused for put after put, also after a transfer that failed in the middle.

### SharedFile, FileDownload: `cpp/request/downloadrequest.h`

SharedFile is the abstract specification of several writers of one file, each of which
truncates it when it opens it and then writes through a descriptor of its own.
FileDownload has any number of downloads into one path: `Open` in the main thread when
the request is made, `Write` by a worker (the stream may flush or buffer, and may go
bad, which the code notices with the next piece only), the final callback, and `Close`
in the destructor after it. `SizeBits` is the width of `size_t`, on which the
comparison of a piece with an unknown Content-Length (-1) depends.

### CertCopy: `java/utils/Misc.java`

Each Init that does not find the certificate file starts a copier, a thread with the
steps of the code (open the asset, create the file, copy pieces, close); an exception or
the death of the process may come between any two. The file survives the process.

### FileUpload, CertUpload: `cpp/request/postfilerequest.h`

FileUpload is a `post_file`: the file is opened and measured when the request is made,
and read by a worker in pieces of any size, while others may change it; a short read,
a read at the end and a file that has become shorter go through the states of the
`ifstream`. CertUpload composes it with CertCopy, because the demo uploads the very file
that copiers may still be writing; when the process is killed, its uploads are, too.

### CrashHandler: `native_crash_handler/`

`Install` clears the path, `SetPath` stores it, and for every signal `CatchSet` makes
the handler active and `CatchStore` keeps the previous action; a signal may arrive at
any point, and several threads may have one, also the same (`Raise`). A thread with a
signal takes the kernel's action (`Arrive`, which resets ours, SA_RESETHAND), leaves the
marker (`Open`, which may fail unnoticed) and calls the previous action (`Chain`); a
fault is repeated when the handlers return. While one thread is in our handler another
with the same signal finds the default action, and ends the process under it. A thread has
one signal at a time: a second one that interrupts the handler in the same thread is not
modelled.

### UrlText: `get_url` of `cpp/manager/requestmanager.h`, `gen_map` of `cpp/jni.cpp`

Texts are sequences of characters, maps are functions visited in the order of the keys.
`get_url` is translated step by step; `UrlAsGiven` says what a reader of its arguments
expects: the resource with single slashes, then the parameters joined with `&`, each at
its place (`Places`, `Key`, `Value`), the request's before the manager's. Lists from Java have
no null entries in the model; `gen_map` skips a pair that has one.

## Runs

| Run | Instance | What it shows |
|---|---|---|
| `pool_safety` | 3 closures, 2 callers, 1 thread at the start, maximum 4 clamped to 3, 1 spurious wake-up | types; `OnePlace`, `NoLostWakeup`, `CounterExact`, `NoWorkerOutlivesPool`, `JoinStable`; the refinement `ExecutorSpec`; `EventuallyRuns`, `DestructorReturns` |
| `cache_exclusive` | 2 get requests and an upload, 3 handles, caches of 1 or 2, two clock values, `init` called twice | `ExclusiveHandle`, `OwnAnswer`, `GrowsWithinSize` |
| `cache_config` | a form and a JSON post in one deque, 2 handles, certificate and proxy set and set back, with a proxy that contains "http" and one that does not | `ConfigOfRequest`; the refinement `KeepsPromise` |
| `cache_reinit` | 3 get requests, `init` called again with a smaller size | that `BoundWhenAdded` is violated |
| `life` | 2 requests, one with a callback and progress, 2 activities in any order, 2 hashes, an init without an uninit at any time | `WorkersServed` (a worker's reference, libcurl and callback are there), `ServedUntilOverlap` (every request finds its manager and pool), `ToldInOrder`; the refinements `KeepsPromise` and `UsesExecutor`; `UninitReturns`, `EventuallySettled` |
| `map_lookup` | 4 callbacks, arrays that grow at the fourth | `NeverAnothers`, `LostOnlyAmongMany` |
| `put_body` | documents of 0 to 9 bytes, buffers of 1 to 4 | `SendsDocument` (`InOrder`, `WholeWhenSent`, `OverrunOnlyInPieces`); `Terminates` |
| `put_fread` | the same | that `NothingBeyond` is violated |
| `down_file` | 2 downloads of 2 bytes, 64 bit, lengths unknown, exact and too short | `LastIsWhole`, `SuccessMeans` (`NoticedInTime`, `FullBeforeSuccess`); the refinement `KeepsFile`; `FileIsClosed` |
| `cert_file` | 2 copiers of 3 pieces, 1 upload | `WholeOrFailed`, `SendsCertificates` (`WholeUpload`, `ZerosByTwo`); the refinement `KeepsFile`; `WholeForGood`, `UploadEnds` |
| `crash_chain` | 2 threads, 2 installs, 3 signals: a fault that is reported, one ignored, one without action | `ReportedUnlessRaced`, `MarkedByFirst`, `OverflowOnlyOverItself`; `SignalEnds` |
| `url_text` | 2 hosts, 9 paths with slashes and question marks, 2 keys, 2 values (empty or a question mark), lists of up to 2 | `UrlAsGiven` |

Types are checked by the run of the pool, and proved of every module, as is
the bound of the caches (`CacheBound`). `WorkersServed` is the conjunction of `RefsAreLive`,
`TransfersInitialised` and `AnswerRegistered`, `ServedUntilOverlap` that of
`SentConfigured` and `RequestsFindTheirPool`.

Bounds. Three closures and three workers let one worker sleep, one run and one fetch
while a commit is in progress and another waits for the mutex; with one thread at the
start, the first commits create the others. Two requests on one deque are the least in
which one handle is handed over while another is in use, and the third uses none; two
are enough for what a handle keeps of its previous request, which is always its last
user. Two clock values with a life time of one make a handle expire, and the step
back from 1 to 0 is the clock being set back. `MaxSpurious` bounds wake-ups without
notify; a spurious wake-up only repeats the predicate, and the proofs hold for every
bound. Handles are as many as requests, so that a free one can always be created.

Two activities are enough for every order of their `init` and `uninit`, and one init
without an uninit (`MaxAgain`) meets the workers at every step; two requests let one be
queued or dropped while the other calls back and the main thread joins. In CallbackMap
four registrations with room for three are the least in which a search may miss its
number in either way: two later entries in the same arrays, or one later entry in arrays
that it has made grow. Documents up to twice the largest buffer and one more meet every
remainder. Two downloads, and two copiers, give every order of truncating and writing;
two bytes, or three pieces, have a first, a middle and a last. Two installs let the
handler meet itself, and two threads let one find what the other has left.
`MaxProgress`, `MaxAgain`, `MaxInstalls`, `MaxParams` and the numbers of activities,
threads, copiers, downloads and uploads are the bounds of the other modules; the proofs
hold for every value of all of them.

Fairness. `FairSpec` of ThreadPool gives weak fairness to every worker, to every
thread inside `commit` and to the destructor: the platform schedules every runnable
thread, and every transfer has a timeout (15 s, 600 s for a download), so a closure
ends. Weak fairness suffices for the mutex because every critical section ends and
the number of commits is bounded. Nobody is obliged to call `commit` or the
destructor, thread creation need not fail and closures need not throw. Of RequestCache
only safety is checked: a caller and a worker go straight through their steps there and
wait for nobody, that a queued closure is started is what `EventuallyRuns` shows of the
pool, and that every request is settled what `EventuallySettled` shows of Lifecycle.

Lifecycle: weak fairness for what the main thread has begun and for each worker; a
worker's transfer ends by its timeout. Users owe nothing. PutReader and FileUpload:
libcurl goes on asking for the body of a transfer that has not failed, and network
failures are not owed. FileDownload: workers take what is queued and go on (that they do
is `EventuallyRuns` of ThreadPool). CertCopy: a thread that was started goes on until it
ends, fails or is killed. CrashHandler: every thread with a signal goes on, and a recursion
without end exhausts the stack.

Deadlock is checked in the runs of ThreadPool, RequestCache, CallbackMap, PutReader and
UrlText, with `Terminated` as the state in which the first and third may stop. The
others may stop: all activities may be destroyed or the process crash (`life`), all
downloads, copiers and uploads have ended (`down_file`, `cert_file`), the process has
ended (`crash_chain`). That nothing stops too early is what their liveness properties
say.

## Divergences

* `cache_reinit`: the comment at `cpp/manager/requestmanager.h:22` gives the size passed
  in as the threshold of each cache. `init` stores a new size also when the pool exists
  (line 38), while `add_cache_url` removes at most one handle per handle added (lines
  430-434). After `init(2)`, two cached handles and `init(1)`, the cache keeps two.
* `put_fread`: `curl.h` gives the read function the rules of `fread`. `read_callback`
  compares the whole document with the buffer, so a document that needs more than one
  buffer is followed by bytes from behind it. `OverrunOnlyInPieces` says exactly when and
  how much: documents that fit into the buffer are sent exactly.

Two more, which no run is devoted to. `curl.h` asks for one `curl_global_cleanup` per
application, and `httpmanager.h` wants `uninit` when the application exits; but every
activity uninits before it inits and again when it is destroyed. No transfer suffers
from the cleanups (`TransfersInitialised`: libcurl's count stops at zero, and a cleanup
comes after the join). With a second activity created before the first is destroyed,
however, the first one's `onDestroy` leaves the second without a pool, and its next
request dereferences a null pointer: `CommitCrash`, which fires in `life`.
`RequestsFindTheirPool` says that this is the only way to it.

## Proofs

Eight modules hold the proofs: `ThreadPoolProofs`, `RequestCacheProofs`,
`LifecycleProofs`, `CallbackMapProofs`, `RequestTextProofs` (of PutReader and UrlText),
`FileDownloadProofs`, `CertProofs` (of CertCopy and CertUpload) and
`CrashHandlerProofs`. Each proves the type invariant of its
module and the safety properties its runs check, for every value of the constants,
from the named assumptions of its module only; each has an `IInv` that is the
conjunction of named parts, with one step per action.

ThreadPool. The properties are not inductive by themselves. `IInv` adds who holds the
mutex (`LockInv`), where a thread has a closure in a local variable (`HandsInv`),
what the predicate of the wait has established (`WaitInv`), that after the destructor
has had the mutex no commit is past its second test (`QuitInv`) and which threads
exist and have been joined (`JoinInv`). `NoLostWakeup` is a count: as many workers
are on their way to the deque as closures are in it, or nobody sleeps; each action
changes both sides by at most one. `ImplementsExecutor` maps every step of the pool
to a step of TaskExecutor or to none; the pool counts as closed from the moment the
destructor holds the mutex, because a worker that has already tested the quit sign
may still start a closure after the sign is stored.

RequestCache. `IInv` adds what a stage means for `held` and the executor's status
(`StageInv`), that cached handles and handles just taken are clean (`CleanInv`) and
what a configured handle holds up to the callback (`AnswerInv`). The argument is
exclusiveness: a step changes only the handle of its own request, which no other
request uses and no deque holds (`OnlyItsOwn`), so that `reuse_url` before caching
and the setters after taking determine the handle. `CachesAreBounded` speaks of the time
before a second `init`: afterwards the bound is false, as `cache_reinit` shows. What
remains true is `CachesGrowWithinSize`. `ImplementsPromise` maps a request to what its
caller knows: it is owed from `Call` to `Callback`, where `AnswerInv` says that the
handle's callback is that of the worker's own request and has not been used yet; a
dropped commit, an invalid handle and the destruction of the queue are the losses.

Lifecycle. `IInv` adds what a pool means for its workers (a worker runs only while the
pool exists, and the main thread passes `Join` only when none does), how `g_obj` and
the valid references follow `ui`, and that libcurl's count is positive outside
`unInit` and `init` whenever there is a pool. That is the argument for unInit: the
join separates every worker from every deletion in it. An init while the library is in
use has no join: `RefInv` says that the reference of a worker is invalid only between
`DropRef` and `NewRef` of such an init, or if the process has ended there. `ToldInOrder` needs that a request
has at most one final message, posted when its stage became `done`, and none behind
it. `ConfigurationKept` and `PoolThere` rest on an invariant of the steps up to the
first overlap (`DemoInv`): after it the second is false. `ImplementsPromise` maps each
request to what its caller knows, and the destruction of the queue to `LoseAll`;
`PoolsAreExecutors` maps every pool ever created to a TaskExecutor of its own, open
before its time and terminated after it.

CallbackMap. `IInv` says what each of the versions holds: version v of the keys has the
numbers 1 to v - 1 in this order, and the values their requests, so a version differs
from an earlier one only behind the latter's end (`KeysInv`, `ValuesInv`, `LengthInv`).
What a worker reads at or below the index of its own entry is therefore the same in all
versions it may see. While at most one request has been registered since its own, in the
same arrays, `SearchInv` keeps that index between `lo` and `hi` and `hi` at most one
above it, so that no probe goes behind it; that is `SingleLaterIsHarmless`.
Whatever is found has the number looked for, so its value is the worker's own
(`NobodyGetsAnothers`).

PutReader. The offset is what has been sent while it is inside the document, and a
piece that goes beyond comes only after one that did not reach the end.

UrlText. `UrlInv` says that the last URL is `get_url` of what has been given. That this
is what a reader expects is a statement about data of any length, and is proved by
induction over it: the library's induction theorems cannot be instantiated, but
`SetInduction` states induction for a set in place of a predicate and follows from the
well-foundedness of `<`. With it `Flattened` gives the prefixes of a `FlattenSeq`, and
`Separators` shows that items followed by a separator each differ by the last one from
items with separators in between. What the two loops append is of the first kind
(`WrittenBoth`), what a reader expects of the second (`JoinedPrefixes`); get_url takes the
last `&` off, and the question mark only where nothing follows it (`NothingGiven`,
`SomethingGiven`).

FileDownload and CertCopy. The heart is one invariant about whoever opened the file
last: nobody has truncated the file since, so what that writer has written is in it;
other writers can only add. From it follow `LastIsWhole` and `WholeOrFailed`, whatever
the others do. Both modules are proved to implement SharedFile.

CertUpload. Its proof uses the invariant of CertCopy as it is. A file that exists
while nobody copies it is never opened by a copier again, because every Init finds it;
so it is whole and unchanged for the rest of an upload's life. A single copier leaves a
beginning of the asset, so an upload finds zeros only between two.

CrashHandler. While there has been one install, `old_sa` of every signal whose handler
is ours holds what the platform had, except of the one that is being stored; and a signal
that the platform handled has the default action, while the process lives, only as long as
a thread is in our handler with it, or after the race with install (`ChainInv`). These are
the two exceptions of `ReportedUnlessRaced`. Until a thread has opened the marker, or has
failed to, a thread is at `Open` (`MarkInv`).

Only model-checked: liveness (`EventuallyRuns`, `DestructorReturns`,
`UninitReturns`, `EventuallySettled`, `Terminates`,
`FileIsClosed`, `WholeForGood`, `UploadEnds`, `SignalEnds`), which fairness puts out of
the prover's reach, and the divergences. Every safety property that a run checks is
also proved.

## Not modelled

* The form and JSON parts of a `post_file`, basic headers, timeouts and other options
  that are the same for every request: they are handed to libcurl, which is external.
* `manual_lock` and `manual_unlock`, `deleteFile`, `unZipFolder`: nothing in `src/` calls
  them. `sha.h` and `aes_cbc.h` are stubs whose JNI functions return constants;
  `string_x.h` and `miscs.h` have no state and, but for single helpers, no caller.
* Logging, the user interface, the conversion of strings between Java and C++, the
  generated tests (`2 + 2 = 4`).
* The headers under `cpp/include/` (libcurl, OpenSSL, mbedtls) and the libraries: vendored,
  nearly all of the repository's 87000 lines of code. What the code relies on of them is
  modelled as external.

What could be added: RequestCache and Lifecycle in one module, where handles outlive
their manager; the age of handles when the clock is set back, as a statement about
delay.
