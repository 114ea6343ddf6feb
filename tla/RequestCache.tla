----------------------------- MODULE RequestCache -----------------------------
(***************************************************************************)
(* RequestManager (curl_native/src/main/cpp/manager/requestmanager.h) and  *)
(* the request objects it hands out (curl_native/src/main/cpp/request/): a *)
(* caller takes a curl handle from a cache or creates one, configures it   *)
(* and commits a closure; a worker of the thread pool performs the         *)
(* transfer, calls back, resets the handle and puts it into the cache,     *)
(* from where another caller may take it at once.                          *)
(*                                                                         *)
(* The thread pool is TaskExecutor, which ThreadPool is proved to          *)
(* implement; a request is the task that carries it. libcurl is external:  *)
(* a transfer answers with data of its own request, or fails.              *)
(***************************************************************************)
EXTENDS Naturals, Sequences, FiniteSets

CONSTANTS
    Requests,           \* the calls of get, post_form, ... and download
    Kind,               \* which of these each request is
    Handles,            \* HttpRequest objects, each with its easy handle
    NoHandle,           \* a null shared_ptr
    Paths, NoPath,      \* values of the certificate and of the proxy path
    HttpPaths,          \* those that contain "http"
    Sizes,              \* the arguments of init
    HTTPALIVE_TIME,     \* how long a cached handle may be reused
    MaxTime,            \* bound of the model: the clock's values
    MaxInit             \* bound of the model: calls of init

Pools == {"get", "post", "put"}
Cached == [get |-> "get", post_form |-> "post", post_json |-> "post", put |-> "put"]
Kinds == DOMAIN Cached \cup {"post_file", "download"}

ASSUME CacheAssumption ==
    /\ Kind \in [Requests -> Kinds]
    /\ NoHandle \notin Handles
    /\ NoPath \notin Paths /\ HttpPaths \subseteq Paths
    /\ Sizes \subseteq Nat \ {0} /\ Sizes # {}
    /\ HTTPALIVE_TIME \in Nat /\ MaxTime \in Nat /\ MaxInit \in Nat

VARIABLES
    status, open,               \* the thread pool
    stage,                      \* how far each request is
    held,                       \* the handle its closure refers to
    handle,                     \* the state of every handle
    pool,                       \* the three deques of cached handles
    m_cert_path, m_proxy_path,  \* the manager's configuration
    POOL_SIZE,
    now,                        \* the system clock
    inits,                      \* calls of init so far
    asked,                      \* history: the configuration at the call
    answers                     \* history: what was called back

executor == <<status, open>>
config == <<m_cert_path, m_proxy_path>>
global == <<POOL_SIZE, now, inits>>
vars == <<executor, stage, held, handle, pool, config, global, asked, answers>>

Executor == INSTANCE TaskExecutor WITH Tasks <- Requests

Cacheable(r) == Kind[r] \in DOMAIN Cached
PoolOf(r) == Cached[Kind[r]]

Stages == {"new", "configure", "commit", "queued", "go", "callback", "reuse",
           "add", "end", "gone"}
Handle == [valid : BOOLEAN,             \* curl_easy_init has succeeded
           headers : SUBSET Requests,   \* whose headers are in m_headers
           m_buffer : SUBSET Requests,  \* whose response data
           seq : SUBSET Requests,       \* m_request_seq and m_callback
           json : BOOLEAN,              \* ~ m_form_or_json
           m_cert_path : Paths \cup {NoPath},
           cainfo : Paths \cup {NoPath},    \* CURLOPT_CAINFO
           proxy : Paths \cup {NoPath},     \* CURLOPT_PROXY
           time : 0 .. MaxTime]             \* m_url_reuse_time
Answer == [by : Requests, body : SUBSET Requests]

Elements(s) == {s[i] : i \in DOMAIN s}
Pooled(h) == \E p \in Pools : h \in Elements(pool[p])
(* no shared_ptr refers to it: the object does not exist *)
Free(h) == ~ Pooled(h) /\ \A r \in Requests : held[r] # h

(* the constructor of a request object *)
NewHandle(valid) ==
    [valid |-> valid, headers |-> {}, m_buffer |-> {}, seq |-> {},
     json |-> FALSE, m_cert_path |-> NoPath, cainfo |-> NoPath,
     proxy |-> NoPath, time |-> 0]

Init ==
    /\ Executor!Init
    /\ stage = [r \in Requests |-> "new"]
    /\ held = [r \in Requests |-> NoHandle]
    /\ handle = [h \in Handles |-> NewHandle(TRUE)]
    /\ pool = [p \in Pools |-> <<>>]
    /\ m_cert_path = NoPath /\ m_proxy_path = NoPath
    /\ POOL_SIZE \in Sizes
    /\ now = 0
    /\ inits = 1
    /\ asked = [r \in Requests |-> [cert |-> NoPath, proxy |-> NoPath]]
    /\ answers = [r \in Requests |-> <<>>]

Goto(r, from, to) ==
    /\ stage[r] = from
    /\ stage' = [stage EXCEPT ![r] = to]

-------------------------------------------------------------------------------
(* The thread that calls get, post_form, ... *)

can_reuse(h) ==
    /\ handle[h].valid
    /\ now < handle[h].time + HTTPALIVE_TIME

(* get_cached_url, with m_pool_lock held: handles that cannot be reused are
   dropped from the front until one can, or none is left *)
FirstReusable(s, i) ==
    /\ i <= Len(s) => can_reuse(s[i])
    /\ \A j \in 1 .. i - 1 : ~ can_reuse(s[j])

(* make_shared: curl_easy_init may fail *)
MakeRequest(r) ==
    \E h \in Handles, valid \in BOOLEAN :
        /\ Free(h)
        /\ held' = [held EXCEPT ![r] = h]
        /\ handle' = [handle EXCEPT ![h] = NewHandle(valid)]

(* mutant: the handle stays in the deque *)
GetCachedKeeps(r) ==
    /\ Cacheable(r)
    /\ LET s == pool[PoolOf(r)]
       IN  \E i \in 1 .. Len(s) + 1 :
              /\ FirstReusable(s, i)
              /\ pool' = [pool EXCEPT ![PoolOf(r)] = SubSeq(s, i, Len(s))]
              /\ IF i <= Len(s)
                 THEN held' = [held EXCEPT ![r] = s[i]] /\ UNCHANGED handle
                 ELSE MakeRequest(r)

GetCached(r) ==
    /\ Cacheable(r)
    /\ LET s == pool[PoolOf(r)]
       IN  \E i \in 1 .. Len(s) + 1 :
              /\ FirstReusable(s, i)
              /\ pool' = [pool EXCEPT ![PoolOf(r)] = SubSeq(s, i + 1, Len(s))]
              /\ IF i <= Len(s)
                 THEN held' = [held EXCEPT ![r] = s[i]] /\ UNCHANGED handle
                 ELSE MakeRequest(r)

(* post_file and download always create their request *)
MakeUncached(r) ==
    /\ ~ Cacheable(r)
    /\ MakeRequest(r)
    /\ UNCHANGED pool

Call(r) ==
    /\ open # "terminated"
    /\ Goto(r, "new", "configure")
    /\ GetCached(r) \/ MakeUncached(r)
    /\ UNCHANGED <<executor, config, global, asked, answers>>

Or(path, other) == IF path = NoPath THEN other ELSE path

(* set_proxy: a proxy without "http" in it is kept, but not given to libcurl *)
SetProxy(path, other) == IF path \in HttpPaths THEN path ELSE other

(* mutant: set_url does not clear m_buffer *)
ConfiguredUncleared(h, r) ==
    LET old == handle[h]
    IN  [old EXCEPT
            !.headers = IF old.valid THEN @ \cup {r} ELSE @,
            !.seq = {r},
            !.json = Kind[r] = "post_json",
            !.m_cert_path = m_cert_path,
            !.proxy = IF old.valid THEN SetProxy(m_proxy_path, @) ELSE @]

(* mutant: set_callback adds to the callbacks of earlier requests *)
ConfiguredAdding(h, r) ==
    LET old == handle[h]
    IN  [old EXCEPT
            !.headers = IF old.valid THEN @ \cup {r} ELSE @,
            !.m_buffer = IF old.valid THEN {} ELSE @,
            !.seq = @ \cup {r},
            !.json = Kind[r] = "post_json",
            !.m_cert_path = m_cert_path,
            !.proxy = IF old.valid THEN SetProxy(m_proxy_path, @) ELSE @]

(* inner_add_headers, set_form_or_json, set_url, set_proxy, set_cert,
   set_callback and set_request_seq, in the order of the calls: set_url uses
   the certificate of the handle's previous request, set_cert the manager's *)
Configured(h, r) ==
    LET old == handle[h]
        ca == Or(m_cert_path, Or(old.m_cert_path, old.cainfo))
    IN  [valid |-> old.valid,
         headers |-> IF old.valid THEN old.headers \cup {r} ELSE old.headers,
         m_buffer |-> IF old.valid THEN {} ELSE old.m_buffer,
         seq |-> {r},
         json |-> Kind[r] = "post_json",
         m_cert_path |-> m_cert_path,
         cainfo |-> IF old.valid THEN ca ELSE old.cainfo,
         proxy |-> IF old.valid THEN SetProxy(m_proxy_path, old.proxy) ELSE old.proxy,
         time |-> old.time]

Configure(r) ==
    /\ Goto(r, "configure", "commit")
    /\ handle' = [handle EXCEPT ![held[r]] = Configured(held[r], r)]
    /\ asked' = [asked EXCEPT ![r] = [cert |-> m_cert_path, proxy |-> m_proxy_path]]
    /\ UNCHANGED <<executor, held, pool, config, global, answers>>

(* g_threadpool->commit takes the closure *)
Commit(r) ==
    /\ Goto(r, "commit", "queued")
    /\ Executor!Submit(r)
    /\ UNCHANGED <<held, handle, pool, config, global, asked, answers>>

(* or drops it, and with it the last reference to the handle *)
CommitDrops(r) ==
    /\ Goto(r, "commit", "gone")
    /\ Executor!Drop(r)
    /\ held' = [held EXCEPT ![r] = NoHandle]
    /\ UNCHANGED <<handle, pool, config, global, asked, answers>>

-------------------------------------------------------------------------------
(* The worker that runs the closure. *)

Start(r) ==
    /\ Goto(r, "queued", "go")
    /\ Executor!Start(r)
    /\ UNCHANGED <<held, handle, pool, config, global, asked, answers>>

AfterGo(r) == IF Cacheable(r) THEN "reuse" ELSE "end"

(* go: an invalid handle returns without a callback *)
GoInvalid(r) ==
    /\ Goto(r, "go", AfterGo(r))
    /\ ~ handle[held[r]].valid
    /\ UNCHANGED <<executor, held, handle, pool, config, global, asked, answers>>

(* write_callback appends what has been received *)
Received(h, data) == [handle[h] EXCEPT !.m_buffer = @ \cup data]

(* curl_easy_perform, which succeeds or fails after any part of the answer *)
Perform(r) ==
    /\ Goto(r, "go", "callback")
    /\ handle[held[r]].valid
    /\ \E data \in {{}, {r}} :
          handle' = [handle EXCEPT ![held[r]] = Received(held[r], data)]
    /\ UNCHANGED <<executor, held, pool, config, global, asked, answers>>

(* m_callback, with the data received, whether or not the transfer failed *)
Callback(r) ==
    /\ Goto(r, "callback", AfterGo(r))
    /\ LET h == handle[held[r]]
       IN  answers' = [q \in Requests |->
              IF q \in h.seq THEN Append(answers[q], [by |-> r, body |-> h.m_buffer])
                             ELSE answers[q]]
    /\ UNCHANGED <<executor, held, handle, pool, config, global, asked>>

(* mutant: reuse_url does not reset the easy handle *)
reuse_urlNoReset(h) == [handle[h] EXCEPT !.headers = {}, !.time = now]

(* reuse_url: clear_headers, curl_easy_reset and the time of the clock *)
reuse_url(h) ==
    LET old == handle[h]
    IN  [old EXCEPT !.headers = {},
                    !.cainfo = IF old.valid THEN NoPath ELSE @,
                    !.proxy = IF old.valid THEN NoPath ELSE @,
                    !.time = now]

ReuseUrl(r) ==
    /\ Goto(r, "reuse", "add")
    /\ handle' = [handle EXCEPT ![held[r]] = reuse_url(held[r])]
    /\ UNCHANGED <<executor, held, pool, config, global, asked, answers>>

(* mutant: an off-by-one in the comparison with the threshold *)
WithRoomForOneMore(s) == IF Len(s) > POOL_SIZE THEN SubSeq(s, 1, Len(s) - 1) ELSE s

(* add_cache_url, with m_pool_lock held: a full pool first loses its oldest *)
WithRoom(s) == IF Len(s) >= POOL_SIZE THEN SubSeq(s, 1, Len(s) - 1) ELSE s

AddCacheUrl(r) ==
    /\ Goto(r, "add", "end")
    /\ pool' = [pool EXCEPT ![PoolOf(r)] = <<held[r]>> \o WithRoom(@)]
    /\ UNCHANGED <<executor, held, handle, config, global, asked, answers>>

(* the closure is destroyed, and with it its reference to the handle *)
Finish(r) ==
    /\ Goto(r, "end", "gone")
    /\ Executor!Finish(r)
    /\ held' = [held EXCEPT ![r] = NoHandle]
    /\ UNCHANGED <<handle, pool, config, global, asked, answers>>

-------------------------------------------------------------------------------
(* The application and the clock. *)

SetCertPath ==
    /\ m_cert_path' \in Paths \cup {NoPath}
    /\ UNCHANGED <<executor, stage, held, handle, pool, m_proxy_path, global,
                   asked, answers>>

SetProxyPath ==
    /\ m_proxy_path' \in Paths \cup {NoPath}
    /\ UNCHANGED <<executor, stage, held, handle, pool, m_cert_path, global,
                   asked, answers>>

(* init of a running manager only changes the size of the caches *)
Reinit ==
    /\ open = "open"
    /\ inits < MaxInit
    /\ inits' = inits + 1
    /\ POOL_SIZE' \in Sizes
    /\ UNCHANGED <<executor, stage, held, handle, pool, config, now, asked, answers>>

(* The system clock advances, and can be set back. *)
Clock ==
    /\ now' \in 0 .. MaxTime
    /\ UNCHANGED <<executor, stage, held, handle, pool, config, POOL_SIZE, inits,
                   asked, answers>>

(* uninit: the pool is told to quit *)
Close ==
    /\ Executor!Close
    /\ UNCHANGED <<stage, held, handle, pool, config, global, asked, answers>>

(* and is gone: queued closures are destroyed without having run, and the
   manager with its caches *)
Terminate ==
    /\ Executor!Terminate
    /\ \A r \in Requests : stage[r] \notin {"configure", "commit"}
    /\ stage' = [r \in Requests |-> IF stage[r] = "queued" THEN "gone" ELSE stage[r]]
    /\ held' = [r \in Requests |-> NoHandle]
    /\ pool' = [p \in Pools |-> <<>>]
    /\ UNCHANGED <<handle, config, global, asked, answers>>

Caller(r) == Configure(r) \/ Commit(r) \/ CommitDrops(r)

Worker(r) ==
    \/ Start(r) \/ GoInvalid(r) \/ Perform(r) \/ Callback(r)
    \/ ReuseUrl(r) \/ AddCacheUrl(r) \/ Finish(r)

Next ==
    \/ \E r \in Requests : Call(r) \/ Caller(r) \/ Worker(r)
    \/ SetCertPath \/ SetProxyPath \/ Reinit \/ Clock
    \/ Close \/ Terminate

Spec == Init /\ [][Next]_vars

-------------------------------------------------------------------------------
(* Properties *)

(* the part of a request's life in which it may touch its handle *)
Using(r) == stage[r] \in Stages \ {"new", "end", "gone"}

(* Every variable holds a value of its type. *)
TypeOK ==
    /\ Executor!TypeOK
    /\ stage \in [Requests -> Stages]
    /\ held \in [Requests -> Handles \cup {NoHandle}]
    /\ handle \in [Handles -> Handle]
    /\ pool \in [Pools -> Seq(Handles)]
    /\ m_cert_path \in Paths \cup {NoPath} /\ m_proxy_path \in Paths \cup {NoPath}
    /\ POOL_SIZE \in Sizes
    /\ now \in 0 .. MaxTime
    /\ inits \in Nat
    /\ asked \in [Requests -> [cert : Paths \cup {NoPath}, proxy : Paths \cup {NoPath}]]
    /\ answers \in [Requests -> Seq(Answer)]

NoHandleTwice ==
    \A p, q \in Pools : \A i \in DOMAIN pool[p], j \in DOMAIN pool[q] :
        pool[p][i] = pool[q][j] => p = q /\ i = j

(* A handle has one user: libcurl allows no two threads in one easy handle.
   From get_cached_url until it is back in a deque no other request has it, and
   no deque has it twice, although the closure keeps its shared_ptr after
   add_cache_url (requestmanager.h:95-117, 392-436). *)
ExclusiveHandle ==
    /\ \A q, r \in Requests : Using(q) /\ Using(r) /\ held[q] = held[r] => q = r
    /\ \A r \in Requests : Using(r) => ~ Pooled(held[r])
    /\ NoHandleTwice

(* What a transfer is performed with is the configuration of its own request,
   whatever the requests that used the handle before: its headers only, its
   kind of body, the manager's certificate if there is one, and the manager's
   proxy if it contains "http": with any other proxy the request goes without
   one, not through that of the handle's previous request. A certificate path
   that has been set back to empty does not count: the handle keeps the one of
   its previous request (request.h:98-120, 130-209). *)
ConfigOfRequest ==
    \A r \in Requests : stage[r] \in {"commit", "queued", "go"} =>
        LET h == handle[held[r]]
        IN  h.valid =>
              /\ h.headers = {r} /\ h.seq = {r}
              /\ h.json = (Kind[r] = "post_json")
              /\ h.proxy = IF asked[r].proxy \in HttpPaths THEN asked[r].proxy ELSE NoPath
              /\ asked[r].cert # NoPath => h.cainfo = asked[r].cert

(* A request is answered at most once, with its own number and nothing of the
   response of a request that used the handle before it
   (request.h:150, 237-266, 312-313). *)
OwnAnswer ==
    \A r \in Requests :
        /\ Len(answers[r]) <= 1
        /\ \A i \in DOMAIN answers[r] :
              answers[r][i].by = r /\ answers[r][i].body \subseteq {r}

(* The documented threshold of each cache, requestmanager.h:22: not more handles
   than the size given to init, while that is called once
   (requestmanager.h:38, 423-436). *)
CacheBound == inits = 1 => \A p \in Pools : Len(pool[p]) <= POOL_SIZE

(* However often init is called, a cache grows only within the size of that moment:
   one above the threshold, because the size has been made smaller, stays at most as
   large as it is (requestmanager.h:36-43, 399-421, 430-434). *)
GrowsWithinSize ==
    [][\A p \in Pools : Len(pool'[p]) > Len(pool[p]) => Len(pool'[p]) <= POOL_SIZE]_vars

(* The same threshold at the moment a handle is added, when init may have been
   called again with a smaller size (requestmanager.h:36-43, 430-434). *)
BoundWhenAdded ==
    [][\A r \in Requests :
         AddCacheUrl(r) => Len(pool'[PoolOf(r)]) <= POOL_SIZE]_vars

(* What the caller of r knows. An answer is a success here, whatever it says. *)
Outcome(r) ==
    IF stage[r] = "new" THEN "unasked"
    ELSE IF answers[r] = <<>>
         THEN IF stage[r] \in {"configure", "commit", "queued", "go", "callback"}
              THEN "owed" ELSE "lost"
         ELSE IF Len(answers[r]) = 1 THEN "success" ELSE "answered again"

Answered == [r \in Requests |-> Outcome(r)]

Promise == INSTANCE RequestPromise WITH answer <- Answered

(* The caches keep what the library promises about one callback: it is owed from the
   call on, given once by the worker of its own request or lost for good, although a
   handle goes from one request to the next with what it remembers of the last
   (request.h:237-266, requestmanager.h:95-118, 392-436). *)
KeepsPromise == Promise!Spec
===============================================================================
