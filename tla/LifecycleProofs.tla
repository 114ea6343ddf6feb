---------------------------- MODULE LifecycleProofs ----------------------------
(***************************************************************************)
(* Proofs about Lifecycle, for any number of activities, requests, fields  *)
(* and hashes. That unInit is safe rests on what the join establishes:     *)
(* without a pool no request is on its way (PoolInv), and the references   *)
(* and the initialisation of libcurl outlast every pool (RefInv, CurlInv). *)
(***************************************************************************)
EXTENDS Lifecycle, SequenceTheorems, TLAPS

(* What the main thread is doing, and the pool: without one, nothing is queued
   or running. *)
PoolInv ==
    /\ ui = "commit" => current \in Requests /\ via[current] \in Hashes
    /\ ui = "commit" => stage[current] = "commit"
    /\ ui = "join" <=> g_threadpool = "closed"
    /\ ui \in {"cleanup", "forget"} => g_threadpool = Null
    /\ ui = "init" /\ next # "again" => g_threadpool = Null
    /\ ui \in {"uninit", "join", "cleanup"} => next # "again"
    /\ g_threadpool = Null =>
          \A r \in Requests : stage[r] \notin Running \cup {"queued"}

(* An init after an uninit completes before the workers get anything to do, and a
   reference is there as long as a pool is, but while an init without one replaces it. *)
RefInv ==
    /\ ui \in {"ref", "newref"} =>
          \/ \A r \in Requests : stage[r] \notin Running \cup {"queued"}
          \/ next = "again" /\ (ui = "ref" => g_obj \in refs)
    /\ g_threadpool # Null /\ ui \notin {"ref", "newref"} =>
          \/ g_obj \in refs
          \/ ui = "crashed" /\ next = "again"
    /\ refs \subseteq {g_obj}
    /\ ui = "newref" => refs = {}

CurlInv == g_threadpool # Null => initialized > 0

RegisteredInv == \A r \in Listening : stage[r] # "new" => r \in mCallbackMap

IInv == TypeOK /\ PoolInv /\ RefInv /\ CurlInv /\ RegisteredInv /\ ToldInOrder

-------------------------------------------------------------------------------
(* Facts about sequences. *)

Messages == [request : Requests, event : Events]

LEMMA MessageOfLooper ==
    ASSUME NEW S, NEW q \in Seq(S), NEW i \in DOMAIN q
    PROVE  q[i] \in S
<1> QED
  OBVIOUS

LEMMA AppendedSeq ==
    ASSUME NEW S, NEW q \in Seq(S), NEW e \in S
    PROVE  /\ Append(q, e) \in Seq(S)
           /\ Len(q) \in Nat /\ DOMAIN q = 1 .. Len(q)
           /\ DOMAIN Append(q, e) = 1 .. Len(q) + 1 /\ Len(Append(q, e)) = Len(q) + 1
           /\ Append(q, e)[Len(q) + 1] = e
           /\ \A i \in 1 .. Len(q) : Append(q, e)[i] = q[i]
<1> QED
  OBVIOUS

LEMMA TailedSeq ==
    ASSUME NEW S, NEW q \in Seq(S), q # <<>>
    PROVE  /\ Tail(q) \in Seq(S) /\ Head(q) \in S /\ Head(q) = q[1]
           /\ Len(q) \in Nat /\ Len(q) > 0 /\ DOMAIN q = 1 .. Len(q)
           /\ DOMAIN Tail(q) = 1 .. Len(q) - 1
           /\ \A i \in 1 .. Len(q) - 1 : Tail(q)[i] = q[i + 1]
<1> QED
  OBVIOUS

LEMMA MessageFields ==
    ASSUME NEW e \in Messages
    PROVE  e.request \in Requests /\ e.event \in Events
<1> QED
  BY DEF Messages

-------------------------------------------------------------------------------
(* Each part of IInv is kept by every step. *)

(* The types are kept by every step of the process. *)
LEMMA TypeStep ==
    ASSUME TypeOK, PoolInv, Next
    PROVE  TypeOK'
<1> USE LifecycleAssumption
<1>1. ASSUME NEW a \in Activities, OnCreate(a)
       PROVE  TypeOK'
  BY <1>1 DEF OnCreate, TypeOK, Doing, Stages, Running, Events, Final, main, app, java, work, inbox, jni, curl, native
<1>2. ASSUME NEW a \in Activities, OnDestroy(a)
       PROVE  TypeOK'
  BY <1>2 DEF OnDestroy, Left, TypeOK, Doing, Stages, Running, Events, Final, main, app, java, work, inbox, jni, curl, native
<1>3. ASSUME NEW r \in Requests, NEW f \in Fields, Call(r, f)
       PROVE  TypeOK'
  <2>1. PICK k \in Hashes : Manager(f, k) /\ via' = [via EXCEPT ![r] = k]
    BY <1>3 DEF Call
  <2>2. /\ field' \in [Fields -> Hashes \cup {Null}] /\ used' \subseteq Hashes
        /\ m_request_managers' \in [Hashes -> {"absent", "empty", "configured"}]
    <3>1. CASE field[f] = Null
      <4>1. /\ used' = used \cup {k} /\ field' = [field EXCEPT ![f] = k]
            /\ m_request_managers' = [m_request_managers EXCEPT ![k] = "configured"]
        BY <2>1, <3>1 DEF Manager
      <4> QED
        BY <4>1 DEF TypeOK
    <3>2. CASE field[f] # Null
      <4>1. UNCHANGED <<used, field, m_request_managers>>
        BY <2>1, <3>2 DEF Manager
      <4> QED
        BY <4>1 DEF TypeOK
    <3> QED
      BY <3>1, <3>2
  <2>3. via' \in [Requests -> Hashes \cup {Null}]
    BY <2>1 DEF TypeOK
  <2>4. mCallbackMap' \subseteq Requests /\ stage' \in [Requests -> Stages]
    BY <1>3 DEF Call, Registered, TypeOK, Stages, Running
  <2>5. current' \in Requests \cup {Null} /\ ui' \in Doing
    BY <1>3 DEF Call, Doing
  <2> QED
    BY <2>2, <2>3, <2>4, <2>5, <1>3 DEF Call, TypeOK, main, app, java, work, inbox, jni, curl, native
<1>4. CASE Forget
  BY <1>4 DEF Forget, Forgotten, TypeOK, Doing, Stages, Running, Events, Final, main, app, java, work, inbox, jni, curl, native
<1>5. CASE UnInit
  BY <1>5 DEF UnInit, TypeOK, Doing, Stages, Running, Events, Final, main, app, java, work, inbox, jni, curl, native
<1>6. CASE Join
  BY <1>6 DEF Join, Joined, QueueDestroyed, TypeOK, Doing, Stages, Running, Events, Final, main, app, java, work, inbox, jni, curl, native
<1>7. CASE Cleanup
  BY <1>7 DEF Cleanup, OneLess, PoolInv, TypeOK, Doing, Stages, Running, Events, Final, main, app, java, work, inbox, jni, curl, native
<1>8. CASE InitNative
  BY <1>8 DEF InitNative, TypeOK, Doing, Stages, Running, Events, Final, main, app, java, work, inbox, jni, curl, native
<1>9. CASE DropRef
  BY <1>9 DEF DropRef, TypeOK, Doing, Stages, Running, Events, Final, main, app, java, work, inbox, jni, curl, native
<1>10. CASE NewRef
  BY <1>10 DEF NewRef, TypeOK, Doing, Stages, Running, Events, Final, main, app, java, work, inbox, jni, curl, native
<1>11. ASSUME NEW r \in Requests, Commit(r)
       PROVE  TypeOK'
  <2>1. via[r] \in Hashes
    BY <1>11 DEF Commit, PoolInv
  <2>2. Found(via[r]) \in {"absent", "empty", "configured"}
    BY <2>1 DEF Found, TypeOK
  <2>3. /\ m_request_managers' \in [Hashes -> {"absent", "empty", "configured"}]
        /\ sent' \in [Requests -> {"absent", "empty", "configured"}]
    BY <2>2, <1>11 DEF Commit, TypeOK
  <2>4. pool' \in [Requests -> Nat] /\ stage' \in [Requests -> Stages]
    BY <1>11 DEF Commit, TypeOK, Stages
  <2> QED
    BY <2>3, <2>4, <1>11 DEF Commit, TypeOK, Doing, main, app, java, work, inbox, jni, curl, native
<1>12. CASE CommitCrash
  BY <1>12 DEF CommitCrash, TypeOK, Doing, Stages, Running, Events, Final, main, app, java, work, inbox, jni, curl, native
<1>13. CASE RunMessage
  <2> DEFINE m == Head(looper)
  <2>1. looper \in Seq(Messages) /\ looper # <<>>
    BY <1>13 DEF RunMessage, TypeOK, Messages
  <2>2. m \in Messages /\ Tail(looper) \in Seq(Messages) /\ looper' = Tail(looper)
    BY <2>1, <1>13, TailedSeq DEF RunMessage
  <2>3. delivered' = [delivered EXCEPT ![m.request] = Append(delivered[m.request], m.event)]
    BY <1>13 DEF RunMessage
  <2>4. m.request \in Requests /\ m.event \in Events
    BY <2>2, MessageFields
  <2>5. Append(delivered[m.request], m.event) \in Seq(Events)
    BY <2>4, AppendedSeq DEF TypeOK
  <2>6. delivered' \in [Requests -> Seq(Events)]
    BY <2>3, <2>4, <2>5 DEF TypeOK
  <2> QED
    BY <2>2, <2>6, <1>13 DEF RunMessage, TypeOK, Messages, main, app, java, work, inbox, jni, curl, native
<1>14. ASSUME NEW r \in Requests, Start(r)
       PROVE  TypeOK'
  BY <1>14 DEF Start, MayStart, Step, TypeOK, Doing, Stages, Running, Events, Final, main, app, java, work, inbox, jni, curl, native
<1>15. ASSUME NEW r \in Requests, GoInvalid(r)
       PROVE  TypeOK'
  BY <1>15 DEF GoInvalid, Step, TypeOK, Doing, Stages, Running, Events, Final, main, app, java, work, inbox, jni, curl, native
<1>16. ASSUME NEW r \in Requests, Report(r)
       PROVE  TypeOK'
  BY <1>16 DEF Report, Step, TypeOK, Doing, Stages, Running, Events, Final, main, app, java, work, inbox, jni, curl, native
<1>17. ASSUME NEW r \in Requests, End(r)
       PROVE  TypeOK'
  BY <1>17 DEF End, Step, TypeOK, Doing, Stages, Running, Events, Final, main, app, java, work, inbox, jni, curl, native
<1>18. ASSUME NEW r \in Requests, TestRef(r)
       PROVE  TypeOK'
  BY <1>18 DEF TestRef, Step, Resume, TypeOK, Doing, Stages, Running, Events, Final, main, app, java, work, inbox, jni, curl, native
<1>19. ASSUME NEW r \in Requests, CallBack(r)
       PROVE  TypeOK'
  <2>1. looper' = Append(looper, [request |-> r, event |-> event[r]])
    BY <1>19 DEF CallBack, Posted
  <2>2. [request |-> r, event |-> event[r]] \in Messages
    BY DEF TypeOK, Messages
  <2>3. looper \in Seq(Messages)
    BY DEF TypeOK, Messages
  <2>4. looper' \in Seq(Messages)
    BY <2>1, <2>2, <2>3, AppendedSeq
  <2>5. stage' \in [Requests -> Stages]
    BY <1>19 DEF CallBack, Step, Resume, TypeOK, Stages, Running
  <2> QED
    BY <2>4, <2>5, <1>19 DEF CallBack, TypeOK, Messages, main, app, java, work, inbox, jni, curl, native
<1>20. ASSUME NEW r \in Requests, CallBackNobody(r)
       PROVE  TypeOK'
  BY <1>20 DEF CallBackNobody, Step, Resume, TypeOK, Doing, Stages, Running, Events, Final, main, app, java, work, inbox, jni, curl, native
<1>21. CASE InitAgain
  BY <1>21 DEF InitAgain, TypeOK, Doing, Stages, Running, Events, Final, main, app, java, work, inbox, jni, curl, native
<1>22. ASSUME NEW r \in Requests, CallDeleted(r)
       PROVE  TypeOK'
  BY <1>22 DEF CallDeleted, TypeOK, Doing, Stages, Running, Events, Final, main, app, java, work, inbox, jni, curl, native
<1>99. QED
  BY <1>1, <1>2, <1>3, <1>4, <1>5, <1>6, <1>7, <1>8, <1>9, <1>10, <1>11, <1>12, <1>13, <1>14, <1>15, <1>16, <1>17, <1>18, <1>19, <1>20, <1>21, <1>22 DEF Next, Main, Worker

(* What the join establishes about queued and running requests stays true until
   the next pool exists. *)
LEMMA PoolStep ==
    ASSUME TypeOK, PoolInv, RefInv, Next
    PROVE  PoolInv'
<1> USE LifecycleAssumption
<1>1. ASSUME NEW a \in Activities, OnCreate(a)
       PROVE  PoolInv'
  BY <1>1 DEF OnCreate, PoolInv, TypeOK, Doing, Stages, Running, main, app, java, work, inbox, jni, curl, native
<1>2. ASSUME NEW a \in Activities, OnDestroy(a)
       PROVE  PoolInv'
  BY <1>2 DEF OnDestroy, Left, PoolInv, TypeOK, Doing, Stages, Running, main, app, java, work, inbox, jni, curl, native
<1>3. ASSUME NEW r \in Requests, NEW f \in Fields, Call(r, f)
       PROVE  PoolInv'
  BY <1>3 DEF Call, Manager, Registered, PoolInv, TypeOK, Doing, Stages, Running, main, app, java, work, inbox, jni, curl, native
<1>4. CASE Forget
  BY <1>4 DEF Forget, Forgotten, PoolInv, TypeOK, Doing, Stages, Running, main, app, java, work, inbox, jni, curl, native
<1>5. CASE UnInit
  BY <1>5 DEF UnInit, PoolInv, TypeOK, Doing, Stages, Running, main, app, java, work, inbox, jni, curl, native
<1>6. CASE Join
  BY <1>6 DEF Join, Joined, QueueDestroyed, PoolInv, TypeOK, Doing, Stages, Running, main, app, java, work, inbox, jni, curl, native
<1>7. CASE Cleanup
  BY <1>7 DEF Cleanup, OneLess, PoolInv, TypeOK, Doing, Stages, Running, main, app, java, work, inbox, jni, curl, native
<1>8. CASE InitNative
  BY <1>8 DEF InitNative, PoolInv, TypeOK, Doing, Stages, Running, main, app, java, work, inbox, jni, curl, native
<1>9. CASE DropRef
  BY <1>9 DEF DropRef, PoolInv, TypeOK, Doing, Stages, Running, main, app, java, work, inbox, jni, curl, native
<1>10. CASE NewRef
  BY <1>10 DEF NewRef, PoolInv, TypeOK, Doing, Stages, Running, main, app, java, work, inbox, jni, curl, native
<1>11. ASSUME NEW r \in Requests, Commit(r)
       PROVE  PoolInv'
  BY <1>11 DEF Commit, Found, PoolInv, TypeOK, Doing, Stages, Running, main, app, java, work, inbox, jni, curl, native
<1>12. CASE CommitCrash
  BY <1>12 DEF CommitCrash, PoolInv, TypeOK, Doing, Stages, Running, main, app, java, work, inbox, jni, curl, native
<1>13. CASE RunMessage
  BY <1>13 DEF RunMessage, PoolInv, TypeOK, Doing, Stages, Running, main, app, java, work, inbox, jni, curl, native
<1>14. ASSUME NEW r \in Requests, Start(r)
       PROVE  PoolInv'
  BY <1>14 DEF Start, MayStart, Step, PoolInv, TypeOK, Doing, Stages, Running, main, app, java, work, inbox, jni, curl, native
<1>15. ASSUME NEW r \in Requests, GoInvalid(r)
       PROVE  PoolInv'
  BY <1>15 DEF GoInvalid, Step, PoolInv, TypeOK, Doing, Stages, Running, main, app, java, work, inbox, jni, curl, native
<1>16. ASSUME NEW r \in Requests, Report(r)
       PROVE  PoolInv'
  BY <1>16 DEF Report, Step, PoolInv, TypeOK, Doing, Stages, Running, main, app, java, work, inbox, jni, curl, native
<1>17. ASSUME NEW r \in Requests, End(r)
       PROVE  PoolInv'
  BY <1>17 DEF End, Step, PoolInv, TypeOK, Doing, Stages, Running, main, app, java, work, inbox, jni, curl, native
<1>18. ASSUME NEW r \in Requests, TestRef(r)
       PROVE  PoolInv'
  BY <1>18 DEF TestRef, Step, Resume, PoolInv, TypeOK, Doing, Stages, Running, main, app, java, work, inbox, jni, curl, native
<1>19. ASSUME NEW r \in Requests, CallBack(r)
       PROVE  PoolInv'
  BY <1>19 DEF CallBack, Step, Resume, Posted, PoolInv, TypeOK, Doing, Stages, Running, main, app, java, work, inbox, jni, curl, native
<1>20. ASSUME NEW r \in Requests, CallBackNobody(r)
       PROVE  PoolInv'
  BY <1>20 DEF CallBackNobody, Step, Resume, PoolInv, TypeOK, Doing, Stages, Running, main, app, java, work, inbox, jni, curl, native
<1>21. CASE InitAgain
  BY <1>21 DEF InitAgain, RefInv, PoolInv, TypeOK, Doing, Stages, Running, main, app, java, work, inbox, jni, curl, native
<1>22. ASSUME NEW r \in Requests, CallDeleted(r)
       PROVE  PoolInv'
  BY <1>22 DEF CallDeleted, RefInv, PoolInv, TypeOK, Doing, Stages, Running, main, app, java, work, inbox, jni, curl, native
<1>99. QED
  BY <1>1, <1>2, <1>3, <1>4, <1>5, <1>6, <1>7, <1>8, <1>9, <1>10, <1>11, <1>12, <1>13, <1>14, <1>15, <1>16, <1>17, <1>18, <1>19, <1>20, <1>21, <1>22 DEF Next, Main, Worker

(* g_obj stays valid while a worker may call through it. *)
LEMMA RefStep ==
    ASSUME TypeOK, PoolInv, RefInv, Next
    PROVE  RefInv'
<1> USE LifecycleAssumption
<1>1. ASSUME NEW a \in Activities, OnCreate(a)
       PROVE  RefInv'
  BY <1>1 DEF OnCreate, RefInv, PoolInv, TypeOK, Stages, Running, main, app, java, work, inbox, jni, curl, native
<1>2. ASSUME NEW a \in Activities, OnDestroy(a)
       PROVE  RefInv'
  BY <1>2 DEF OnDestroy, Left, RefInv, PoolInv, TypeOK, Stages, Running, main, app, java, work, inbox, jni, curl, native
<1>3. ASSUME NEW r \in Requests, NEW f \in Fields, Call(r, f)
       PROVE  RefInv'
  BY <1>3 DEF Call, Manager, Registered, RefInv, PoolInv, TypeOK, Stages, Running, main, app, java, work, inbox, jni, curl, native
<1>4. CASE Forget
  BY <1>4 DEF Forget, Forgotten, RefInv, PoolInv, TypeOK, Stages, Running, main, app, java, work, inbox, jni, curl, native
<1>5. CASE UnInit
  BY <1>5 DEF UnInit, RefInv, PoolInv, TypeOK, Stages, Running, main, app, java, work, inbox, jni, curl, native
<1>6. CASE Join
  BY <1>6 DEF Join, Joined, QueueDestroyed, RefInv, PoolInv, TypeOK, Stages, Running, main, app, java, work, inbox, jni, curl, native
<1>7. CASE Cleanup
  BY <1>7 DEF Cleanup, OneLess, RefInv, PoolInv, TypeOK, Stages, Running, main, app, java, work, inbox, jni, curl, native
<1>8. CASE InitNative
  BY <1>8 DEF InitNative, RefInv, PoolInv, TypeOK, Stages, Running, main, app, java, work, inbox, jni, curl, native
<1>9. CASE DropRef
  BY <1>9 DEF DropRef, RefInv, PoolInv, TypeOK, Stages, Running, main, app, java, work, inbox, jni, curl, native
<1>10. CASE NewRef
  BY <1>10 DEF NewRef, RefInv, PoolInv, TypeOK, Stages, Running, main, app, java, work, inbox, jni, curl, native
<1>11. ASSUME NEW r \in Requests, Commit(r)
       PROVE  RefInv'
  BY <1>11 DEF Commit, Found, RefInv, PoolInv, TypeOK, Stages, Running, main, app, java, work, inbox, jni, curl, native
<1>12. CASE CommitCrash
  BY <1>12 DEF CommitCrash, RefInv, PoolInv, TypeOK, Stages, Running, main, app, java, work, inbox, jni, curl, native
<1>13. CASE RunMessage
  BY <1>13 DEF RunMessage, RefInv, PoolInv, TypeOK, Stages, Running, main, app, java, work, inbox, jni, curl, native
<1>14. ASSUME NEW r \in Requests, Start(r)
       PROVE  RefInv'
  BY <1>14 DEF Start, MayStart, Step, RefInv, PoolInv, TypeOK, Stages, Running, main, app, java, work, inbox, jni, curl, native
<1>15. ASSUME NEW r \in Requests, GoInvalid(r)
       PROVE  RefInv'
  BY <1>15 DEF GoInvalid, Step, RefInv, PoolInv, TypeOK, Stages, Running, main, app, java, work, inbox, jni, curl, native
<1>16. ASSUME NEW r \in Requests, Report(r)
       PROVE  RefInv'
  BY <1>16 DEF Report, Step, RefInv, PoolInv, TypeOK, Stages, Running, main, app, java, work, inbox, jni, curl, native
<1>17. ASSUME NEW r \in Requests, End(r)
       PROVE  RefInv'
  BY <1>17 DEF End, Step, RefInv, PoolInv, TypeOK, Stages, Running, main, app, java, work, inbox, jni, curl, native
<1>18. ASSUME NEW r \in Requests, TestRef(r)
       PROVE  RefInv'
  BY <1>18 DEF TestRef, Step, Resume, RefInv, PoolInv, TypeOK, Stages, Running, main, app, java, work, inbox, jni, curl, native
<1>19. ASSUME NEW r \in Requests, CallBack(r)
       PROVE  RefInv'
  BY <1>19 DEF CallBack, Step, Resume, Posted, RefInv, PoolInv, TypeOK, Stages, Running, main, app, java, work, inbox, jni, curl, native
<1>20. ASSUME NEW r \in Requests, CallBackNobody(r)
       PROVE  RefInv'
  BY <1>20 DEF CallBackNobody, Step, Resume, RefInv, PoolInv, TypeOK, Stages, Running, main, app, java, work, inbox, jni, curl, native
<1>21. CASE InitAgain
  BY <1>21 DEF InitAgain, RefInv, PoolInv, TypeOK, Stages, Running, main, app, java, work, inbox, jni, curl, native
<1>22. ASSUME NEW r \in Requests, CallDeleted(r)
       PROVE  RefInv'
  BY <1>22 DEF CallDeleted, RefInv, PoolInv, TypeOK, Stages, Running, main, app, java, work, inbox, jni, curl, native
<1>99. QED
  BY <1>1, <1>2, <1>3, <1>4, <1>5, <1>6, <1>7, <1>8, <1>9, <1>10, <1>11, <1>12, <1>13, <1>14, <1>15, <1>16, <1>17, <1>18, <1>19, <1>20, <1>21, <1>22 DEF Next, Main, Worker

(* libcurl stays initialised while there is a pool. *)
LEMMA CurlStep ==
    ASSUME TypeOK, PoolInv, CurlInv, Next
    PROVE  CurlInv'
<1> USE LifecycleAssumption
<1>1. ASSUME NEW a \in Activities, OnCreate(a)
       PROVE  CurlInv'
  BY <1>1 DEF OnCreate, CurlInv, PoolInv, TypeOK, main, app, java, work, inbox, jni, curl, native
<1>2. ASSUME NEW a \in Activities, OnDestroy(a)
       PROVE  CurlInv'
  BY <1>2 DEF OnDestroy, Left, CurlInv, PoolInv, TypeOK, main, app, java, work, inbox, jni, curl, native
<1>3. ASSUME NEW r \in Requests, NEW f \in Fields, Call(r, f)
       PROVE  CurlInv'
  BY <1>3 DEF Call, Manager, Registered, CurlInv, PoolInv, TypeOK, main, app, java, work, inbox, jni, curl, native
<1>4. CASE Forget
  BY <1>4 DEF Forget, Forgotten, CurlInv, PoolInv, TypeOK, main, app, java, work, inbox, jni, curl, native
<1>5. CASE UnInit
  BY <1>5 DEF UnInit, CurlInv, PoolInv, TypeOK, main, app, java, work, inbox, jni, curl, native
<1>6. CASE Join
  BY <1>6 DEF Join, Joined, QueueDestroyed, CurlInv, PoolInv, TypeOK, main, app, java, work, inbox, jni, curl, native
<1>7. CASE Cleanup
  BY <1>7 DEF Cleanup, OneLess, CurlInv, PoolInv, TypeOK, main, app, java, work, inbox, jni, curl, native
<1>8. CASE InitNative
  BY <1>8 DEF InitNative, CurlInv, PoolInv, TypeOK, main, app, java, work, inbox, jni, curl, native
<1>9. CASE DropRef
  BY <1>9 DEF DropRef, CurlInv, PoolInv, TypeOK, main, app, java, work, inbox, jni, curl, native
<1>10. CASE NewRef
  BY <1>10 DEF NewRef, CurlInv, PoolInv, TypeOK, main, app, java, work, inbox, jni, curl, native
<1>11. ASSUME NEW r \in Requests, Commit(r)
       PROVE  CurlInv'
  BY <1>11 DEF Commit, Found, CurlInv, PoolInv, TypeOK, main, app, java, work, inbox, jni, curl, native
<1>12. CASE CommitCrash
  BY <1>12 DEF CommitCrash, CurlInv, PoolInv, TypeOK, main, app, java, work, inbox, jni, curl, native
<1>13. CASE RunMessage
  BY <1>13 DEF RunMessage, CurlInv, PoolInv, TypeOK, main, app, java, work, inbox, jni, curl, native
<1>14. ASSUME NEW r \in Requests, Start(r)
       PROVE  CurlInv'
  BY <1>14 DEF Start, MayStart, Step, CurlInv, PoolInv, TypeOK, main, app, java, work, inbox, jni, curl, native
<1>15. ASSUME NEW r \in Requests, GoInvalid(r)
       PROVE  CurlInv'
  BY <1>15 DEF GoInvalid, Step, CurlInv, PoolInv, TypeOK, main, app, java, work, inbox, jni, curl, native
<1>16. ASSUME NEW r \in Requests, Report(r)
       PROVE  CurlInv'
  BY <1>16 DEF Report, Step, CurlInv, PoolInv, TypeOK, main, app, java, work, inbox, jni, curl, native
<1>17. ASSUME NEW r \in Requests, End(r)
       PROVE  CurlInv'
  BY <1>17 DEF End, Step, CurlInv, PoolInv, TypeOK, main, app, java, work, inbox, jni, curl, native
<1>18. ASSUME NEW r \in Requests, TestRef(r)
       PROVE  CurlInv'
  BY <1>18 DEF TestRef, Step, Resume, CurlInv, PoolInv, TypeOK, main, app, java, work, inbox, jni, curl, native
<1>19. ASSUME NEW r \in Requests, CallBack(r)
       PROVE  CurlInv'
  BY <1>19 DEF CallBack, Step, Resume, Posted, CurlInv, PoolInv, TypeOK, main, app, java, work, inbox, jni, curl, native
<1>20. ASSUME NEW r \in Requests, CallBackNobody(r)
       PROVE  CurlInv'
  BY <1>20 DEF CallBackNobody, Step, Resume, CurlInv, PoolInv, TypeOK, main, app, java, work, inbox, jni, curl, native
<1>21. CASE InitAgain
  BY <1>21 DEF InitAgain, CurlInv, PoolInv, TypeOK, main, app, java, work, inbox, jni, curl, native
<1>22. ASSUME NEW r \in Requests, CallDeleted(r)
       PROVE  CurlInv'
  BY <1>22 DEF CallDeleted, CurlInv, PoolInv, TypeOK, main, app, java, work, inbox, jni, curl, native
<1>99. QED
  BY <1>1, <1>2, <1>3, <1>4, <1>5, <1>6, <1>7, <1>8, <1>9, <1>10, <1>11, <1>12, <1>13, <1>14, <1>15, <1>16, <1>17, <1>18, <1>19, <1>20, <1>21, <1>22 DEF Next, Main, Worker

(* Callbacks are registered by the call and stay so. *)
LEMMA RegisteredStep ==
    ASSUME TypeOK, PoolInv, RegisteredInv, Next
    PROVE  RegisteredInv'
<1> USE LifecycleAssumption
<1>1. ASSUME NEW a \in Activities, OnCreate(a)
       PROVE  RegisteredInv'
  BY <1>1 DEF OnCreate, RegisteredInv, PoolInv, TypeOK, Stages, Running, main, app, java, work, inbox, jni, curl, native
<1>2. ASSUME NEW a \in Activities, OnDestroy(a)
       PROVE  RegisteredInv'
  BY <1>2 DEF OnDestroy, Left, RegisteredInv, PoolInv, TypeOK, Stages, Running, main, app, java, work, inbox, jni, curl, native
<1>3. ASSUME NEW r \in Requests, NEW f \in Fields, Call(r, f)
       PROVE  RegisteredInv'
  BY <1>3 DEF Call, Manager, Registered, RegisteredInv, PoolInv, TypeOK, Stages, Running, main, app, java, work, inbox, jni, curl, native
<1>4. CASE Forget
  BY <1>4 DEF Forget, Forgotten, RegisteredInv, PoolInv, TypeOK, Stages, Running, main, app, java, work, inbox, jni, curl, native
<1>5. CASE UnInit
  BY <1>5 DEF UnInit, RegisteredInv, PoolInv, TypeOK, Stages, Running, main, app, java, work, inbox, jni, curl, native
<1>6. CASE Join
  BY <1>6 DEF Join, Joined, QueueDestroyed, RegisteredInv, PoolInv, TypeOK, Stages, Running, main, app, java, work, inbox, jni, curl, native
<1>7. CASE Cleanup
  BY <1>7 DEF Cleanup, OneLess, RegisteredInv, PoolInv, TypeOK, Stages, Running, main, app, java, work, inbox, jni, curl, native
<1>8. CASE InitNative
  BY <1>8 DEF InitNative, RegisteredInv, PoolInv, TypeOK, Stages, Running, main, app, java, work, inbox, jni, curl, native
<1>9. CASE DropRef
  BY <1>9 DEF DropRef, RegisteredInv, PoolInv, TypeOK, Stages, Running, main, app, java, work, inbox, jni, curl, native
<1>10. CASE NewRef
  BY <1>10 DEF NewRef, RegisteredInv, PoolInv, TypeOK, Stages, Running, main, app, java, work, inbox, jni, curl, native
<1>11. ASSUME NEW r \in Requests, Commit(r)
       PROVE  RegisteredInv'
  BY <1>11 DEF Commit, Found, RegisteredInv, PoolInv, TypeOK, Stages, Running, main, app, java, work, inbox, jni, curl, native
<1>12. CASE CommitCrash
  BY <1>12 DEF CommitCrash, RegisteredInv, PoolInv, TypeOK, Stages, Running, main, app, java, work, inbox, jni, curl, native
<1>13. CASE RunMessage
  BY <1>13 DEF RunMessage, RegisteredInv, PoolInv, TypeOK, Stages, Running, main, app, java, work, inbox, jni, curl, native
<1>14. ASSUME NEW r \in Requests, Start(r)
       PROVE  RegisteredInv'
  BY <1>14 DEF Start, MayStart, Step, RegisteredInv, PoolInv, TypeOK, Stages, Running, main, app, java, work, inbox, jni, curl, native
<1>15. ASSUME NEW r \in Requests, GoInvalid(r)
       PROVE  RegisteredInv'
  BY <1>15 DEF GoInvalid, Step, RegisteredInv, PoolInv, TypeOK, Stages, Running, main, app, java, work, inbox, jni, curl, native
<1>16. ASSUME NEW r \in Requests, Report(r)
       PROVE  RegisteredInv'
  BY <1>16 DEF Report, Step, RegisteredInv, PoolInv, TypeOK, Stages, Running, main, app, java, work, inbox, jni, curl, native
<1>17. ASSUME NEW r \in Requests, End(r)
       PROVE  RegisteredInv'
  BY <1>17 DEF End, Step, RegisteredInv, PoolInv, TypeOK, Stages, Running, main, app, java, work, inbox, jni, curl, native
<1>18. ASSUME NEW r \in Requests, TestRef(r)
       PROVE  RegisteredInv'
  BY <1>18 DEF TestRef, Step, Resume, RegisteredInv, PoolInv, TypeOK, Stages, Running, main, app, java, work, inbox, jni, curl, native
<1>19. ASSUME NEW r \in Requests, CallBack(r)
       PROVE  RegisteredInv'
  BY <1>19 DEF CallBack, Step, Resume, Posted, RegisteredInv, PoolInv, TypeOK, Stages, Running, main, app, java, work, inbox, jni, curl, native
<1>20. ASSUME NEW r \in Requests, CallBackNobody(r)
       PROVE  RegisteredInv'
  BY <1>20 DEF CallBackNobody, Step, Resume, RegisteredInv, PoolInv, TypeOK, Stages, Running, main, app, java, work, inbox, jni, curl, native
<1>21. CASE InitAgain
  BY <1>21 DEF InitAgain, RegisteredInv, PoolInv, TypeOK, Stages, Running, main, app, java, work, inbox, jni, curl, native
<1>22. ASSUME NEW r \in Requests, CallDeleted(r)
       PROVE  RegisteredInv'
  BY <1>22 DEF CallDeleted, RegisteredInv, PoolInv, TypeOK, Stages, Running, main, app, java, work, inbox, jni, curl, native
<1>99. QED
  BY <1>1, <1>2, <1>3, <1>4, <1>5, <1>6, <1>7, <1>8, <1>9, <1>10, <1>11, <1>12, <1>13, <1>14, <1>15, <1>16, <1>17, <1>18, <1>19, <1>20, <1>21, <1>22 DEF Next, Main, Worker

(* Messages stay in order when neither the looper nor what was delivered changes
   and no answered request changes its stage. *)
LEMMA OrderKept ==
    ASSUME TypeOK, ToldInOrder, UNCHANGED <<looper, delivered>>,
           \A r \in Requests : stage[r] = "done" => stage'[r] = "done"
    PROVE  ToldInOrder'
<1>1. looper \in Seq(Messages)
  BY DEF TypeOK, Messages
<1>2. \A i \in DOMAIN looper : looper[i].request \in Requests
  BY <1>1, MessageOfLooper, MessageFields
<1> QED
  BY <1>2 DEF ToldInOrder


(* The order of a callback's messages is kept by every step. *)
LEMMA OrderStep ==
    ASSUME TypeOK, PoolInv, ToldInOrder, Next
    PROVE  ToldInOrder'
<1> USE LifecycleAssumption
<1>1. ASSUME NEW a \in Activities, OnCreate(a)
       PROVE  ToldInOrder'
  <2>1. UNCHANGED <<looper, delivered>>
    BY <1>1 DEF OnCreate, main, app, java, work, inbox, jni, curl, native
  <2>2. \A q \in Requests : stage[q] = "done" => stage'[q] = "done"
    BY <1>1 DEF OnCreate, TypeOK, main, app, java, work, inbox, jni, curl, native
  <2> QED
    BY <2>1, <2>2, OrderKept
<1>2. ASSUME NEW a \in Activities, OnDestroy(a)
       PROVE  ToldInOrder'
  <2>1. UNCHANGED <<looper, delivered>>
    BY <1>2 DEF OnDestroy, main, app, java, work, inbox, jni, curl, native
  <2>2. \A q \in Requests : stage[q] = "done" => stage'[q] = "done"
    BY <1>2 DEF OnDestroy, Left, TypeOK, main, app, java, work, inbox, jni, curl, native
  <2> QED
    BY <2>1, <2>2, OrderKept
<1>3. ASSUME NEW r \in Requests, NEW f \in Fields, Call(r, f)
       PROVE  ToldInOrder'
  <2>1. UNCHANGED <<looper, delivered>>
    BY <1>3 DEF Call, main, app, java, work, inbox, jni, curl, native
  <2>2. \A q \in Requests : stage[q] = "done" => stage'[q] = "done"
    BY <1>3 DEF Call, Manager, Registered, TypeOK, main, app, java, work, inbox, jni, curl, native
  <2> QED
    BY <2>1, <2>2, OrderKept
<1>4. CASE Forget
  <2>1. UNCHANGED <<looper, delivered>>
    BY <1>4 DEF Forget, main, app, java, work, inbox, jni, curl, native
  <2>2. \A q \in Requests : stage[q] = "done" => stage'[q] = "done"
    BY <1>4 DEF Forget, Forgotten, TypeOK, main, app, java, work, inbox, jni, curl, native
  <2> QED
    BY <2>1, <2>2, OrderKept
<1>5. CASE UnInit
  <2>1. UNCHANGED <<looper, delivered>>
    BY <1>5 DEF UnInit, main, app, java, work, inbox, jni, curl, native
  <2>2. \A q \in Requests : stage[q] = "done" => stage'[q] = "done"
    BY <1>5 DEF UnInit, TypeOK, main, app, java, work, inbox, jni, curl, native
  <2> QED
    BY <2>1, <2>2, OrderKept
<1>6. CASE Join
  <2>1. UNCHANGED <<looper, delivered>>
    BY <1>6 DEF Join, main, app, java, work, inbox, jni, curl, native
  <2>2. \A q \in Requests : stage[q] = "done" => stage'[q] = "done"
    BY <1>6 DEF Join, Joined, QueueDestroyed, TypeOK, main, app, java, work, inbox, jni, curl, native
  <2> QED
    BY <2>1, <2>2, OrderKept
<1>7. CASE Cleanup
  <2>1. UNCHANGED <<looper, delivered>>
    BY <1>7 DEF Cleanup, main, app, java, work, inbox, jni, curl, native
  <2>2. \A q \in Requests : stage[q] = "done" => stage'[q] = "done"
    BY <1>7 DEF Cleanup, OneLess, TypeOK, main, app, java, work, inbox, jni, curl, native
  <2> QED
    BY <2>1, <2>2, OrderKept
<1>8. CASE InitNative
  <2>1. UNCHANGED <<looper, delivered>>
    BY <1>8 DEF InitNative, main, app, java, work, inbox, jni, curl, native
  <2>2. \A q \in Requests : stage[q] = "done" => stage'[q] = "done"
    BY <1>8 DEF InitNative, TypeOK, main, app, java, work, inbox, jni, curl, native
  <2> QED
    BY <2>1, <2>2, OrderKept
<1>9. CASE DropRef
  <2>1. UNCHANGED <<looper, delivered>>
    BY <1>9 DEF DropRef, main, app, java, work, inbox, jni, curl, native
  <2>2. \A q \in Requests : stage[q] = "done" => stage'[q] = "done"
    BY <1>9 DEF DropRef, TypeOK, main, app, java, work, inbox, jni, curl, native
  <2> QED
    BY <2>1, <2>2, OrderKept
<1>10. CASE NewRef
  <2>1. UNCHANGED <<looper, delivered>>
    BY <1>10 DEF NewRef, main, app, java, work, inbox, jni, curl, native
  <2>2. \A q \in Requests : stage[q] = "done" => stage'[q] = "done"
    BY <1>10 DEF NewRef, TypeOK, main, app, java, work, inbox, jni, curl, native
  <2> QED
    BY <2>1, <2>2, OrderKept
<1>11. ASSUME NEW r \in Requests, Commit(r)
       PROVE  ToldInOrder'
  <2>1. UNCHANGED <<looper, delivered>>
    BY <1>11 DEF Commit, main, app, java, work, inbox, jni, curl, native
  <2>2. \A q \in Requests : stage[q] = "done" => stage'[q] = "done"
    BY <1>11 DEF Commit, Found, PoolInv, TypeOK, main, app, java, work, inbox, jni, curl, native
  <2> QED
    BY <2>1, <2>2, OrderKept
<1>12. CASE CommitCrash
  <2>1. UNCHANGED <<looper, delivered>>
    BY <1>12 DEF CommitCrash, main, app, java, work, inbox, jni, curl, native
  <2>2. \A q \in Requests : stage[q] = "done" => stage'[q] = "done"
    BY <1>12 DEF CommitCrash, TypeOK, main, app, java, work, inbox, jni, curl, native
  <2> QED
    BY <2>1, <2>2, OrderKept
<1>13. CASE RunMessage
  <2> DEFINE m == Head(looper)
  <2>1. looper \in Seq(Messages) /\ looper # <<>>
    BY <1>13 DEF RunMessage, TypeOK, Messages
  <2>2. Len(looper) \in Nat /\ Len(looper) > 0 /\ DOMAIN looper = 1 .. Len(looper)
     /\ m = looper[1] /\ m \in Messages
    BY <2>1, TailedSeq
  <2>3. looper' = Tail(looper) /\ stage' = stage
     /\ delivered' = [delivered EXCEPT ![m.request] = Append(delivered[m.request], m.event)]
    BY <1>13 DEF RunMessage, main, app, java, work, inbox, jni, curl, native
  <2>4. DOMAIN looper' = 1 .. Len(looper) - 1
     /\ \A i \in 1 .. Len(looper) - 1 : i + 1 \in DOMAIN looper /\ looper'[i] = looper[i + 1]
    BY <2>1, <2>2, <2>3, TailedSeq
  <2>5. \A i, j \in DOMAIN looper' :
           i < j /\ looper'[i].request = looper'[j].request => looper'[i].event \notin Final
    <3> SUFFICES ASSUME NEW i \in DOMAIN looper', NEW j \in DOMAIN looper', i < j,
                        looper'[i].request = looper'[j].request
                 PROVE  looper'[i].event \notin Final
      OBVIOUS
    <3>1. i + 1 \in DOMAIN looper /\ j + 1 \in DOMAIN looper /\ i + 1 < j + 1
       /\ looper'[i] = looper[i + 1] /\ looper'[j] = looper[j + 1]
      BY <2>2, <2>4
    <3> QED
      BY <3>1 DEF ToldInOrder
  <2>6. \A i \in DOMAIN looper' :
           looper'[i].event \in Final => stage'[looper'[i].request] = "done"
    BY <2>3, <2>4 DEF ToldInOrder
  <2>7. ASSUME NEW q \in Requests, NEW i \in DOMAIN delivered'[q], delivered'[q][i] \in Final
        PROVE  /\ i = Len(delivered'[q]) /\ stage'[q] = "done"
               /\ \A j \in DOMAIN looper' : looper'[j].request # q
    <3>1. CASE q # m.request
      <4>1. delivered'[q] = delivered[q]
        BY <3>1, <2>3 DEF TypeOK
      <4>2. i = Len(delivered[q]) /\ stage[q] = "done"
         /\ \A j \in DOMAIN looper : looper[j].request # q
        BY <4>1, <2>7 DEF ToldInOrder
      <4> QED
        BY <4>1, <4>2, <2>3, <2>4
    <3>2. CASE q = m.request
      <4>1. delivered[q] \in Seq(Events) /\ delivered'[q] = Append(delivered[q], m.event)
        BY <3>2, <2>3 DEF TypeOK
      <4>2. Len(delivered[q]) \in Nat /\ DOMAIN delivered[q] = 1 .. Len(delivered[q])
        BY <4>1, <2>2, MessageFields, AppendedSeq
      <4>3. DOMAIN delivered'[q] = 1 .. Len(delivered[q]) + 1
         /\ Len(delivered'[q]) = Len(delivered[q]) + 1
         /\ delivered'[q][Len(delivered[q]) + 1] = m.event
         /\ \A k \in 1 .. Len(delivered[q]) : delivered'[q][k] = delivered[q][k]
        BY <4>1, <2>2, MessageFields, AppendedSeq
      <4>4. 1 \in DOMAIN looper /\ looper[1].request = q
        BY <3>2, <2>2
      <4>5. \A k \in DOMAIN delivered[q] : delivered[q][k] \notin Final
        BY <4>4 DEF ToldInOrder
      <4>6. i = Len(delivered[q]) + 1 /\ m.event \in Final
        BY <4>2, <4>3, <4>5, <2>7
      <4>7. stage[q] = "done"
        BY <4>4, <4>6, <2>2 DEF ToldInOrder
      <4>8. \A j \in DOMAIN looper' : looper'[j].request # q
        <5> SUFFICES ASSUME NEW j \in DOMAIN looper', looper'[j].request = q
                     PROVE  FALSE
          OBVIOUS
        <5>1. j + 1 \in DOMAIN looper /\ looper[j + 1].request = looper[1].request
           /\ 1 < j + 1
          BY <4>4, <2>2, <2>4
        <5> QED
          BY <5>1, <4>4, <4>6, <2>2 DEF ToldInOrder
      <4> QED
        BY <4>3, <4>6, <4>7, <4>8, <2>3
    <3> QED
      BY <3>1, <3>2
  <2> QED
    BY <2>5, <2>6, <2>7 DEF ToldInOrder
<1>14. ASSUME NEW r \in Requests, Start(r)
       PROVE  ToldInOrder'
  <2>1. UNCHANGED <<looper, delivered>>
    BY <1>14 DEF Start, main, app, java, work, inbox, jni, curl, native
  <2>2. \A q \in Requests : stage[q] = "done" => stage'[q] = "done"
    BY <1>14 DEF Start, MayStart, Step, TypeOK, main, app, java, work, inbox, jni, curl, native
  <2> QED
    BY <2>1, <2>2, OrderKept
<1>15. ASSUME NEW r \in Requests, GoInvalid(r)
       PROVE  ToldInOrder'
  <2>1. UNCHANGED <<looper, delivered>>
    BY <1>15 DEF GoInvalid, main, app, java, work, inbox, jni, curl, native
  <2>2. \A q \in Requests : stage[q] = "done" => stage'[q] = "done"
    BY <1>15 DEF GoInvalid, Step, TypeOK, main, app, java, work, inbox, jni, curl, native
  <2> QED
    BY <2>1, <2>2, OrderKept
<1>16. ASSUME NEW r \in Requests, Report(r)
       PROVE  ToldInOrder'
  <2>1. UNCHANGED <<looper, delivered>>
    BY <1>16 DEF Report, main, app, java, work, inbox, jni, curl, native
  <2>2. \A q \in Requests : stage[q] = "done" => stage'[q] = "done"
    BY <1>16 DEF Report, Step, TypeOK, main, app, java, work, inbox, jni, curl, native
  <2> QED
    BY <2>1, <2>2, OrderKept
<1>17. ASSUME NEW r \in Requests, End(r)
       PROVE  ToldInOrder'
  <2>1. UNCHANGED <<looper, delivered>>
    BY <1>17 DEF End, main, app, java, work, inbox, jni, curl, native
  <2>2. \A q \in Requests : stage[q] = "done" => stage'[q] = "done"
    BY <1>17 DEF End, Step, TypeOK, main, app, java, work, inbox, jni, curl, native
  <2> QED
    BY <2>1, <2>2, OrderKept
<1>18. ASSUME NEW r \in Requests, TestRef(r)
       PROVE  ToldInOrder'
  <2>1. UNCHANGED <<looper, delivered>>
    BY <1>18 DEF TestRef, main, app, java, work, inbox, jni, curl, native
  <2>2. \A q \in Requests : stage[q] = "done" => stage'[q] = "done"
    BY <1>18 DEF TestRef, Step, Resume, TypeOK, main, app, java, work, inbox, jni, curl, native
  <2> QED
    BY <2>1, <2>2, OrderKept
<1>19. ASSUME NEW r \in Requests, CallBack(r)
       PROVE  ToldInOrder'
  <2> DEFINE m == [request |-> r, event |-> event[r]]
  <2>1. looper' = Append(looper, m) /\ delivered' = delivered /\ stage[r] = "call"
    BY <1>19 DEF CallBack, Posted, Step
  <2>2. looper \in Seq(Messages) /\ m \in Messages /\ m.request = r /\ m.event = event[r]
    BY DEF TypeOK, Messages
  <2>3. Len(looper) \in Nat /\ DOMAIN looper = 1 .. Len(looper)
    BY <2>2, AppendedSeq
  <2>4. DOMAIN looper' = 1 .. Len(looper) + 1
     /\ looper'[Len(looper) + 1] = m
     /\ \A i \in 1 .. Len(looper) : looper'[i] = looper[i]
    BY <2>1, <2>2, AppendedSeq
  <2>5. stage' = [stage EXCEPT ![r] = IF event[r] = "progress" THEN "transfer" ELSE "done"]
    BY <1>19 DEF CallBack, Step, Resume
  <2>6. \A i \in 1 .. Len(looper) : looper[i].request = r => looper[i].event \notin Final
    BY <2>1, <2>3 DEF ToldInOrder
  <2>7. \A i \in DOMAIN delivered[r] : delivered[r][i] \notin Final
    BY <2>1 DEF ToldInOrder
  <2>8. \A i, j \in DOMAIN looper' :
           i < j /\ looper'[i].request = looper'[j].request => looper'[i].event \notin Final
    <3> SUFFICES ASSUME NEW i \in DOMAIN looper', NEW j \in DOMAIN looper', i < j,
                        looper'[i].request = looper'[j].request
                 PROVE  looper'[i].event \notin Final
      OBVIOUS
    <3>1. i \in 1 .. Len(looper) /\ looper'[i] = looper[i]
      BY <2>3, <2>4
    <3>2. CASE j \in 1 .. Len(looper)
      BY <3>1, <3>2, <2>3, <2>4 DEF ToldInOrder
    <3>3. CASE j = Len(looper) + 1
      <4>1. looper'[j].request = r
        BY <3>3, <2>4
      <4> QED
        BY <4>1, <3>1, <2>6
    <3> QED
      BY <3>2, <3>3, <2>3, <2>4
  <2>9. \A i \in DOMAIN looper' :
           looper'[i].event \in Final => stage'[looper'[i].request] = "done"
    <3> SUFFICES ASSUME NEW i \in DOMAIN looper', looper'[i].event \in Final
                 PROVE  stage'[looper'[i].request] = "done"
      OBVIOUS
    <3>1. CASE i \in 1 .. Len(looper)
      <4>1. looper'[i] = looper[i] /\ looper[i].request \in Requests
        BY <3>1, <2>2, <2>3, <2>4, MessageOfLooper, MessageFields
      <4>2. looper[i].request # r /\ stage[looper[i].request] = "done"
        BY <4>1, <3>1, <2>3, <2>6 DEF ToldInOrder
      <4> QED
        BY <4>1, <4>2, <2>5 DEF TypeOK
    <3>2. CASE i = Len(looper) + 1
      <4>1. looper'[i] = m /\ event[r] # "progress"
        BY <3>2, <2>2, <2>4 DEF Final
      <4> QED
        BY <4>1, <2>2, <2>5 DEF TypeOK
    <3> QED
      BY <3>1, <3>2, <2>3, <2>4
  <2>10. ASSUME NEW q \in Requests, NEW i \in DOMAIN delivered[q], delivered[q][i] \in Final
         PROVE  /\ i = Len(delivered[q]) /\ stage'[q] = "done"
                /\ \A j \in DOMAIN looper' : looper'[j].request # q
    <3>1. q # r
      BY <2>7, <2>10
    <3>2. i = Len(delivered[q]) /\ stage[q] = "done"
       /\ \A j \in DOMAIN looper : looper[j].request # q
      BY <2>10 DEF ToldInOrder
    <3>3. stage'[q] = "done"
      BY <3>1, <3>2, <2>5 DEF TypeOK
    <3>4. \A j \in DOMAIN looper' : looper'[j].request # q
      BY <3>1, <3>2, <2>3, <2>4
    <3> QED
      BY <3>2, <3>3, <3>4
  <2> QED
    BY <2>1, <2>8, <2>9, <2>10 DEF ToldInOrder
<1>20. ASSUME NEW r \in Requests, CallBackNobody(r)
       PROVE  ToldInOrder'
  <2>1. UNCHANGED <<looper, delivered>>
    BY <1>20 DEF CallBackNobody, main, app, java, work, inbox, jni, curl, native
  <2>2. \A q \in Requests : stage[q] = "done" => stage'[q] = "done"
    BY <1>20 DEF CallBackNobody, Step, Resume, TypeOK, main, app, java, work, inbox, jni, curl, native
  <2> QED
    BY <2>1, <2>2, OrderKept
<1>21. CASE InitAgain
  <2>1. UNCHANGED <<looper, delivered>>
    BY <1>21 DEF InitAgain, main, app, java, work, inbox, jni, curl, native
  <2>2. \A q \in Requests : stage[q] = "done" => stage'[q] = "done"
    BY <1>21 DEF InitAgain, TypeOK, main, app, java, work, inbox, jni, curl, native
  <2> QED
    BY <2>1, <2>2, OrderKept
<1>22. ASSUME NEW r \in Requests, CallDeleted(r)
       PROVE  ToldInOrder'
  <2>1. UNCHANGED <<looper, delivered>>
    BY <1>22 DEF CallDeleted, main, app, java, work, inbox, jni, curl, native
  <2>2. \A q \in Requests : stage[q] = "done" => stage'[q] = "done"
    BY <1>22 DEF CallDeleted, TypeOK, main, app, java, work, inbox, jni, curl, native
  <2> QED
    BY <2>1, <2>2, OrderKept
<1>99. QED
  BY <1>1, <1>2, <1>3, <1>4, <1>5, <1>6, <1>7, <1>8, <1>9, <1>10, <1>11, <1>12, <1>13, <1>14, <1>15, <1>16, <1>17, <1>18, <1>19, <1>20, <1>21, <1>22 DEF Next, Main, Worker
-------------------------------------------------------------------------------
LEMMA InitIInv == Init => IInv
<1> USE LifecycleAssumption
<1> SUFFICES ASSUME Init PROVE IInv
  OBVIOUS
<1>1. TypeOK
  <2>1. pool \in [Requests -> Nat] /\ reported \in [Requests -> 0 .. MaxProgress]
    BY DEF Init
  <2>2. looper \in Seq([request : Requests, event : Events])
    BY DEF Init
  <2>3. together \in BOOLEAN
    BY Zenon DEF Init
  <2> QED
    BY <2>1, <2>2, <2>3 DEF Init, TypeOK, Doing, Stages, Events
<1>2. PoolInv /\ RefInv /\ CurlInv /\ RegisteredInv
  BY DEF Init, PoolInv, RefInv, CurlInv, RegisteredInv, Running
<1>3. ToldInOrder
  BY DEF Init, ToldInOrder
<1> QED
  BY <1>1, <1>2, <1>3 DEF IInv

LEMMA NextIInv == IInv /\ [Next]_vars => IInv'
<1> SUFFICES ASSUME IInv, [Next]_vars PROVE IInv'
  OBVIOUS
<1>1. CASE Next
  BY <1>1, TypeStep, PoolStep, RefStep, CurlStep, RegisteredStep, OrderStep DEF IInv
<1>2. CASE UNCHANGED vars
  <2>1. TypeOK'
    BY <1>2 DEF IInv, TypeOK, vars, main, app, java, work, inbox, jni, curl, native
  <2>2. PoolInv' /\ RefInv' /\ CurlInv' /\ RegisteredInv'
    BY <1>2 DEF IInv, PoolInv, RefInv, CurlInv, RegisteredInv, vars, main, app, java, work, inbox, jni, curl, native
  <2>3. ToldInOrder'
    BY <1>2 DEF IInv, ToldInOrder, vars, main, app, java, work, inbox, jni, curl, native
  <2> QED
    BY <2>1, <2>2, <2>3 DEF IInv
<1> QED
  BY <1>1, <1>2

(* The inductive invariant holds in every reachable state of the process. *)
THEOREM Invariance == Spec => []IInv
<1> QED
  BY InitIInv, NextIInv, PTL DEF Spec

(* Every variable keeps its type. *)
THEOREM TypeCorrect == Spec => []TypeOK
<1>1. IInv => TypeOK
  BY DEF IInv
<1> QED
  BY <1>1, Invariance, PTL

(* No worker calls through a deleted global reference, unless an init without an uninit
   is just replacing it, and none is left behind. *)
THEOREM ReferencesLive == Spec => []RefsAreLive
<1>1. IInv => RefsAreLive
  BY LifecycleAssumption DEF IInv, PoolInv, RefInv, RefsAreLive, Running, TypeOK
<1> QED
  BY <1>1, Invariance, PTL

(* No transfer is under way while libcurl is not initialised. *)
THEOREM CurlStaysInitialised == Spec => []TransfersInitialised
<1>1. IInv => TransfersInitialised
  BY LifecycleAssumption DEF IInv, PoolInv, CurlInv, TransfersInitialised, Running, TypeOK
<1> QED
  BY <1>1, Invariance, PTL

(* No request runs before its callback is registered. *)
THEOREM AnswersFindTheirCallback == Spec => []AnswerRegistered
<1>1. IInv => AnswerRegistered
  BY LifecycleAssumption DEF IInv, RegisteredInv, AnswerRegistered, Running
<1> QED
  BY <1>1, Invariance, PTL

(* Whatever init and uninit do, a worker has what it relies on. *)
THEOREM WorkersAreServed == Spec => []WorkersServed
  BY ReferencesLive, CurlStaysInitialised, AnswersFindTheirCallback, PTL DEF WorkersServed

(* A callback is told its progress in order and one answer at the end. *)
THEOREM CallbacksInOrder == Spec => []ToldInOrder
<1>1. IInv => ToldInOrder
  BY DEF IInv
<1> QED
  BY <1>1, Invariance, PTL

-------------------------------------------------------------------------------
(* Where activities follow each other: the fields and the native managers. *)

(* An activity that is alive finds the pool; a field that is set names a manager
   that is configured; and where no activity is alive no field is set. *)
DemoInv ==
    /\ \A a, b \in alive : a = b
    /\ alive # {} /\ ui \in {"looper", "commit"} => g_threadpool = "open"
    /\ ui = "commit" => alive # {} /\ m_request_managers[via[current]] = "configured"
    /\ ui \in {"uninit", "join", "cleanup", "forget"} /\ next = "forget" => alive = {}
    /\ alive = {} /\ ui = "looper" => \A f \in Fields : field[f] = Null
    /\ next = "init" /\ ui \in {"uninit", "join", "cleanup", "init", "ref", "newref"} =>
          \A f \in Fields : field[f] = Null
    /\ ui \in {"init", "ref", "newref"} => next = "init" \/ (next = "again" /\ alive # {})
    /\ ui = "forget" => next = "forget"
    /\ ui \in {"ref", "newref"} => g_threadpool = "open"
    /\ \A f \in Fields :
          field[f] # Null /\ ui # "forget" => m_request_managers[field[f]] = "configured"
    /\ \A r \in Requests : sent[r] # "empty"

(* Every step keeps it. *)
LEMMA DemoStep ==
    ASSUME TypeOK, PoolInv, ~together => DemoInv, Next, ~together'
    PROVE  DemoInv'
<1> USE LifecycleAssumption
<1>0. ~together /\ DemoInv
  BY DEF Next, Main, Worker, OnCreate, OnDestroy, Call, Forget, UnInit, Join, Cleanup,
         InitNative, DropRef, NewRef, Commit, CommitCrash, RunMessage, Start, GoInvalid,
         Report, End, TestRef, CallBack, CallBackNobody, CallDeleted, InitAgain, TypeOK, main, app
<1>1. ASSUME NEW a \in Activities, OnCreate(a)
       PROVE  DemoInv'
  BY <1>0, <1>1 DEF OnCreate, DemoInv, PoolInv, TypeOK, Doing, main, app, java, work, inbox, jni, curl, native
<1>2. ASSUME NEW a \in Activities, OnDestroy(a)
       PROVE  DemoInv'
  BY <1>0, <1>2 DEF OnDestroy, Left, DemoInv, PoolInv, TypeOK, Doing, main, app, java, work, inbox, jni, curl, native
<1>3. ASSUME NEW r \in Requests, NEW f \in Fields, Call(r, f)
       PROVE  DemoInv'
  <2>1. PICK k \in Hashes : Manager(f, k) /\ via' = [via EXCEPT ![r] = k]
    BY <1>0, <1>3 DEF Call
  <2>2. m_request_managers' \in [Hashes -> {"absent", "empty", "configured"}]
     /\ m_request_managers'[k] = "configured"
     /\ \A g \in Fields : field'[g] # Null => m_request_managers'[field'[g]] = "configured"
    <3>1. CASE field[f] = Null
      <4>1. /\ field' = [field EXCEPT ![f] = k]
            /\ m_request_managers' = [m_request_managers EXCEPT ![k] = "configured"]
        BY <2>1, <3>1 DEF Manager
      <4>2. \A g \in Fields : field[g] # Null => m_request_managers[field[g]] = "configured"
        BY <1>0, <1>3 DEF Call, DemoInv
      <4> QED
        BY <4>1, <4>2 DEF TypeOK
    <3>2. CASE field[f] # Null
      <4>1. UNCHANGED <<used, field, m_request_managers>> /\ k = field[f]
        BY <2>1, <3>2 DEF Manager
      <4> QED
        BY <4>1, <3>2, <1>0, <1>3 DEF Call, DemoInv, TypeOK
    <3> QED
      BY <3>1, <3>2
  <2>3. current' = r /\ via'[r] = k /\ ui' = "commit"
    BY <2>1, <1>3 DEF Call, TypeOK
  <2>4. UNCHANGED <<alive, next, g_threadpool, sent>> /\ alive # {} /\ ui = "looper"
    BY <1>3 DEF Call, app
  <2> QED
    BY <1>0, <2>2, <2>3, <2>4 DEF DemoInv
<1>4. CASE Forget
  BY <1>0, <1>4 DEF Forget, Forgotten, DemoInv, PoolInv, TypeOK, Doing, main, app, java, work, inbox, jni, curl, native
<1>5. CASE UnInit
  BY <1>0, <1>5 DEF UnInit, DemoInv, PoolInv, TypeOK, Doing, main, app, java, work, inbox, jni, curl, native
<1>6. CASE Join
  BY <1>0, <1>6 DEF Join, Joined, QueueDestroyed, DemoInv, PoolInv, TypeOK, Doing, main, app, java, work, inbox, jni, curl, native
<1>7. CASE Cleanup
  BY <1>0, <1>7 DEF Cleanup, OneLess, DemoInv, PoolInv, TypeOK, Doing, main, app, java, work, inbox, jni, curl, native
<1>8. CASE InitNative
  BY <1>0, <1>8 DEF InitNative, DemoInv, PoolInv, TypeOK, Doing, main, app, java, work, inbox, jni, curl, native
<1>9. CASE DropRef
  BY <1>0, <1>9 DEF DropRef, DemoInv, PoolInv, TypeOK, Doing, main, app, java, work, inbox, jni, curl, native
<1>10. CASE NewRef
  BY <1>0, <1>10 DEF NewRef, DemoInv, PoolInv, TypeOK, Doing, main, app, java, work, inbox, jni, curl, native
<1>11. ASSUME NEW r \in Requests, Commit(r)
       PROVE  DemoInv'
  BY <1>0, <1>11 DEF Commit, Found, DemoInv, PoolInv, TypeOK, Doing, main, app, java, work, inbox, jni, curl, native
<1>12. CASE CommitCrash
  BY <1>0, <1>12 DEF CommitCrash, DemoInv, PoolInv, TypeOK, Doing, main, app, java, work, inbox, jni, curl, native
<1>13. CASE RunMessage
  BY <1>0, <1>13 DEF RunMessage, DemoInv, PoolInv, TypeOK, Doing, main, app, java, work, inbox, jni, curl, native
<1>14. ASSUME NEW r \in Requests, Start(r)
       PROVE  DemoInv'
  BY <1>0, <1>14 DEF Start, MayStart, Step, DemoInv, PoolInv, TypeOK, Doing, main, app, java, work, inbox, jni, curl, native
<1>15. ASSUME NEW r \in Requests, GoInvalid(r)
       PROVE  DemoInv'
  BY <1>0, <1>15 DEF GoInvalid, Step, DemoInv, PoolInv, TypeOK, Doing, main, app, java, work, inbox, jni, curl, native
<1>16. ASSUME NEW r \in Requests, Report(r)
       PROVE  DemoInv'
  BY <1>0, <1>16 DEF Report, Step, DemoInv, PoolInv, TypeOK, Doing, main, app, java, work, inbox, jni, curl, native
<1>17. ASSUME NEW r \in Requests, End(r)
       PROVE  DemoInv'
  BY <1>0, <1>17 DEF End, Step, DemoInv, PoolInv, TypeOK, Doing, main, app, java, work, inbox, jni, curl, native
<1>18. ASSUME NEW r \in Requests, TestRef(r)
       PROVE  DemoInv'
  BY <1>0, <1>18 DEF TestRef, Step, Resume, DemoInv, PoolInv, TypeOK, Doing, main, app, java, work, inbox, jni, curl, native
<1>19. ASSUME NEW r \in Requests, CallBack(r)
       PROVE  DemoInv'
  BY <1>0, <1>19 DEF CallBack, Step, Resume, Posted, DemoInv, PoolInv, TypeOK, Doing, main, app, java, work, inbox, jni, curl, native
<1>20. ASSUME NEW r \in Requests, CallBackNobody(r)
       PROVE  DemoInv'
  BY <1>0, <1>20 DEF CallBackNobody, Step, Resume, DemoInv, PoolInv, TypeOK, Doing, main, app, java, work, inbox, jni, curl, native
<1>21. CASE InitAgain
  BY <1>0, <1>21 DEF InitAgain, DemoInv, PoolInv, TypeOK, Doing, main, app, java, work, inbox, jni, curl, native
<1>22. ASSUME NEW r \in Requests, CallDeleted(r)
       PROVE  DemoInv'
  <2>1. ui # "forget"
    BY <1>22 DEF CallDeleted, PoolInv, Running
  <2> QED
    BY <1>0, <1>22, <2>1 DEF CallDeleted, DemoInv, main, app, java, work, native
<1>99. QED
  BY <1>1, <1>2, <1>3, <1>4, <1>5, <1>6, <1>7, <1>8, <1>9, <1>10, <1>11, <1>12, <1>13, <1>14, <1>15, <1>16, <1>17, <1>18, <1>19, <1>20, <1>21, <1>22 DEF Next, Main, Worker

(* As long as no two activities have been alive at a time. *)
LEMMA DemoInvariance == Spec => [](~together => DemoInv)
<1>1. Init => DemoInv
  BY DEF Init, DemoInv
<1>2. IInv /\ (~together => DemoInv) /\ [Next]_vars => (~together => DemoInv)'
  <2> SUFFICES ASSUME IInv, ~together => DemoInv, [Next]_vars, ~together'
               PROVE  DemoInv'
    OBVIOUS
  <2>1. CASE Next
    BY <2>1, DemoStep DEF IInv
  <2>2. CASE UNCHANGED vars
    BY <2>2 DEF DemoInv, vars, main, app, java, work, inbox, jni, curl, native
  <2> QED
    BY <2>1, <2>2
<1> QED
  BY <1>1, <1>2, Invariance, PTL DEF Spec

(* No request is committed to a manager without host and certificate. *)
THEOREM ConfigurationKept == Spec => []SentConfigured
<1>1. (~together => DemoInv) => SentConfigured
  BY DEF DemoInv, SentConfigured
<1> QED
  BY <1>1, DemoInvariance, PTL

(* No request is committed without a pool. *)
THEOREM PoolThere == Spec => []RequestsFindTheirPool
<1>1. (~together => DemoInv) => RequestsFindTheirPool
  BY DEF DemoInv, RequestsFindTheirPool
<1> QED
  BY <1>1, DemoInvariance, PTL

(* Until activities overlap every request finds its manager and its pool as the
   application left them. *)
THEOREM ServedBeforeOverlap == Spec => []ServedUntilOverlap
  BY ConfigurationKept, PoolThere, PTL DEF ServedUntilOverlap

-------------------------------------------------------------------------------
(* The abstract specifications. *)

Said(r) == delivered[r] # <<>> /\ delivered[r][Len(delivered[r])] \in Final

(* What a caller knows changes only with a settled stage or a delivery. *)
LEMMA AnswerKept ==
    ASSUME delivered' = delivered,
           \A r \in Requests :
              \/ stage'[r] = stage[r]
              \/ /\ stage[r] \notin {"new", "silent", "dropped"}
                 /\ stage'[r] \notin {"new", "silent", "dropped"}
    PROVE  Answer' = Answer
<1> QED
  BY DEF Answer

LEMMA OwedUntilDone ==
    ASSUME TypeOK, ToldInOrder, NEW r \in Requests,
           stage[r] \notin {"new", "silent", "dropped", "done"}
    PROVE  Answer[r] = "owed"
<1>1. delivered[r] \in Seq(Events)
  BY DEF TypeOK
<1>2. delivered[r] # <<>> => Len(delivered[r]) \in DOMAIN delivered[r]
  BY <1>1
<1>3. ~ Said(r)
  BY <1>2 DEF Said, ToldInOrder
<1> QED
  BY <1>3 DEF Answer, Said

(* A request that is owed and whose stage becomes silent or dropped is lost. *)
LEMMA LostStep ==
    ASSUME TypeOK, ToldInOrder, delivered' = delivered, NEW r \in Requests,
           stage[r] \notin {"new", "silent", "dropped", "done"},
           NEW to \in {"silent", "dropped"}, stage' = [stage EXCEPT ![r] = to]
    PROVE  Promise!Lose(r)
<1>1. Answer[r] = "owed"
  BY OwedUntilDone
<1>2. Answer' = [Answer EXCEPT ![r] = "lost"]
  BY DEF Answer, TypeOK
<1> QED
  BY <1>1, <1>2 DEF Promise!Lose, Promise!Settle

(* Every step of the process is a step of RequestPromise or changes no answer. *)
LEMMA PromiseStep ==
    ASSUME TypeOK, PoolInv, ToldInOrder, Next
    PROVE  [Promise!Next]_Answer
<1> USE LifecycleAssumption
<1> DEFINE Goal == [Promise!Next]_Answer
<1>A. Answer' = Answer => Goal
  OBVIOUS
<1>L. ASSUME NEW r \in Requests, Promise!Lose(r)
      PROVE  Goal
  BY <1>L DEF Promise!Next
<1> HIDE DEF Goal
<1>1. ASSUME NEW a \in Activities, OnCreate(a)
       PROVE  Goal
  <2>1. delivered' = delivered
     /\ \A q \in Requests :
           \/ stage'[q] = stage[q]
           \/ /\ stage[q] \notin {"new", "silent", "dropped"}
              /\ stage'[q] \notin {"new", "silent", "dropped"}
    BY <1>1 DEF OnCreate, TypeOK, main, app, java, work, inbox, jni, curl, native
  <2> QED
    BY <2>1, <1>A, AnswerKept
<1>2. ASSUME NEW a \in Activities, OnDestroy(a)
       PROVE  Goal
  <2>1. delivered' = delivered
     /\ \A q \in Requests :
           \/ stage'[q] = stage[q]
           \/ /\ stage[q] \notin {"new", "silent", "dropped"}
              /\ stage'[q] \notin {"new", "silent", "dropped"}
    BY <1>2 DEF OnDestroy, Left, TypeOK, main, app, java, work, inbox, jni, curl, native
  <2> QED
    BY <2>1, <1>A, AnswerKept
<1>3. ASSUME NEW r \in Requests, NEW f \in Fields, Call(r, f)
       PROVE  Goal
  <2>1. delivered' = delivered /\ stage[r] = "new" /\ stage' = [stage EXCEPT ![r] = "commit"]
    BY <1>3 DEF Call, inbox
  <2>2. ~ Said(r)
    <3>1. delivered[r] \in Seq(Events)
      BY DEF TypeOK
    <3>2. delivered[r] # <<>> => Len(delivered[r]) \in DOMAIN delivered[r]
      BY <3>1
    <3> QED
      BY <2>1, <3>2 DEF Said, ToldInOrder
  <2>3. Answer[r] = "unasked" /\ Answer' = [Answer EXCEPT ![r] = "owed"]
    BY <2>1, <2>2 DEF Answer, Said, TypeOK
  <2> QED
    BY <2>3 DEF Goal, Promise!Next, Promise!Ask, Promise!Settle
<1>4. CASE Forget
  <2>1. delivered' = delivered
     /\ \A q \in Requests :
           \/ stage'[q] = stage[q]
           \/ /\ stage[q] \notin {"new", "silent", "dropped"}
              /\ stage'[q] \notin {"new", "silent", "dropped"}
    BY <1>4 DEF Forget, Forgotten, TypeOK, main, app, java, work, inbox, jni, curl, native
  <2> QED
    BY <2>1, <1>A, AnswerKept
<1>5. CASE UnInit
  <2>1. delivered' = delivered
     /\ \A q \in Requests :
           \/ stage'[q] = stage[q]
           \/ /\ stage[q] \notin {"new", "silent", "dropped"}
              /\ stage'[q] \notin {"new", "silent", "dropped"}
    BY <1>5 DEF UnInit, TypeOK, main, app, java, work, inbox, jni, curl, native
  <2> QED
    BY <2>1, <1>A, AnswerKept
<1>6. CASE Join
  <2> DEFINE lost == {r \in Requests : stage[r] = "queued"}
  <2>1. delivered' = delivered
     /\ stage' = [r \in Requests |-> IF stage[r] = "queued" THEN "dropped" ELSE stage[r]]
    BY <1>6 DEF Join, QueueDestroyed, inbox
  <2>2. \A r \in lost : Answer[r] = "owed"
    BY OwedUntilDone
  <2>3. Answer' = [r \in Requests |-> IF r \in lost THEN "lost" ELSE Answer[r]]
    BY <2>1 DEF Answer
  <2>4. lost \in SUBSET Requests
    OBVIOUS
  <2> HIDE DEF lost
  <2> QED
    BY <2>2, <2>3, <2>4 DEF Goal, Promise!Next, Promise!LoseAll
<1>7. CASE Cleanup
  <2>1. delivered' = delivered
     /\ \A q \in Requests :
           \/ stage'[q] = stage[q]
           \/ /\ stage[q] \notin {"new", "silent", "dropped"}
              /\ stage'[q] \notin {"new", "silent", "dropped"}
    BY <1>7 DEF Cleanup, OneLess, TypeOK, main, app, java, work, inbox, jni, curl, native
  <2> QED
    BY <2>1, <1>A, AnswerKept
<1>8. CASE InitNative
  <2>1. delivered' = delivered
     /\ \A q \in Requests :
           \/ stage'[q] = stage[q]
           \/ /\ stage[q] \notin {"new", "silent", "dropped"}
              /\ stage'[q] \notin {"new", "silent", "dropped"}
    BY <1>8 DEF InitNative, TypeOK, main, app, java, work, inbox, jni, curl, native
  <2> QED
    BY <2>1, <1>A, AnswerKept
<1>9. CASE DropRef
  <2>1. delivered' = delivered
     /\ \A q \in Requests :
           \/ stage'[q] = stage[q]
           \/ /\ stage[q] \notin {"new", "silent", "dropped"}
              /\ stage'[q] \notin {"new", "silent", "dropped"}
    BY <1>9 DEF DropRef, TypeOK, main, app, java, work, inbox, jni, curl, native
  <2> QED
    BY <2>1, <1>A, AnswerKept
<1>10. CASE NewRef
  <2>1. delivered' = delivered
     /\ \A q \in Requests :
           \/ stage'[q] = stage[q]
           \/ /\ stage[q] \notin {"new", "silent", "dropped"}
              /\ stage'[q] \notin {"new", "silent", "dropped"}
    BY <1>10 DEF NewRef, TypeOK, main, app, java, work, inbox, jni, curl, native
  <2> QED
    BY <2>1, <1>A, AnswerKept
<1>11. ASSUME NEW r \in Requests, Commit(r)
       PROVE  Goal
  <2>1. delivered' = delivered /\ stage[r] = "commit"
    BY <1>11 DEF Commit, Found, PoolInv, main, app, java, work, inbox, jni, curl, native
  <2>2. PICK to \in {"queued", "dropped"} : stage' = [stage EXCEPT ![r] = to]
    BY <1>11 DEF Commit, Found
  <2>3. CASE to \in {"silent", "dropped"}
    <3>1. Promise!Lose(r)
      BY <2>1, <2>2, <2>3, LostStep
    <3> QED
      BY <3>1, <1>L
  <2>4. CASE to \notin {"new", "silent", "dropped"}
    <3>1. \A q \in Requests :
             \/ stage'[q] = stage[q]
             \/ /\ stage[q] \notin {"new", "silent", "dropped"}
                /\ stage'[q] \notin {"new", "silent", "dropped"}
      BY <2>1, <2>2, <2>4 DEF TypeOK
    <3> QED
      BY <2>1, <3>1, <1>A, AnswerKept
  <2> QED
    BY <2>2, <2>3, <2>4
<1>12. CASE CommitCrash
  <2>1. delivered' = delivered
     /\ \A q \in Requests :
           \/ stage'[q] = stage[q]
           \/ /\ stage[q] \notin {"new", "silent", "dropped"}
              /\ stage'[q] \notin {"new", "silent", "dropped"}
    BY <1>12 DEF CommitCrash, TypeOK, main, app, java, work, inbox, jni, curl, native
  <2> QED
    BY <2>1, <1>A, AnswerKept
<1>13. CASE RunMessage
  <2> DEFINE m == Head(looper)
             q == m.request
  <2>1. looper \in Seq(Messages) /\ looper # <<>>
    BY <1>13 DEF RunMessage, TypeOK, Messages
  <2>2. m \in Messages /\ 1 \in DOMAIN looper /\ looper[1] = m
    BY <2>1, TailedSeq
  <2>3. q \in Requests /\ m.event \in Events
    BY <2>2, MessageFields
  <2>4. delivered' = [delivered EXCEPT ![q] = Append(delivered[q], m.event)] /\ stage' = stage
    BY <1>13 DEF RunMessage, main, app, java, work, inbox, jni, curl, native
  <2>5. delivered[q] \in Seq(Events) /\ delivered'[q] = Append(delivered[q], m.event)
    BY <2>3, <2>4 DEF TypeOK
  <2>6. delivered'[q] # <<>> /\ delivered'[q][Len(delivered'[q])] = m.event
    BY <2>3, <2>5, AppendedSeq
  <2>7. delivered[q] # <<>> => Len(delivered[q]) \in DOMAIN delivered[q]
    BY <2>5
  <2>8. ~ Said(q)
    BY <2>2, <2>3, <2>7 DEF Said, ToldInOrder
  <2>9. \A r \in Requests : r # q => Answer'[r] = Answer[r]
    BY <2>4 DEF Answer, TypeOK
  <2>10. CASE m.event \notin Final
    <3>1. Answer'[q] = Answer[q]
      BY <2>3, <2>4, <2>6, <2>8, <2>10 DEF Answer, Said
    <3>2. Answer' = Answer
      BY <3>1, <2>9 DEF Answer
    <3> QED
      BY <3>2, <1>A
  <2>11. CASE m.event \in Final
    <3>1. stage[q] = "done"
      BY <2>2, <2>11 DEF ToldInOrder
    <3>2. Answer[q] = "owed" /\ Answer'[q] = m.event
      BY <2>3, <2>4, <2>6, <2>8, <2>11, <3>1 DEF Answer, Said
    <3>3. Answer' = [Answer EXCEPT ![q] = m.event]
      BY <3>2, <2>3, <2>9 DEF Answer
    <3>4. Promise!Succeed(q) \/ Promise!Fail(q)
      BY <3>2, <3>3, <2>11 DEF Promise!Succeed, Promise!Fail, Promise!Settle, Final
    <3> QED
      BY <3>4, <2>3 DEF Goal, Promise!Next
  <2> QED
    BY <2>10, <2>11
<1>14. ASSUME NEW r \in Requests, Start(r)
       PROVE  Goal
  <2>1. delivered' = delivered
     /\ \A q \in Requests :
           \/ stage'[q] = stage[q]
           \/ /\ stage[q] \notin {"new", "silent", "dropped"}
              /\ stage'[q] \notin {"new", "silent", "dropped"}
    BY <1>14 DEF Start, MayStart, Step, TypeOK, main, app, java, work, inbox, jni, curl, native
  <2> QED
    BY <2>1, <1>A, AnswerKept
<1>15. ASSUME NEW r \in Requests, GoInvalid(r)
       PROVE  Goal
  <2>1. delivered' = delivered /\ stage[r] = "transfer"
    BY <1>15 DEF GoInvalid, Step, main, app, java, work, inbox, jni, curl, native
  <2>2. PICK to \in {"silent"} : stage' = [stage EXCEPT ![r] = to]
    BY <1>15 DEF GoInvalid, Step
  <2>3. CASE to \in {"silent", "dropped"}
    <3>1. Promise!Lose(r)
      BY <2>1, <2>2, <2>3, LostStep
    <3> QED
      BY <3>1, <1>L
  <2>4. CASE to \notin {"new", "silent", "dropped"}
    <3>1. \A q \in Requests :
             \/ stage'[q] = stage[q]
             \/ /\ stage[q] \notin {"new", "silent", "dropped"}
                /\ stage'[q] \notin {"new", "silent", "dropped"}
      BY <2>1, <2>2, <2>4 DEF TypeOK
    <3> QED
      BY <2>1, <3>1, <1>A, AnswerKept
  <2> QED
    BY <2>2, <2>3, <2>4
<1>16. ASSUME NEW r \in Requests, Report(r)
       PROVE  Goal
  <2>1. delivered' = delivered
     /\ \A q \in Requests :
           \/ stage'[q] = stage[q]
           \/ /\ stage[q] \notin {"new", "silent", "dropped"}
              /\ stage'[q] \notin {"new", "silent", "dropped"}
    BY <1>16 DEF Report, Step, TypeOK, main, app, java, work, inbox, jni, curl, native
  <2> QED
    BY <2>1, <1>A, AnswerKept
<1>17. ASSUME NEW r \in Requests, End(r)
       PROVE  Goal
  <2>1. delivered' = delivered
     /\ \A q \in Requests :
           \/ stage'[q] = stage[q]
           \/ /\ stage[q] \notin {"new", "silent", "dropped"}
              /\ stage'[q] \notin {"new", "silent", "dropped"}
    BY <1>17 DEF End, Step, TypeOK, main, app, java, work, inbox, jni, curl, native
  <2> QED
    BY <2>1, <1>A, AnswerKept
<1>18. ASSUME NEW r \in Requests, TestRef(r)
       PROVE  Goal
  <2>1. delivered' = delivered /\ stage[r] = "test"
    BY <1>18 DEF TestRef, Step, Resume, main, app, java, work, inbox, jni, curl, native
  <2>2. PICK to \in {"call", "transfer", "silent"} : stage' = [stage EXCEPT ![r] = to]
    BY <1>18 DEF TestRef, Step, Resume
  <2>3. CASE to \in {"silent", "dropped"}
    <3>1. Promise!Lose(r)
      BY <2>1, <2>2, <2>3, LostStep
    <3> QED
      BY <3>1, <1>L
  <2>4. CASE to \notin {"new", "silent", "dropped"}
    <3>1. \A q \in Requests :
             \/ stage'[q] = stage[q]
             \/ /\ stage[q] \notin {"new", "silent", "dropped"}
                /\ stage'[q] \notin {"new", "silent", "dropped"}
      BY <2>1, <2>2, <2>4 DEF TypeOK
    <3> QED
      BY <2>1, <3>1, <1>A, AnswerKept
  <2> QED
    BY <2>2, <2>3, <2>4
<1>19. ASSUME NEW r \in Requests, CallBack(r)
       PROVE  Goal
  <2>1. delivered' = delivered
     /\ \A q \in Requests :
           \/ stage'[q] = stage[q]
           \/ /\ stage[q] \notin {"new", "silent", "dropped"}
              /\ stage'[q] \notin {"new", "silent", "dropped"}
    BY <1>19 DEF CallBack, Step, Resume, Posted, TypeOK, main, app, java, work, inbox, jni, curl, native
  <2> QED
    BY <2>1, <1>A, AnswerKept
<1>20. ASSUME NEW r \in Requests, CallBackNobody(r)
       PROVE  Goal
  <2>1. delivered' = delivered /\ stage[r] = "call"
    BY <1>20 DEF CallBackNobody, Step, Resume, main, app, java, work, inbox, jni, curl, native
  <2>2. PICK to \in {"transfer", "silent"} : stage' = [stage EXCEPT ![r] = to]
    BY <1>20 DEF CallBackNobody, Step, Resume
  <2>3. CASE to \in {"silent", "dropped"}
    <3>1. Promise!Lose(r)
      BY <2>1, <2>2, <2>3, LostStep
    <3> QED
      BY <3>1, <1>L
  <2>4. CASE to \notin {"new", "silent", "dropped"}
    <3>1. \A q \in Requests :
             \/ stage'[q] = stage[q]
             \/ /\ stage[q] \notin {"new", "silent", "dropped"}
                /\ stage'[q] \notin {"new", "silent", "dropped"}
      BY <2>1, <2>2, <2>4 DEF TypeOK
    <3> QED
      BY <2>1, <3>1, <1>A, AnswerKept
  <2> QED
    BY <2>2, <2>3, <2>4
<1>21. CASE InitAgain
  <2>1. UNCHANGED <<stage, delivered>>
    BY <1>21 DEF InitAgain, main, app, java, work, inbox, jni, curl, native
  <2> QED
    BY <2>1, <1>A, AnswerKept
<1>22. ASSUME NEW r \in Requests, CallDeleted(r)
       PROVE  Goal
  <2>1. UNCHANGED <<stage, delivered>>
    BY <1>22 DEF CallDeleted, main, app, java, work, inbox, jni, curl, native
  <2> QED
    BY <2>1, <1>A, AnswerKept
<1>99. QED
  BY <1>1, <1>2, <1>3, <1>4, <1>5, <1>6, <1>7, <1>8, <1>9, <1>10, <1>11, <1>12, <1>13, <1>14, <1>15, <1>16, <1>17, <1>18, <1>19, <1>20, <1>21, <1>22 DEF Goal, Next, Main, Worker

(* A caller sees what RequestPromise promises: one answer at most, nothing after
   it, and an answer or a loss only for what was asked. *)
THEOREM ImplementsPromise == Spec => KeepsPromise
<1>1. Init => Promise!Init
  BY DEF Init, Promise!Init, Answer
<1>2. IInv /\ [Next]_vars => [Promise!Next]_Answer
  <2> SUFFICES ASSUME IInv, [Next]_vars PROVE [Promise!Next]_Answer
    OBVIOUS
  <2>1. CASE Next
    BY <2>1, PromiseStep DEF IInv
  <2>2. CASE UNCHANGED vars
    BY <2>2 DEF Answer, vars, work, inbox
  <2> QED
    BY <2>1, <2>2
<1> QED
  BY <1>1, <1>2, Invariance, PTL DEF Spec, KeepsPromise, Promise!Spec

(* Which pool a request was committed to. *)
GenInv ==
    /\ g_threadpool # Null => gen > 0
    /\ \A r \in Requests :
          /\ pool[r] <= gen
          /\ stage[r] \in {"new", "commit"} => pool[r] = 0
          /\ stage[r] \in Running \cup {"queued"} => pool[r] = gen

(* Every step keeps the pools of the requests. *)
LEMMA GenStep ==
    ASSUME TypeOK, PoolInv, GenInv, Next
    PROVE  GenInv'
<1> USE LifecycleAssumption
<1>1. ASSUME NEW a \in Activities, OnCreate(a)
       PROVE  GenInv'
  BY <1>1 DEF OnCreate, GenInv, PoolInv, TypeOK, Stages, Running, main, app, java, work, inbox, jni, curl, native
<1>2. ASSUME NEW a \in Activities, OnDestroy(a)
       PROVE  GenInv'
  BY <1>2 DEF OnDestroy, Left, GenInv, PoolInv, TypeOK, Stages, Running, main, app, java, work, inbox, jni, curl, native
<1>3. ASSUME NEW r \in Requests, NEW f \in Fields, Call(r, f)
       PROVE  GenInv'
  BY <1>3 DEF Call, Manager, Registered, GenInv, PoolInv, TypeOK, Stages, Running, main, app, java, work, inbox, jni, curl, native
<1>4. CASE Forget
  BY <1>4 DEF Forget, Forgotten, GenInv, PoolInv, TypeOK, Stages, Running, main, app, java, work, inbox, jni, curl, native
<1>5. CASE UnInit
  BY <1>5 DEF UnInit, GenInv, PoolInv, TypeOK, Stages, Running, main, app, java, work, inbox, jni, curl, native
<1>6. CASE Join
  BY <1>6 DEF Join, Joined, QueueDestroyed, GenInv, PoolInv, TypeOK, Stages, Running, main, app, java, work, inbox, jni, curl, native
<1>7. CASE Cleanup
  BY <1>7 DEF Cleanup, OneLess, GenInv, PoolInv, TypeOK, Stages, Running, main, app, java, work, inbox, jni, curl, native
<1>8. CASE InitNative
  BY <1>8 DEF InitNative, GenInv, PoolInv, TypeOK, Stages, Running, main, app, java, work, inbox, jni, curl, native
<1>9. CASE DropRef
  BY <1>9 DEF DropRef, GenInv, PoolInv, TypeOK, Stages, Running, main, app, java, work, inbox, jni, curl, native
<1>10. CASE NewRef
  BY <1>10 DEF NewRef, GenInv, PoolInv, TypeOK, Stages, Running, main, app, java, work, inbox, jni, curl, native
<1>11. ASSUME NEW r \in Requests, Commit(r)
       PROVE  GenInv'
  BY <1>11 DEF Commit, Found, GenInv, PoolInv, TypeOK, Stages, Running, main, app, java, work, inbox, jni, curl, native
<1>12. CASE CommitCrash
  BY <1>12 DEF CommitCrash, GenInv, PoolInv, TypeOK, Stages, Running, main, app, java, work, inbox, jni, curl, native
<1>13. CASE RunMessage
  BY <1>13 DEF RunMessage, GenInv, PoolInv, TypeOK, Stages, Running, main, app, java, work, inbox, jni, curl, native
<1>14. ASSUME NEW r \in Requests, Start(r)
       PROVE  GenInv'
  BY <1>14 DEF Start, MayStart, Step, GenInv, PoolInv, TypeOK, Stages, Running, main, app, java, work, inbox, jni, curl, native
<1>15. ASSUME NEW r \in Requests, GoInvalid(r)
       PROVE  GenInv'
  BY <1>15 DEF GoInvalid, Step, GenInv, PoolInv, TypeOK, Stages, Running, main, app, java, work, inbox, jni, curl, native
<1>16. ASSUME NEW r \in Requests, Report(r)
       PROVE  GenInv'
  BY <1>16 DEF Report, Step, GenInv, PoolInv, TypeOK, Stages, Running, main, app, java, work, inbox, jni, curl, native
<1>17. ASSUME NEW r \in Requests, End(r)
       PROVE  GenInv'
  BY <1>17 DEF End, Step, GenInv, PoolInv, TypeOK, Stages, Running, main, app, java, work, inbox, jni, curl, native
<1>18. ASSUME NEW r \in Requests, TestRef(r)
       PROVE  GenInv'
  BY <1>18 DEF TestRef, Step, Resume, GenInv, PoolInv, TypeOK, Stages, Running, main, app, java, work, inbox, jni, curl, native
<1>19. ASSUME NEW r \in Requests, CallBack(r)
       PROVE  GenInv'
  BY <1>19 DEF CallBack, Step, Resume, Posted, GenInv, PoolInv, TypeOK, Stages, Running, main, app, java, work, inbox, jni, curl, native
<1>20. ASSUME NEW r \in Requests, CallBackNobody(r)
       PROVE  GenInv'
  BY <1>20 DEF CallBackNobody, Step, Resume, GenInv, PoolInv, TypeOK, Stages, Running, main, app, java, work, inbox, jni, curl, native
<1>21. CASE InitAgain
  BY <1>21 DEF InitAgain, GenInv, PoolInv, TypeOK, Stages, Running, main, app, java, work, inbox, jni, curl, native
<1>22. ASSUME NEW r \in Requests, CallDeleted(r)
       PROVE  GenInv'
  BY <1>22 DEF CallDeleted, GenInv, PoolInv, TypeOK, Stages, Running, main, app, java, work, inbox, jni, curl, native
<1>99. QED
  BY <1>1, <1>2, <1>3, <1>4, <1>5, <1>6, <1>7, <1>8, <1>9, <1>10, <1>11, <1>12, <1>13, <1>14, <1>15, <1>16, <1>17, <1>18, <1>19, <1>20, <1>21, <1>22 DEF Next, Main, Worker

LEMMA GenInvariance == Spec => []GenInv
<1>1. Init => GenInv
  BY DEF Init, GenInv, Running
<1>2. IInv /\ GenInv /\ [Next]_vars => GenInv'
  <2> SUFFICES ASSUME IInv, GenInv, [Next]_vars PROVE GenInv'
    OBVIOUS
  <2>1. CASE Next
    BY <2>1, GenStep DEF IInv
  <2>2. CASE UNCHANGED vars
    BY <2>2 DEF GenInv, vars, main, app, java, work, inbox, jni, curl, native
  <2> QED
    BY <2>1, <2>2
<1> QED
  BY <1>1, <1>2, Invariance, PTL DEF Spec

(* An executor does not see a step that changes neither its pool nor a status. *)
LEMMA ExecutorKept ==
    ASSUME NEW g \in Pools, pool' = pool, gen' = gen, g_threadpool' = g_threadpool,
           \A r \in Requests :
              \/ stage'[r] = stage[r]
              \/ stage[r] \in Running /\ stage'[r] \in Running
              \/ pool[r] # g
    PROVE  UNCHANGED Executor(g)!vars
<1>1. ExecutorOpen(g)' = ExecutorOpen(g)
  BY DEF ExecutorOpen
<1>2. ExecutorStatus(g)' = ExecutorStatus(g)
  BY DEF ExecutorStatus
<1> QED
  BY <1>1, <1>2 DEF Executor!vars

LEMMA ExecutorFinish ==
    ASSUME TypeOK, PoolInv, GenInv, NEW g \in Pools, NEW r \in Requests,
           UNCHANGED <<pool, gen, g_threadpool>>,
           stage[r] \in Running, NEW to \in {"done", "silent"},
           stage' = [stage EXCEPT ![r] = to]
    PROVE  [Executor(g)!Next]_(Executor(g)!vars)
<1> USE LifecycleAssumption
<1>1. pool[r] = gen /\ g_threadpool # Null
  BY DEF GenInv, PoolInv, Running
<1>2. CASE g = gen
  <2>1. ExecutorStatus(g)[r] = "running"
    BY <1>1, <1>2 DEF ExecutorStatus
  <2>2. ExecutorStatus(g)' = [ExecutorStatus(g) EXCEPT ![r] = "done"]
    BY <1>1, <1>2 DEF ExecutorStatus, TypeOK, Running
  <2>3. ExecutorOpen(g)' = ExecutorOpen(g) /\ ExecutorOpen(g) # "terminated"
    BY <1>1, <1>2 DEF ExecutorOpen, TypeOK
  <2> QED
    BY <2>1, <2>2, <2>3 DEF Executor!Next, Executor!Finish, Executor!Move
<1>3. CASE g # gen
  BY <1>1, <1>3, ExecutorKept DEF TypeOK
<1> QED
  BY <1>2, <1>3

(* Every step of the process is a step of each executor or changes nothing in it. *)
LEMMA ExecutorStep ==
    ASSUME TypeOK, PoolInv, GenInv, Next, NEW g \in Pools
    PROVE  [Executor(g)!Next]_(Executor(g)!vars)
<1> USE LifecycleAssumption
<1> DEFINE Goal == [Executor(g)!Next]_(Executor(g)!vars)
<1>U. UNCHANGED Executor(g)!vars => Goal
  OBVIOUS
<1>N. Executor(g)!Next => Goal
  OBVIOUS
<1>P. g \in Nat /\ g > 0
  BY DEF Pools
<1>F. \A r \in Requests, to \in {"done", "silent"} :
         /\ UNCHANGED <<pool, gen, g_threadpool>>
         /\ stage[r] \in Running /\ stage' = [stage EXCEPT ![r] = to]
         => Goal
  BY ExecutorFinish
<1> HIDE DEF Goal
<1>1. ASSUME NEW a \in Activities, OnCreate(a)
       PROVE  Goal
  <2>1. pool' = pool /\ gen' = gen /\ g_threadpool' = g_threadpool
     /\ \A q \in Requests :
           \/ stage'[q] = stage[q]
           \/ stage[q] \in Running /\ stage'[q] \in Running
           \/ pool[q] # g
    BY <1>1, <1>P DEF OnCreate, GenInv, TypeOK, Running, main, app, java, work, inbox, jni, curl, native
  <2> QED
    BY <2>1, <1>U, ExecutorKept
<1>2. ASSUME NEW a \in Activities, OnDestroy(a)
       PROVE  Goal
  <2>1. pool' = pool /\ gen' = gen /\ g_threadpool' = g_threadpool
     /\ \A q \in Requests :
           \/ stage'[q] = stage[q]
           \/ stage[q] \in Running /\ stage'[q] \in Running
           \/ pool[q] # g
    BY <1>2, <1>P DEF OnDestroy, Left, GenInv, TypeOK, Running, main, app, java, work, inbox, jni, curl, native
  <2> QED
    BY <2>1, <1>U, ExecutorKept
<1>3. ASSUME NEW r \in Requests, NEW f \in Fields, Call(r, f)
       PROVE  Goal
  <2>1. pool' = pool /\ gen' = gen /\ g_threadpool' = g_threadpool
     /\ \A q \in Requests :
           \/ stage'[q] = stage[q]
           \/ stage[q] \in Running /\ stage'[q] \in Running
           \/ pool[q] # g
    BY <1>3, <1>P DEF Call, Manager, Registered, GenInv, TypeOK, Running, main, app, java, work, inbox, jni, curl, native
  <2> QED
    BY <2>1, <1>U, ExecutorKept
<1>4. CASE Forget
  <2>1. pool' = pool /\ gen' = gen /\ g_threadpool' = g_threadpool
     /\ \A q \in Requests :
           \/ stage'[q] = stage[q]
           \/ stage[q] \in Running /\ stage'[q] \in Running
           \/ pool[q] # g
    BY <1>4, <1>P DEF Forget, Forgotten, GenInv, TypeOK, Running, main, app, java, work, inbox, jni, curl, native
  <2> QED
    BY <2>1, <1>U, ExecutorKept
<1>5. CASE UnInit
  <2>1. UNCHANGED <<pool, stage, gen>> /\ g_threadpool \in {Null, "open"}
     /\ g_threadpool' = IF g_threadpool = Null THEN Null ELSE "closed"
    BY <1>5 DEF UnInit, work, PoolInv, TypeOK
  <2>2. ExecutorStatus(g)' = ExecutorStatus(g)
    BY <2>1 DEF ExecutorStatus
  <2>3. CASE g = gen /\ g_threadpool = "open"
    <3>1. ExecutorOpen(g) = "open" /\ ExecutorOpen(g)' = "closed"
      BY <2>1, <2>3 DEF ExecutorOpen, TypeOK
    <3> QED
      BY <3>1, <2>2, <1>N DEF Executor!Next, Executor!Close
  <2>4. CASE g # gen \/ g_threadpool = Null
    <3>1. ExecutorOpen(g)' = ExecutorOpen(g)
      BY <2>1, <2>4, <1>P DEF ExecutorOpen, TypeOK
    <3> QED
      BY <3>1, <2>2, <1>U DEF Executor!vars
  <2> QED
    BY <2>1, <2>3, <2>4
<1>6. CASE Join
  <2>1. UNCHANGED <<pool, gen>> /\ g_threadpool' = Null /\ g_threadpool = "closed"
     /\ stage' = [r \in Requests |-> IF stage[r] = "queued" THEN "dropped" ELSE stage[r]]
     /\ \A r \in Requests : stage[r] \notin Running
    BY <1>6 DEF Join, Joined, QueueDestroyed, PoolInv
  <2>2. CASE g = gen
    <3>1. ExecutorOpen(g) = "closed" /\ ExecutorOpen(g)' = "terminated"
      BY <2>1, <2>2 DEF ExecutorOpen, TypeOK
    <3>2. \A r \in Requests : ExecutorStatus(g)[r] # "running"
      BY <2>1 DEF ExecutorStatus, TypeOK, Stages
    <3>3. ExecutorStatus(g)' = [r \in Requests |-> IF ExecutorStatus(g)[r] = "queued"
                                                  THEN "dropped" ELSE ExecutorStatus(g)[r]]
      BY <2>1 DEF ExecutorStatus, Running
    <3> QED
      BY <3>1, <3>2, <3>3, <1>N DEF Executor!Next, Executor!Terminate
  <2>3. CASE g # gen
    <3>1. ExecutorOpen(g)' = ExecutorOpen(g)
      BY <2>1, <2>3, <1>P DEF ExecutorOpen, TypeOK
    <3>2. ExecutorStatus(g)' = ExecutorStatus(g)
      BY <2>1, <2>3 DEF ExecutorStatus, GenInv, Running
    <3> QED
      BY <3>1, <3>2, <1>U DEF Executor!vars
  <2> QED
    BY <2>2, <2>3
<1>7. CASE Cleanup
  <2>1. pool' = pool /\ gen' = gen /\ g_threadpool' = g_threadpool
     /\ \A q \in Requests :
           \/ stage'[q] = stage[q]
           \/ stage[q] \in Running /\ stage'[q] \in Running
           \/ pool[q] # g
    BY <1>7, <1>P DEF Cleanup, OneLess, GenInv, TypeOK, Running, main, app, java, work, inbox, jni, curl, native
  <2> QED
    BY <2>1, <1>U, ExecutorKept
<1>8. CASE InitNative
  <2>1. UNCHANGED <<pool, stage>>
     /\ IF g_threadpool = Null THEN g_threadpool' = "open" /\ gen' = gen + 1
        ELSE UNCHANGED <<g_threadpool, gen>>
    BY <1>8 DEF InitNative, work
  <2>2. ExecutorStatus(g)' = ExecutorStatus(g)
    BY <2>1 DEF ExecutorStatus
  <2>3. ExecutorOpen(g)' = ExecutorOpen(g)
    BY <2>1, <1>P DEF ExecutorOpen, TypeOK
  <2> QED
    BY <2>2, <2>3, <1>U DEF Executor!vars
<1>9. CASE DropRef
  <2>1. pool' = pool /\ gen' = gen /\ g_threadpool' = g_threadpool
     /\ \A q \in Requests :
           \/ stage'[q] = stage[q]
           \/ stage[q] \in Running /\ stage'[q] \in Running
           \/ pool[q] # g
    BY <1>9, <1>P DEF DropRef, GenInv, TypeOK, Running, main, app, java, work, inbox, jni, curl, native
  <2> QED
    BY <2>1, <1>U, ExecutorKept
<1>10. CASE NewRef
  <2>1. pool' = pool /\ gen' = gen /\ g_threadpool' = g_threadpool
     /\ \A q \in Requests :
           \/ stage'[q] = stage[q]
           \/ stage[q] \in Running /\ stage'[q] \in Running
           \/ pool[q] # g
    BY <1>10, <1>P DEF NewRef, GenInv, TypeOK, Running, main, app, java, work, inbox, jni, curl, native
  <2> QED
    BY <2>1, <1>U, ExecutorKept
<1>11. ASSUME NEW r \in Requests, Commit(r)
       PROVE  Goal
  <2>1. UNCHANGED <<gen, g_threadpool>> /\ pool' = [pool EXCEPT ![r] = gen] /\ stage[r] = "commit"
     /\ pool[r] = 0 /\ g_threadpool = "open"
    BY <1>11 DEF Commit, native, PoolInv, GenInv, TypeOK
  <2>2. PICK to \in {"queued", "dropped"} : stage' = [stage EXCEPT ![r] = to]
    BY <1>11 DEF Commit
  <2>3. ExecutorOpen(g)' = ExecutorOpen(g)
    BY <2>1 DEF ExecutorOpen
  <2>4. CASE g = gen
    <3>1. ExecutorStatus(g)[r] = "new"
      BY <2>1, <1>P DEF ExecutorStatus
    <3>2. ExecutorStatus(g)' = [ExecutorStatus(g) EXCEPT ![r] = to]
      BY <2>1, <2>2, <2>4 DEF ExecutorStatus, TypeOK, Running
    <3>3. ExecutorOpen(g) = "open"
      BY <2>1, <2>4 DEF ExecutorOpen, TypeOK
    <3> QED
      BY <2>3, <3>1, <3>2, <3>3, <1>N
      DEF Executor!Next, Executor!Submit, Executor!Drop, Executor!Move
  <2>5. CASE g # gen
    <3>1. ExecutorStatus(g)' = ExecutorStatus(g)
      BY <2>1, <2>2, <2>5, <1>P DEF ExecutorStatus, TypeOK
    <3> QED
      BY <2>3, <3>1, <1>U DEF Executor!vars
  <2> QED
    BY <2>4, <2>5
<1>12. CASE CommitCrash
  <2>1. pool' = pool /\ gen' = gen /\ g_threadpool' = g_threadpool
     /\ \A q \in Requests :
           \/ stage'[q] = stage[q]
           \/ stage[q] \in Running /\ stage'[q] \in Running
           \/ pool[q] # g
    BY <1>12, <1>P DEF CommitCrash, GenInv, TypeOK, Running, main, app, java, work, inbox, jni, curl, native
  <2> QED
    BY <2>1, <1>U, ExecutorKept
<1>13. CASE RunMessage
  <2>1. pool' = pool /\ gen' = gen /\ g_threadpool' = g_threadpool
     /\ \A q \in Requests :
           \/ stage'[q] = stage[q]
           \/ stage[q] \in Running /\ stage'[q] \in Running
           \/ pool[q] # g
    BY <1>13, <1>P DEF RunMessage, GenInv, TypeOK, Running, main, app, java, work, inbox, jni, curl, native
  <2> QED
    BY <2>1, <1>U, ExecutorKept
<1>14. ASSUME NEW r \in Requests, Start(r)
       PROVE  Goal
  <2>1. UNCHANGED <<pool, gen, g_threadpool>> /\ g_threadpool = "open"
     /\ stage[r] = "queued" /\ stage' = [stage EXCEPT ![r] = "transfer"] /\ pool[r] = gen
    BY <1>14 DEF Start, MayStart, Step, GenInv, main, app, java, work, inbox, jni, curl, native
  <2>2. CASE g = gen
    <3>1. ExecutorStatus(g)[r] = "queued"
      BY <2>1, <2>2 DEF ExecutorStatus, Running
    <3>2. ExecutorStatus(g)' = [ExecutorStatus(g) EXCEPT ![r] = "running"]
      BY <2>1, <2>2 DEF ExecutorStatus, TypeOK, Running
    <3>3. ExecutorOpen(g)' = ExecutorOpen(g) /\ ExecutorOpen(g) = "open"
      BY <2>1, <2>2 DEF ExecutorOpen, TypeOK
    <3> QED
      BY <3>1, <3>2, <3>3, <1>N DEF Executor!Next, Executor!Start, Executor!Move
  <2>3. CASE g # gen
    BY <2>1, <2>3, <1>U, ExecutorKept DEF TypeOK
  <2> QED
    BY <2>2, <2>3
<1>15. ASSUME NEW r \in Requests, GoInvalid(r)
       PROVE  Goal
  <2>1. UNCHANGED <<pool, gen, g_threadpool>> /\ stage[r] = "transfer" /\ stage[r] \in Running
    BY <1>15 DEF GoInvalid, Step, Running, main, app, java, work, inbox, jni, curl, native
  <2>2. PICK to \in {"silent"} : stage' = [stage EXCEPT ![r] = to]
    BY <1>15 DEF GoInvalid, Step
  <2>3. CASE to \in {"silent", "done"}
    BY <2>1, <2>2, <2>3, <1>F
  <2>4. CASE to \in {"call", "transfer"}
    <3>1. \A q \in Requests :
             \/ stage'[q] = stage[q]
             \/ stage[q] \in Running /\ stage'[q] \in Running
      BY <2>1, <2>2, <2>4 DEF TypeOK, Running
    <3> QED
      BY <2>1, <3>1, <1>U, ExecutorKept
  <2> QED
    BY <2>2, <2>3, <2>4
<1>16. ASSUME NEW r \in Requests, Report(r)
       PROVE  Goal
  <2>1. pool' = pool /\ gen' = gen /\ g_threadpool' = g_threadpool
     /\ \A q \in Requests :
           \/ stage'[q] = stage[q]
           \/ stage[q] \in Running /\ stage'[q] \in Running
           \/ pool[q] # g
    BY <1>16, <1>P DEF Report, Step, GenInv, TypeOK, Running, main, app, java, work, inbox, jni, curl, native
  <2> QED
    BY <2>1, <1>U, ExecutorKept
<1>17. ASSUME NEW r \in Requests, End(r)
       PROVE  Goal
  <2>1. pool' = pool /\ gen' = gen /\ g_threadpool' = g_threadpool
     /\ \A q \in Requests :
           \/ stage'[q] = stage[q]
           \/ stage[q] \in Running /\ stage'[q] \in Running
           \/ pool[q] # g
    BY <1>17, <1>P DEF End, Step, GenInv, TypeOK, Running, main, app, java, work, inbox, jni, curl, native
  <2> QED
    BY <2>1, <1>U, ExecutorKept
<1>18. ASSUME NEW r \in Requests, TestRef(r)
       PROVE  Goal
  <2>1. UNCHANGED <<pool, gen, g_threadpool>> /\ stage[r] = "test" /\ stage[r] \in Running
    BY <1>18 DEF TestRef, Step, Resume, Running, main, app, java, work, inbox, jni, curl, native
  <2>2. PICK to \in {"call", "transfer", "silent"} : stage' = [stage EXCEPT ![r] = to]
    BY <1>18 DEF TestRef, Step, Resume
  <2>3. CASE to \in {"silent", "done"}
    BY <2>1, <2>2, <2>3, <1>F
  <2>4. CASE to \in {"call", "transfer"}
    <3>1. \A q \in Requests :
             \/ stage'[q] = stage[q]
             \/ stage[q] \in Running /\ stage'[q] \in Running
      BY <2>1, <2>2, <2>4 DEF TypeOK, Running
    <3> QED
      BY <2>1, <3>1, <1>U, ExecutorKept
  <2> QED
    BY <2>2, <2>3, <2>4
<1>19. ASSUME NEW r \in Requests, CallBack(r)
       PROVE  Goal
  <2>1. UNCHANGED <<pool, gen, g_threadpool>> /\ stage[r] = "call" /\ stage[r] \in Running
    BY <1>19 DEF CallBack, Step, Resume, Posted, Running, main, app, java, work, inbox, jni, curl, native
  <2>2. PICK to \in {"transfer", "done"} : stage' = [stage EXCEPT ![r] = to]
    BY <1>19 DEF CallBack, Step, Resume, Posted
  <2>3. CASE to \in {"silent", "done"}
    BY <2>1, <2>2, <2>3, <1>F
  <2>4. CASE to \in {"call", "transfer"}
    <3>1. \A q \in Requests :
             \/ stage'[q] = stage[q]
             \/ stage[q] \in Running /\ stage'[q] \in Running
      BY <2>1, <2>2, <2>4 DEF TypeOK, Running
    <3> QED
      BY <2>1, <3>1, <1>U, ExecutorKept
  <2> QED
    BY <2>2, <2>3, <2>4
<1>20. ASSUME NEW r \in Requests, CallBackNobody(r)
       PROVE  Goal
  <2>1. UNCHANGED <<pool, gen, g_threadpool>> /\ stage[r] = "call" /\ stage[r] \in Running
    BY <1>20 DEF CallBackNobody, Step, Resume, Running, main, app, java, work, inbox, jni, curl, native
  <2>2. PICK to \in {"transfer", "silent"} : stage' = [stage EXCEPT ![r] = to]
    BY <1>20 DEF CallBackNobody, Step, Resume
  <2>3. CASE to \in {"silent", "done"}
    BY <2>1, <2>2, <2>3, <1>F
  <2>4. CASE to \in {"call", "transfer"}
    <3>1. \A q \in Requests :
             \/ stage'[q] = stage[q]
             \/ stage[q] \in Running /\ stage'[q] \in Running
      BY <2>1, <2>2, <2>4 DEF TypeOK, Running
    <3> QED
      BY <2>1, <3>1, <1>U, ExecutorKept
  <2> QED
    BY <2>2, <2>3, <2>4
<1>21. CASE InitAgain
  <2>1. UNCHANGED <<pool, gen, g_threadpool, stage>>
    BY <1>21 DEF InitAgain, main, app, java, work, inbox, jni, curl, native
  <2> QED
    BY <2>1, <1>U, ExecutorKept
<1>22. ASSUME NEW r \in Requests, CallDeleted(r)
       PROVE  Goal
  <2>1. UNCHANGED <<pool, gen, g_threadpool, stage>>
    BY <1>22 DEF CallDeleted, main, app, java, work, inbox, jni, curl, native
  <2> QED
    BY <2>1, <1>U, ExecutorKept
<1>99. QED
  BY <1>1, <1>2, <1>3, <1>4, <1>5, <1>6, <1>7, <1>8, <1>9, <1>10, <1>11, <1>12, <1>13, <1>14, <1>15, <1>16, <1>17, <1>18, <1>19, <1>20, <1>21, <1>22 DEF Goal, Next, Main, Worker

(* Whatever init and uninit do, every pool is used as TaskExecutor allows: nothing
   is queued or started once it is closed, and it ends with no closure running. *)
THEOREM PoolsAreExecutors == Spec => UsesExecutor
<1>1. Init => \A g \in Pools : Executor(g)!Init
  BY LifecycleAssumption DEF Init, Executor!Init, ExecutorStatus, ExecutorOpen, Pools
<1>2. IInv /\ GenInv /\ [Next]_vars
      => [\A g \in Pools : [Executor(g)!Next]_(Executor(g)!vars)]_vars
  BY ExecutorStep DEF IInv
<1> QED
  BY <1>1, <1>2, Invariance, GenInvariance, PTL DEF Spec, UsesExecutor

===============================================================================
