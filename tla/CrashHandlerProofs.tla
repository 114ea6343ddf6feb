--------------------------- MODULE CrashHandlerProofs ---------------------------
(***************************************************************************)
(* The safety properties of CrashHandler, for any threads and signals, any *)
(* actions before the first install and any number of installs.            *)
(***************************************************************************)
EXTENDS CrashHandler, TLAPS

(* Nothing is changed before the first install. *)
NoneInv ==
    installs = 0 => /\ main = "idle" /\ action = Platform /\ ~caught
                    /\ \A t \in Threads : thread[t] = "arrive"

(* The first install has not touched the signals it has not come to. *)
FirstInv ==
    installs = 1 =>
        /\ main = "path" => action = Platform /\ ~caught
        /\ main = "set" =>
              \A i \in at .. Len(Order) : action[Order[i]] = Platform[Order[i]]
        /\ main = "store" =>
              /\ \A i \in at + 1 .. Len(Order) : action[Order[i]] = Platform[Order[i]]
              /\ prev = Platform[Order[at]]
        /\ main \in {"set", "store"} => arg = Path /\ g_path = Path

Handled(s) == \E t \in Threads : InHandler(t, s)

(* Until the second install, the platform's action of a signal that we handle is in
   old_sa, or on its way there; a signal has the default action only as long as a thread
   is in its handler. *)
ChainInv ==
    installs <= 1 =>
        \A s \in Signals :
            /\ old_sa[s] # "ours"
            /\ action[s] = "ours" =>
                  /\ old_sa[s] = Platform[s] \/ (main = "store" /\ Order[at] = s)
                  /\ g_path = Path
            /\ action[s] = "default" /\ Platform[s] = "platform" /\ fate = "alive" =>
                  Handled(s) \/ s \in raced
            /\ Handled(s) => old_sa[s] = Platform[s] \/ s \in raced

(* Until then, the handler opens the marker and does not call itself. *)
MarkInv ==
    installs <= 1 =>
        /\ \A t \in Threads : depth[t] = 0
        /\ caught => g_path = Path
        /\ caught => marker \/ refused \/ \E t \in Threads : thread[t] = "open"
        /\ \A t \in Threads : handling[t] = Null => thread[t] = "arrive"

IInv ==
    /\ TypeOK
    /\ NoneInv /\ FirstInv /\ ChainInv /\ MarkInv
    /\ ReportedUnlessRaced /\ MarkedByFirst /\ OverflowOnlyOverItself

Inv == NoneInv /\ FirstInv /\ ChainInv /\ MarkInv

-------------------------------------------------------------------------------
LEMMA Constants ==
    /\ Len(Order) \in Nat /\ DOMAIN Order = 1 .. Len(Order)
    /\ \A i \in 1 .. Len(Order) : Order[i] \in Signals
    /\ \A i, j \in 1 .. Len(Order) : Order[i] = Order[j] => i = j
    /\ 1 \in DOMAIN Order
    /\ Platform \in [Signals -> Actions]
    /\ \A s \in Signals : Platform[s] # "ours"
    /\ Path # Null /\ Null \notin Signals /\ SIGSEGV \in Signals /\ MaxInstalls \in Nat
<1>1. PICK i \in DOMAIN Order : SIGSEGV = Order[i]
  BY CrashHandlerAssumption DEF Signals
<1>2. 1 \in DOMAIN Order
  BY <1>1, CrashHandlerAssumption
<1> QED
  BY <1>2, CrashHandlerAssumption DEF Signals, Actions

LEMMA InitInv == Init => IInv
<1> SUFFICES ASSUME Init
             PROVE  IInv
  OBVIOUS
<1>1. TypeOK
  <2>1. old_sa \in [Signals -> Actions] /\ action \in [Signals -> Actions]
    BY Constants DEF Init, Actions
  <2>2. installs \in 0 .. MaxInstalls /\ at \in DOMAIN Order
    BY Constants DEF Init
  <2> QED
    BY <2>1, <2>2 DEF Init, TypeOK, Actions
<1>2. NoneInv /\ FirstInv /\ MarkInv
  BY DEF Init, NoneInv, FirstInv, MarkInv
<1>3. ChainInv
  <2>1. \A s \in Signals : ~Handled(s)
    BY DEF Init, Handled, InHandler
  <2> QED
    BY <2>1, Constants DEF Init, ChainInv
<1>4. ReportedUnlessRaced /\ MarkedByFirst /\ OverflowOnlyOverItself
  BY DEF Init, ReportedUnlessRaced, MarkedByFirst, OverflowOnlyOverItself
<1> QED
  BY <1>1, <1>2, <1>3, <1>4 DEF IInv

-------------------------------------------------------------------------------
(* The steps of the main thread. *)

LEMMA MainType == TypeOK /\ Main => TypeOK'
<1> SUFFICES ASSUME TypeOK, Main
             PROVE  TypeOK'
  OBVIOUS
<1> USE Constants
<1>1. ASSUME NEW p \in {Path, Null}, Install(p)
      PROVE  TypeOK'
  BY <1>1 DEF Install, threadVars, TypeOK
<1>2. CASE SetPath
  BY <1>2 DEF SetPath, PathGiven, threadVars, TypeOK
<1>3. CASE CatchSet
  BY <1>3 DEF CatchSet, Previous, threadVars, TypeOK, Actions
<1>4. CASE CatchStore
  BY <1>4 DEF CatchStore, More, threadVars, TypeOK
<1> QED
  BY <1>1, <1>2, <1>3, <1>4 DEF Main

LEMMA MainInv == IInv /\ fate = "alive" /\ Main => Inv'
<1> SUFFICES ASSUME IInv, fate = "alive", Main
             PROVE  Inv'
  OBVIOUS
<1> USE Constants DEF IInv
<1>1. ASSUME NEW p \in {Path, Null}, Install(p)
      PROVE  Inv'
  <2>1. CASE installs = 0
    BY <1>1, <2>1 DEF Install, threadVars, TypeOK, Inv, NoneInv, FirstInv, ChainInv, MarkInv, Handled,
                  InHandler
  <2>2. CASE installs # 0
    BY <1>1, <2>2 DEF Install, TypeOK, Inv, NoneInv, FirstInv, ChainInv, MarkInv, Handled,
                  InHandler
  <2> QED
    BY <2>1, <2>2
<1>2. CASE SetPath
  <2>1. NoneInv' /\ FirstInv' /\ MarkInv'
    BY <1>2 DEF SetPath, PathGiven, threadVars, TypeOK, NoneInv, FirstInv, MarkInv
  <2>2. ChainInv'
    BY <1>2 DEF SetPath, PathGiven, threadVars, TypeOK, NoneInv, FirstInv, ChainInv, Handled, InHandler
  <2> QED
    BY <2>1, <2>2 DEF Inv
<1>3. CASE CatchSet
  <2>1. /\ main = "set" /\ main' = "store" /\ Order[at] \in Signals /\ at \in 1 .. Len(Order)
        /\ prev' = action[Order[at]]
        /\ action' = [action EXCEPT ![Order[at]] = "ours"]
        /\ action \in [Signals -> Actions]
        /\ UNCHANGED <<old_sa, g_path, arg, at, installs, threadVars>>
    BY <1>3 DEF CatchSet, Previous, TypeOK
  <2>2. NoneInv' /\ MarkInv'
    BY <2>1 DEF threadVars, NoneInv, MarkInv
  <2>3. FirstInv'
    <3>1. \A i \in at + 1 .. Len(Order) : i \in at .. Len(Order) /\ i # at /\ i \in 1 .. Len(Order)
      BY <2>1
    <3>2. \A i \in at + 1 .. Len(Order) : action'[Order[i]] = action[Order[i]]
      BY <2>1, <3>1
    <3>3. at \in at .. Len(Order)
      BY <2>1
    <3> QED
      BY <2>1, <3>1, <3>2, <3>3 DEF FirstInv
  <2>4. ChainInv'
    <3> SUFFICES ASSUME installs <= 1, NEW s \in Signals
                 PROVE  /\ old_sa[s] # "ours"
                        /\ action'[s] = "ours" =>
                              /\ old_sa[s] = Platform[s] \/ Order[at] = s
                              /\ g_path = Path
                        /\ action'[s] = "default" /\ Platform[s] = "platform" =>
                              Handled(s) \/ s \in raced
                        /\ Handled(s) =>
                              old_sa[s] = Platform[s] \/ s \in raced
      BY <2>1 DEF ChainInv, Handled, InHandler, threadVars
    <3>1. installs = 1
      BY <2>1 DEF NoneInv, TypeOK
    <3>2. g_path = Path
      BY <2>1, <3>1 DEF FirstInv
    <3>3. CASE s = Order[at]
      BY <2>1, <3>2, <3>3 DEF ChainInv
    <3>4. CASE s # Order[at]
      BY <2>1, <3>2, <3>4 DEF ChainInv
    <3> QED
      BY <3>3, <3>4
  <2> QED
    BY <2>2, <2>3, <2>4 DEF Inv
<1>4. CASE CatchStore
  <2>1. /\ main = "store" /\ Order[at] \in Signals /\ at \in 1 .. Len(Order)
        /\ old_sa' = [old_sa EXCEPT ![Order[at]] = prev]
        /\ old_sa \in [Signals -> Actions]
        /\ main' \in {"set", "idle"} /\ (main' = "set" => at' = at + 1)
        /\ UNCHANGED <<action, g_path, arg, installs, threadVars>>
    BY <1>4 DEF CatchStore, TypeOK
  <2>2. NoneInv' /\ MarkInv'
    BY <2>1 DEF threadVars, NoneInv, MarkInv
  <2>3. FirstInv'
    BY <2>1 DEF FirstInv
  <2>4. ChainInv'
    <3> SUFFICES ASSUME installs <= 1, NEW s \in Signals
                 PROVE  /\ old_sa'[s] # "ours"
                        /\ action[s] = "ours" => old_sa'[s] = Platform[s] /\ g_path = Path
                        /\ action[s] = "default" /\ Platform[s] = "platform" =>
                              Handled(s) \/ s \in raced
                        /\ Handled(s) =>
                              old_sa'[s] = Platform[s] \/ s \in raced
      BY <2>1 DEF ChainInv, Handled, InHandler, threadVars
    <3>1. installs = 1
      BY <2>1 DEF NoneInv, TypeOK
    <3>2. prev = Platform[Order[at]]
      BY <2>1, <3>1 DEF FirstInv
    <3>3. CASE s = Order[at]
      BY <2>1, <3>2, <3>3 DEF ChainInv
    <3>4. CASE s # Order[at]
      BY <2>1, <3>4 DEF ChainInv
    <3> QED
      BY <3>3, <3>4
  <2> QED
    BY <2>2, <2>3, <2>4 DEF Inv
<1> QED
  BY <1>1, <1>2, <1>3, <1>4 DEF Main

(* While the process is alive, the claims about its end say nothing. *)
LEMMA AliveClaims ==
    fate' = "alive" => /\ ReportedUnlessRaced' /\ MarkedByFirst'
                       /\ OverflowOnlyOverItself'
  BY DEF ReportedUnlessRaced, MarkedByFirst, OverflowOnlyOverItself

-------------------------------------------------------------------------------
(* The steps of the thread with a signal. *)

LEMMA RaiseInv ==
    ASSUME IInv, fate = "alive", NEW t \in Threads, NEW s \in Signals, Raise(t, s)
    PROVE  IInv'
<1> USE Constants DEF IInv
<1>1. /\ handling' = [handling EXCEPT ![t] = s] /\ handling[t] = Null
      /\ handling \in [Threads -> Signals \cup {Null}]
      /\ UNCHANGED <<action, old_sa, mainVars, thread, depth, marker, fate, victim,
                     caught, refused, raced>>
  BY DEF Raise, TypeOK
<1>2. TypeOK'
  BY <1>1 DEF mainVars, TypeOK
<1>3. NoneInv' /\ FirstInv' /\ MarkInv'
  BY <1>1 DEF mainVars, NoneInv, FirstInv, MarkInv
<1>4. ASSUME installs <= 1, NEW q \in Signals
      PROVE  Handled(q)' <=> Handled(q)
  BY <1>1, <1>4 DEF MarkInv, Handled, InHandler
<1>5. ChainInv'
  BY <1>1, <1>4 DEF mainVars, ChainInv
<1> QED
  BY <1>1, <1>2, <1>3, <1>5, AliveClaims

(* The end of the process: what its claims need is true just before. *)
LEMMA EndInv ==
    ASSUME IInv, NEW t \in Threads, NEW how \in {"reported", "killed"}, Ends(t, how),
           thread[t] # "open",
           installs <= 1 /\ how = "killed" /\ Platform[handling[t]] = "platform" =>
               \/ handling[t] \in raced
               \/ \E u \in Threads \ {t} : InHandler(u, handling[t]),
           UNCHANGED <<action, old_sa, mainVars, marker, caught, refused, raced>>
    PROVE  IInv'
<1> USE Constants DEF IInv
<1>1. /\ fate' = how /\ victim' = t
      /\ UNCHANGED <<action, old_sa, mainVars, handling, thread, depth, marker, caught,
                     refused, raced>>
  BY DEF Ends
<1>2. TypeOK' /\ NoneInv' /\ FirstInv' /\ MarkInv'
  BY <1>1 DEF mainVars, TypeOK, NoneInv, FirstInv, MarkInv
<1>3. ChainInv'
  BY <1>1 DEF mainVars, ChainInv, Handled, InHandler
<1>4. ReportedUnlessRaced'
  BY <1>1 DEF mainVars, ReportedUnlessRaced, InHandler
<1>5. MarkedByFirst'
  <2> SUFFICES ASSUME caught, ~marker, ~(installs > 1), ~refused
               PROVE  \E u \in Threads \ {t} : thread[u] = "open"
    BY <1>1 DEF mainVars, MarkedByFirst
  <2>1. installs <= 1
    BY DEF TypeOK
  <2> QED
    BY <2>1 DEF MarkInv
<1>6. OverflowOnlyOverItself'
  BY <1>1 DEF OverflowOnlyOverItself
<1> QED
  BY <1>2, <1>3, <1>4, <1>5, <1>6

LEMMA CatchInv ==
    ASSUME IInv, fate = "alive", NEW t \in Threads, At(t, "arrive"),
           action[handling[t]] = "ours", Catch(t, handling[t]),
           UNCHANGED <<old_sa, mainVars, marker, refused>>
    PROVE  IInv'
<1> DEFINE s == handling[t]
<1>0. s \in Signals /\ thread[t] = "arrive"
  BY DEF At, IInv, TypeOK
<1>1. /\ action' = [action EXCEPT ![s] = "default"]
      /\ action \in [Signals -> Actions] /\ action[s] = "ours"
      /\ caught' = TRUE
      /\ raced' = IF main = "store" /\ Order[at] = s THEN raced \cup {s} ELSE raced
      /\ thread' = [thread EXCEPT ![t] = "open"]
      /\ thread \in [Threads -> {"arrive", "open", "chain"}]
      /\ UNCHANGED <<handling, depth, fate, victim, old_sa, mainVars, marker, refused>>
  BY DEF Catch, Goes, Reset, IInv, TypeOK
<1> HIDE DEF s
<1> USE Constants DEF IInv
<1>2. installs # 0 /\ installs \in Nat
  BY <1>0, <1>1 DEF NoneInv, TypeOK
<1>3. installs <= 1 => installs = 1 /\ g_path = Path /\ main # "path"
  BY <1>0, <1>1, <1>2 DEF ChainInv, FirstInv
<1>4. TypeOK'
  <2>1. raced' \subseteq Signals
    BY <1>0, <1>1 DEF TypeOK
  <2>2. action' \in [Signals -> Actions]
    BY <1>0, <1>1 DEF Actions
  <2>3. thread' \in [Threads -> {"arrive", "open", "chain"}]
    BY <1>1
  <2> QED
    BY <1>1, <2>1, <2>2, <2>3 DEF mainVars, TypeOK
<1>5. NoneInv'
  BY <1>1, <1>2 DEF mainVars, NoneInv
<1>6. MarkInv'
  <2>1. thread'[t] = "open" /\ \A u \in Threads : u # t => thread'[u] = thread[u]
    BY <1>1
  <2>2. handling[t] # Null
    BY <1>0 DEF s
  <2> QED
    BY <1>1, <1>3, <2>1, <2>2 DEF mainVars, MarkInv
<1>7. FirstInv'
  <2> SUFFICES ASSUME installs = 1
               PROVE  /\ main # "path"
                      /\ main = "set" =>
                            \A i \in at .. Len(Order) : action'[Order[i]] = Platform[Order[i]]
                      /\ main = "store" =>
                            /\ \A i \in at + 1 .. Len(Order) :
                                  action'[Order[i]] = Platform[Order[i]]
                            /\ prev = Platform[Order[at]]
                      /\ main \in {"set", "store"} => arg = Path /\ g_path = Path
    BY <1>1 DEF mainVars, FirstInv
  <2>1. at \in 1 .. Len(Order)
    BY DEF TypeOK
  <2>2. ASSUME NEW i \in 1 .. Len(Order), action[Order[i]] = Platform[Order[i]]
        PROVE  action'[Order[i]] = Platform[Order[i]]
    BY <1>0, <1>1, <2>2
  <2>3. \A i \in at .. Len(Order) : i \in 1 .. Len(Order)
    BY <2>1
  <2>4. \A i \in at + 1 .. Len(Order) : i \in 1 .. Len(Order)
    BY <2>1
  <2> QED
    BY <1>3, <2>2, <2>3, <2>4 DEF FirstInv
<1>8. ChainInv'
  <2> SUFFICES ASSUME installs <= 1, NEW q \in Signals
               PROVE  /\ old_sa[q] # "ours"
                      /\ action'[q] = "ours" =>
                            /\ old_sa[q] = Platform[q] \/ (main = "store" /\ Order[at] = q)
                            /\ g_path = Path
                      /\ action'[q] = "default" /\ Platform[q] = "platform" =>
                            Handled(q)' \/ q \in raced'
                      /\ Handled(q)' => old_sa[q] = Platform[q] \/ q \in raced'
    BY <1>1 DEF mainVars, ChainInv
  <2>1. CASE q = s
    <3>1. old_sa[q] = Platform[q] \/ (main = "store" /\ Order[at] = q)
      BY <1>1, <2>1 DEF ChainInv
    <3>2. action'[q] = "default"
      BY <1>0, <1>1, <2>1
    <3>3. old_sa[q] = Platform[q] \/ q \in raced'
      BY <1>1, <2>1, <3>1
    <3>4. InHandler(t, q)'
      BY <1>1, <2>1 DEF InHandler, s
    <3> QED
      BY <3>2, <3>3, <3>4 DEF ChainInv, Handled
  <2>2. CASE q # s
    <3>1. action'[q] = action[q]
      BY <1>1, <2>2
    <3>2. q \in raced <=> q \in raced'
      BY <1>1, <2>2
    <3>3. \A u \in Threads : InHandler(u, q)' <=> InHandler(u, q)
      BY <1>1, <2>2 DEF InHandler, s
    <3>4. Handled(q)' <=> Handled(q)
      BY <3>3 DEF Handled
    <3> QED
      BY <3>1, <3>2, <3>4 DEF ChainInv
  <2> QED
    BY <2>1, <2>2
<1>9. fate' = "alive"
  BY <1>1
<1> QED
  BY <1>4, <1>5, <1>6, <1>7, <1>8, <1>9, AliveClaims

LEMMA ArriveInv ==
    ASSUME IInv, fate = "alive", NEW t \in Threads, Arrive(t)
    PROVE  IInv'
<1> USE Constants DEF IInv
<1>0. /\ handling[t] \in Signals /\ thread[t] = "arrive" /\ At(t, "arrive")
      /\ UNCHANGED <<old_sa, mainVars, marker, refused>>
  BY DEF Arrive, At, TypeOK
<1>1. CASE action[handling[t]] = "ours" /\ Catch(t, handling[t])
  BY <1>0, <1>1, CatchInv
<1>2. CASE /\ action[handling[t]] = "platform" /\ Ends(t, "reported")
           /\ UNCHANGED <<action, caught, raced>>
  BY <1>0, <1>2, EndInv
<1>3. CASE /\ action[handling[t]] = "default" /\ Ends(t, "killed")
           /\ UNCHANGED <<action, caught, raced>>
  <2>1. ASSUME installs <= 1, Platform[handling[t]] = "platform", handling[t] \notin raced
        PROVE  \E u \in Threads \ {t} : InHandler(u, handling[t])
    <3>1. Handled(handling[t])
      BY <1>0, <1>3, <2>1 DEF ChainInv
    <3>2. ~InHandler(t, handling[t])
      BY <1>0 DEF InHandler
    <3> QED
      BY <3>1, <3>2 DEF Handled
  <2> QED
    BY <1>0, <1>3, <2>1, EndInv
<1>4. CASE /\ handling' = [handling EXCEPT ![t] = Null]
           /\ UNCHANGED <<thread, depth, fate, victim, action, caught, raced>>
  <2>1. handling \in [Threads -> Signals \cup {Null}]
    BY DEF TypeOK
  <2>2. TypeOK' /\ NoneInv' /\ FirstInv' /\ MarkInv'
    BY <1>0, <1>4, <2>1 DEF mainVars, TypeOK, NoneInv, FirstInv, MarkInv
  <2>3. \A q \in Signals, u \in Threads : InHandler(u, q)' <=> InHandler(u, q)
    BY <1>0, <1>4, <2>1 DEF InHandler
  <2>4. \A q \in Signals : Handled(q)' <=> Handled(q)
    BY <2>3 DEF Handled
  <2>5. ChainInv'
    BY <1>0, <1>4, <2>4 DEF mainVars, ChainInv
  <2> QED
    BY <1>4, <2>2, <2>5, AliveClaims
<1> QED
  BY <1>1, <1>2, <1>3, <1>4 DEF Arrive

LEMMA OpenInv ==
    ASSUME IInv, fate = "alive", NEW t \in Threads, Open(t)
    PROVE  IInv'
<1> USE Constants DEF IInv
<1>1. /\ handling[t] # Null /\ thread[t] = "open"
      /\ thread' = [thread EXCEPT ![t] = "chain"]
      /\ thread \in [Threads -> {"arrive", "open", "chain"}]
      /\ UNCHANGED <<action, old_sa, mainVars, handling, depth, fate, victim, caught, raced>>
  BY DEF Open, At, Goes, TypeOK
<1>2. /\ marker' \in BOOLEAN /\ refused' \in BOOLEAN
      /\ g_path = Path => marker' \/ refused'
  BY DEF Open, TypeOK
<1>3. TypeOK'
  BY <1>1, <1>2 DEF mainVars, TypeOK
<1>4. NoneInv' /\ FirstInv' /\ MarkInv'
  BY <1>1, <1>2 DEF mainVars, NoneInv, FirstInv, MarkInv
<1>5. \A q \in Signals, u \in Threads : InHandler(u, q)' <=> InHandler(u, q)
  BY <1>1 DEF InHandler
<1>6. \A q \in Signals : Handled(q)' <=> Handled(q)
  BY <1>5 DEF Handled
<1>7. ChainInv'
  BY <1>1, <1>6 DEF mainVars, ChainInv
<1> QED
  BY <1>1, <1>3, <1>4, <1>7, AliveClaims

(* A thread leaves the handler of a signal that is not the platform's. *)
LEMMA LeaveInv ==
    ASSUME IInv, fate = "alive", NEW t \in Threads, At(t, "chain"),
           old_sa[handling[t]] # "platform",
           NEW s \in Signals \cup {Null}, handling' = [handling EXCEPT ![t] = s],
           Goes(t, "arrive"), depth' = depth \/ depth' = [depth EXCEPT ![t] = 0],
           UNCHANGED <<action, old_sa, mainVars, marker, caught, refused, raced>>
    PROVE  IInv'
<1> USE Constants DEF IInv
<1>1. /\ handling[t] \in Signals /\ thread[t] = "chain"
      /\ thread' = [thread EXCEPT ![t] = "arrive"] /\ UNCHANGED <<fate, victim>>
      /\ thread \in [Threads -> {"arrive", "open", "chain"}]
      /\ handling \in [Threads -> Signals \cup {Null}]
      /\ depth \in [Threads -> {0, 1}]
  BY DEF At, Goes, TypeOK
<1>2. TypeOK'
  BY <1>1 DEF mainVars, TypeOK
<1>3. NoneInv' /\ FirstInv' /\ MarkInv'
  BY <1>1 DEF mainVars, NoneInv, FirstInv, MarkInv
<1>4. ChainInv'
  <2> SUFFICES ASSUME installs <= 1, NEW q \in Signals
               PROVE  /\ action[q] = "default" /\ Platform[q] = "platform" =>
                            Handled(q)' \/ q \in raced
                      /\ Handled(q)' => old_sa[q] = Platform[q] \/ q \in raced
    BY <1>1 DEF mainVars, ChainInv
  <2>1. \A u \in Threads : u # t => (InHandler(u, q)' <=> InHandler(u, q))
    BY <1>1 DEF InHandler
  <2>2. ~InHandler(t, q)' /\ (InHandler(t, q) <=> q = handling[t])
    BY <1>1 DEF InHandler
  <2>3. Handled(q)' => Handled(q)
    BY <2>1, <2>2 DEF Handled
  <2>4. Handled(q) /\ q # handling[t] => Handled(q)'
    BY <2>1, <2>2 DEF Handled
  <2>5. q = handling[t] => old_sa[q] = Platform[q] \/ q \in raced
    BY <1>1, <2>2 DEF ChainInv, Handled
  <2>6. old_sa[q] = Platform[q] /\ q = handling[t] => Platform[q] # "platform"
    OBVIOUS
  <2> QED
    BY <2>3, <2>4, <2>5, <2>6 DEF ChainInv
<1> QED
  BY <1>1, <1>2, <1>3, <1>4, AliveClaims

LEMMA ThreadChainInv ==
    ASSUME IInv, fate = "alive", NEW t \in Threads, Chain(t)
    PROVE  IInv'
<1> USE Constants DEF IInv
<1>0. /\ handling[t] \in Signals /\ thread[t] = "chain" /\ At(t, "chain")
      /\ installs \in Nat
      /\ UNCHANGED <<action, old_sa, mainVars, marker, caught, refused, raced>>
  BY DEF Chain, At, TypeOK
<1>1. CASE old_sa[handling[t]] = "default" /\ Return(t)
  <2>1. PICK s \in Signals \cup {Null} : handling' = [handling EXCEPT ![t] = s]
    BY <1>0, <1>1 DEF Return
  <2>2. Goes(t, "arrive") /\ depth' = [depth EXCEPT ![t] = 0]
    BY <1>1 DEF Return
  <2> QED
    BY <1>0, <1>1, <2>1, <2>2, LeaveInv
<1>2. CASE old_sa[handling[t]] = "platform" /\ Ends(t, "reported")
  BY <1>0, <1>2, EndInv
<1>3. CASE /\ old_sa[handling[t]] = "ignored"
           /\ handling' = [handling EXCEPT ![t] = SIGSEGV]
           /\ Goes(t, "arrive") /\ UNCHANGED depth
  BY <1>0, <1>3, LeaveInv
<1>4. CASE /\ old_sa[handling[t]] = "ours"
           /\ depth' = [depth EXCEPT ![t] = 1]
           /\ Goes(t, "open") /\ UNCHANGED handling
  <2>1. installs > 1 /\ ~(installs <= 1) /\ installs # 0
    BY <1>0, <1>4 DEF ChainInv
  <2>2. TypeOK'
    BY <1>0, <1>4 DEF Goes, mainVars, TypeOK
  <2>3. NoneInv' /\ FirstInv' /\ MarkInv' /\ ChainInv'
    BY <1>0, <2>1 DEF mainVars, NoneInv, FirstInv, MarkInv, ChainInv
  <2>4. fate' = "alive"
    BY <1>4 DEF Goes
  <2> QED
    BY <2>2, <2>3, <2>4, AliveClaims
<1> QED
  BY <1>1, <1>2, <1>3, <1>4 DEF Chain, Next_sa

LEMMA StepInv == IInv /\ [Next]_vars => IInv'
<1> SUFFICES ASSUME IInv, [Next]_vars
             PROVE  IInv'
  OBVIOUS
<1>1. CASE fate = "alive" /\ Main
  <2>1. TypeOK' /\ Inv'
    BY <1>1, MainType, MainInv DEF IInv
  <2>2. fate' = "alive"
    BY <1>1 DEF Main, Install, SetPath, CatchSet, CatchStore, threadVars
  <2> QED
    BY <2>1, <2>2, AliveClaims DEF IInv, Inv
<1>2. ASSUME NEW t \in Threads, NEW s \in Signals, fate = "alive", Raise(t, s)
      PROVE  IInv'
  BY <1>2, RaiseInv
<1>3. ASSUME NEW t \in Threads, fate = "alive", Arrive(t)
      PROVE  IInv'
  BY <1>3, ArriveInv
<1>4. ASSUME NEW t \in Threads, fate = "alive", Open(t)
      PROVE  IInv'
  BY <1>4, OpenInv
<1>5. ASSUME NEW t \in Threads, fate = "alive", Chain(t)
      PROVE  IInv'
  BY <1>5, ThreadChainInv
<1>6. ASSUME NEW t \in Threads, Overflow(t)
      PROVE  IInv'
  <2>1. installs > 1 /\ ~(installs <= 1) /\ installs \in Nat
    BY <1>6 DEF Overflow, IInv, TypeOK, MarkInv
  <2>2. TypeOK'
    BY <1>6 DEF Overflow, Ends, mainVars, IInv, TypeOK
  <2>3. installs' = installs
    BY <1>6 DEF Overflow, mainVars
  <2> QED
    BY <2>1, <2>2, <2>3 DEF IInv, NoneInv, FirstInv, ChainInv, MarkInv,
         ReportedUnlessRaced, MarkedByFirst, OverflowOnlyOverItself
<1>7. CASE UNCHANGED vars
  BY <1>7 DEF vars, mainVars, threadVars, IInv, TypeOK, NoneInv, FirstInv, ChainInv, MarkInv,
       Handled, InHandler, ReportedUnlessRaced, MarkedByFirst, OverflowOnlyOverItself
<1> QED
  BY <1>1, <1>2, <1>3, <1>4, <1>5, <1>6, <1>7 DEF Next, Thread

THEOREM Invariance == Spec => []IInv
  BY InitInv, StepInv, PTL DEF Spec

-------------------------------------------------------------------------------
(* Every value has its type. *)
THEOREM TypeCorrect == Spec => []TypeOK
<1>1. IInv => TypeOK
  BY DEF IInv
<1> QED
  BY <1>1, Invariance, PTL

(* After one install, what the platform reported it still reports, unless the signal
   came in while its action was being stored, or while another thread was in the handler
   with it. *)
THEOREM OneInstallReports == Spec => []ReportedUnlessRaced
<1>1. IInv => ReportedUnlessRaced
  BY DEF IInv
<1> QED
  BY <1>1, Invariance, PTL

(* Once a signal is caught the process does not end without the marker, unless a second
   install has cleared the path, open has failed, or another thread's signal is faster. *)
THEOREM OneInstallMarks == Spec => []MarkedByFirst
<1>1. IInv => MarkedByFirst
  BY DEF IInv
<1> QED
  BY <1>1, Invariance, PTL

(* The handler calls itself only after a second install. *)
THEOREM NoSelfCall == Spec => []OverflowOnlyOverItself
<1>1. IInv => OverflowOnlyOverItself
  BY DEF IInv
<1> QED
  BY <1>1, Invariance, PTL
===============================================================================
