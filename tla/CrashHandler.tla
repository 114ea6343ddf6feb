------------------------------ MODULE CrashHandler ------------------------------
(***************************************************************************)
(* native_crash_handler.cpp: the handlers of fatal signals, and how they   *)
(* pass a signal on to the handler that was there before.                  *)
(*                                                                         *)
(* The main thread installs, with every activity that is created; at any   *)
(* time several threads may have got signals, the same one or others. The  *)
(* kernel's actions are the process's: what one thread's signal resets,    *)
(* the next thread's signal finds. An action of a signal is "default"      *)
(* (sa_sigaction is null), "ignored" (the address 1), "platform" (it       *)
(* reports the crash and ends the process) or "ours" (android_sigaction).  *)
(* A thread takes another signal when it is done with the first: one in    *)
(* between is left to the other threads.                                   *)
(***************************************************************************)
EXTENDS Integers, Sequences

CONSTANTS
    Threads,
    Order,          \* the signals in the order of the CATCHSIGs
    SIGSEGV,
    Faults,         \* signals of a faulting instruction, which is then repeated
    Platform,       \* [Signals -> actions]: before the first install
    Path, Null,     \* the argument of install
    MaxInstalls     \* bound

Signals == {Order[i] : i \in DOMAIN Order}

ASSUME CrashHandlerAssumption ==
    /\ Len(Order) \in Nat /\ DOMAIN Order = 1 .. Len(Order)
    /\ \A i, j \in DOMAIN Order : Order[i] = Order[j] => i = j
    /\ SIGSEGV \in Faults /\ Faults \subseteq Signals /\ Null \notin Signals
    /\ Platform \in [Signals -> {"default", "ignored", "platform"}]
    /\ \A s \in Faults : Platform[s] # "ignored"
    /\ Path # Null
    /\ MaxInstalls \in Nat

VARIABLES
    action,         \* the kernel's, of each signal
    old_sa, g_path,
    main,           \* the main thread: "idle", "path", "set" or "store"
    arg, at, prev,  \* its argument, the CATCHSIG it is at, and what sigaction returns
    handling,       \* of each thread: the signal it has, or Null
    thread,         \* of each: "arrive", "open" or "chain"
    depth,          \* of each: calls of android_sigaction by itself, counted up to 1
    marker,         \* the file at Path exists
    fate, victim,   \* "alive", "reported", "killed" or "overflow", and by which thread
    installs,
    caught, refused,  \* history: the handler has run; it could not open the marker
    raced             \* history: signals caught while their old_sa was being stored

mainVars == <<g_path, main, arg, at, prev, installs>>
threadVars == <<handling, thread, depth, marker, fate, victim, caught, refused, raced>>
vars == <<action, old_sa, mainVars, threadVars>>

Init ==
    /\ action = Platform
    /\ old_sa = [s \in Signals |-> "default"]
    /\ g_path = Null
    /\ main = "idle" /\ arg = Null /\ at = 1 /\ prev = "default"
    /\ handling = [t \in Threads |-> Null]
    /\ thread = [t \in Threads |-> "arrive"]
    /\ depth = [t \in Threads |-> 0]
    /\ marker = FALSE /\ fate = "alive" /\ victim = Null /\ installs = 0
    /\ caught = FALSE /\ refused = FALSE /\ raced = {}

-------------------------------------------------------------------------------
(* The main thread: installNativeCrashHandler. *)

Install(p) ==
    /\ main = "idle" /\ installs < MaxInstalls
    /\ installs' = installs + 1
    /\ arg' = p
    /\ g_path' = Null
    /\ main' = "path"
    /\ UNCHANGED <<at, prev, action, old_sa, threadVars>>

(* mutant: the path is not stored *)
PathLost == Null

PathGiven == arg

SetPath ==
    /\ main = "path"
    /\ g_path' = PathGiven
    /\ main' = IF arg = Null THEN "idle" ELSE "set"
    /\ at' = 1
    /\ UNCHANGED <<arg, prev, installs, action, old_sa, threadVars>>

(* mutant: the previous action is read after the new one has been set *)
PreviousNow(s) == "ours"

Previous(s) == action[s]

(* sigaction sets the action and then gives back the previous one *)
CatchSet ==
    /\ main = "set"
    /\ prev' = Previous(Order[at])
    /\ action' = [action EXCEPT ![Order[at]] = "ours"]
    /\ main' = "store"
    /\ UNCHANGED <<g_path, arg, at, installs, old_sa, threadVars>>

More == at < Len(Order)

CatchStore ==
    /\ main = "store"
    /\ old_sa' = [old_sa EXCEPT ![Order[at]] = prev]
    /\ IF More THEN at' = at + 1 /\ main' = "set"
               ELSE at' = at /\ main' = "idle"
    /\ UNCHANGED <<g_path, arg, prev, installs, action, threadVars>>

-------------------------------------------------------------------------------
(* A thread that has got a signal. *)

Raise(t, s) ==
    /\ handling[t] = Null
    /\ handling' = [handling EXCEPT ![t] = s]
    /\ UNCHANGED <<action, old_sa, mainVars, thread, depth, marker, fate, victim,
                   caught, refused, raced>>

Ends(t, how) ==
    /\ fate' = how /\ victim' = t
    /\ UNCHANGED <<handling, thread, depth>>

At(t, pc) == handling[t] # Null /\ thread[t] = pc

Goes(t, pc) ==
    /\ thread' = [thread EXCEPT ![t] = pc]
    /\ UNCHANGED <<fate, victim>>

(* mutant: without SA_RESETHAND *)
ResetNone == "ours"

Reset == "default"

(* SA_RESETHAND resets our action, for every thread *)
Catch(t, s) ==
    /\ action' = [action EXCEPT ![s] = Reset]
    /\ caught' = TRUE
    /\ raced' = IF main = "store" /\ Order[at] = s THEN raced \cup {s} ELSE raced
    /\ Goes(t, "open") /\ UNCHANGED <<handling, depth>>

(* the kernel takes the action of the signal *)
Arrive(t) ==
    /\ At(t, "arrive")
    /\ \/ /\ action[handling[t]] = "ours" /\ Catch(t, handling[t])
       \/ /\ \/ action[handling[t]] = "platform" /\ Ends(t, "reported")
             \/ action[handling[t]] = "default" /\ Ends(t, "killed")
             \/ /\ action[handling[t]] = "ignored"
                /\ handling' = [handling EXCEPT ![t] = Null]
                /\ UNCHANGED <<thread, depth, fate, victim>>
          /\ UNCHANGED <<action, caught, raced>>
    /\ UNCHANGED <<old_sa, mainVars, marker, refused>>

(* android_sigaction: the marker. Nobody looks whether open can make it: it cannot with an
   empty path, and need not with another *)
Open(t) ==
    /\ At(t, "open")
    /\ \/ g_path # Null /\ marker' = TRUE /\ UNCHANGED refused
       \/ refused' = (refused \/ g_path # Null) /\ UNCHANGED marker
    /\ Goes(t, "chain")
    /\ UNCHANGED <<action, old_sa, mainVars, handling, depth, caught, raced>>

(* the signal returns: a fault happens again *)
Return(t) ==
    /\ handling' = [handling EXCEPT ![t] = IF @ \in Faults THEN @ ELSE Null]
    /\ depth' = [depth EXCEPT ![t] = 0]
    /\ Goes(t, "arrive")

(* mutant: the previous action is not called *)
NextNone(s) == "default"

Next_sa(s) == old_sa[s]

(* android_sigaction: the previous action *)
Chain(t) ==
    /\ At(t, "chain")
    /\ \/ Next_sa(handling[t]) = "default" /\ Return(t)
       \/ Next_sa(handling[t]) = "platform" /\ Ends(t, "reported")
       \/ /\ Next_sa(handling[t]) = "ignored"
          /\ handling' = [handling EXCEPT ![t] = SIGSEGV]
          /\ Goes(t, "arrive") /\ UNCHANGED depth
       \/ /\ Next_sa(handling[t]) = "ours"
          /\ depth' = [depth EXCEPT ![t] = 1]
          /\ Goes(t, "open") /\ UNCHANGED handling
    /\ UNCHANGED <<action, old_sa, mainVars, marker, caught, refused, raced>>

(* the stack ends *)
Overflow(t) ==
    /\ depth[t] = 1
    /\ Ends(t, "overflow")
    /\ UNCHANGED <<action, old_sa, mainVars, marker, caught, refused, raced>>

Main == (\E p \in {Path, Null} : Install(p)) \/ SetPath \/ CatchSet \/ CatchStore

Thread(t) == (\E s \in Signals : Raise(t, s)) \/ Arrive(t) \/ Open(t) \/ Chain(t) \/ Overflow(t)

Next == fate = "alive" /\ (Main \/ \E t \in Threads : Thread(t))

Spec == Init /\ [][Next]_vars

(* a thread that has a signal goes on, and recursion without end ends the stack *)
FairSpec ==
    /\ Spec
    /\ \A t \in Threads : /\ WF_vars(fate = "alive" /\ (Arrive(t) \/ Open(t) \/ Chain(t)))
                          /\ WF_vars(fate = "alive" /\ Overflow(t))

-------------------------------------------------------------------------------
Actions == {"default", "ignored", "platform", "ours"}

TypeOK ==
    /\ action \in [Signals -> Actions] /\ old_sa \in [Signals -> Actions]
    /\ g_path \in {Path, Null} /\ arg \in {Path, Null}
    /\ main \in {"idle", "path", "set", "store"}
    /\ at \in DOMAIN Order /\ prev \in Actions /\ installs \in 0 .. MaxInstalls
    /\ handling \in [Threads -> Signals \cup {Null}]
    /\ thread \in [Threads -> {"arrive", "open", "chain"}]
    /\ depth \in [Threads -> {0, 1}] /\ marker \in BOOLEAN
    /\ fate \in {"alive", "reported", "killed", "overflow"} /\ victim \in Threads \cup {Null}
    /\ caught \in BOOLEAN /\ refused \in BOOLEAN /\ raced \subseteq Signals

InHandler(t, s) == handling[t] = s /\ thread[t] \in {"open", "chain"}

(* After one install a signal that the platform reported before still reaches the
   platform's handler, but for two cases: it has come in while install was storing that
   handler, or SA_RESETHAND has left it the default action while another thread is still in
   our handler with the same signal, whose report the process then does not live to see. *)
ReportedUnlessRaced ==
    /\ fate \in {"killed", "overflow"}
    /\ installs = 1 /\ Platform[handling[victim]] = "platform"
    => \/ handling[victim] \in raced
       \/ \E t \in Threads \ {victim} : InHandler(t, handling[victim])

(* Once the handler has caught a signal, the process does not end without its marker, also
   while install is under way, unless a second install has cleared the path, open has
   failed, or the signal of another thread ends the process before the marker is opened. *)
MarkedByFirst ==
    caught /\ fate # "alive" /\ ~marker =>
        installs > 1 \/ refused \/ \E t \in Threads \ {victim} : thread[t] = "open"

(* The handler calls itself only if it has been installed over itself. *)
OverflowOnlyOverItself == fate = "overflow" => installs > 1

(* A thread that has a signal gets through it, or the process ends. *)
SignalEnds ==
    \A t \in Threads : handling[t] # Null ~> (handling[t] = Null \/ fate # "alive")
===============================================================================
