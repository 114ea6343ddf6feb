----------------------------- MODULE MCCrashHandler -----------------------------
(***************************************************************************)
(* An instance of CrashHandler for TLC.                                    *)
(***************************************************************************)
EXTENDS CrashHandler

CONSTANTS segv, pipe, usr1

(* one signal of each kind: reported, ignored, and without an action *)
EachKind == <<segv, pipe, usr1>>
BeforeInstall ==
    [s \in {segv, pipe, usr1} |->
        CASE s = segv -> "platform"
          [] s = pipe -> "ignored"
          [] s = usr1 -> "default"]
===============================================================================
