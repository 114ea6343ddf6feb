-------------------------------- MODULE CertCopy --------------------------------
(***************************************************************************)
(* The copy of the certificates into the application's directory:          *)
(* copyCertFile in java/utils/Misc.java, called by HttpManager.Init.       *)
(*                                                                         *)
(* Each Init that does not find the file starts a thread that copies the   *)
(* asset in pieces. The threads of several Inits may copy at the same      *)
(* time; the process may be killed at any time, which the file survives.   *)
(***************************************************************************)
EXTENDS Integers

CONSTANTS
    Copiers,        \* the threads that Inits may start
    Size            \* of the asset, in pieces of up to 2048 bytes

ASSUME CertCopyAssumption == Size \in Nat

VARIABLES
    copier,         \* "none", "started", "asset", "copying" or "ended"
    pos,            \* pieces the copier has written
    exists,         \* the file exists
    file,           \* the pieces of the asset that are in it
    last,           \* the copier that opened it last, in a set
    failed          \* history: the copiers that were killed or got an exception

vars == <<copier, pos, exists, file, last, failed>>

Init ==
    /\ copier = [c \in Copiers |-> "none"]
    /\ pos = [c \in Copiers |-> 0]
    /\ exists = FALSE
    /\ file = {}
    /\ last = {}
    /\ failed = {}

Alive == {c \in Copiers : copier[c] \in {"started", "asset", "copying"}}

-------------------------------------------------------------------------------
(* mutant: the file is copied by every Init *)
MissingNever == TRUE

Missing == ~exists

(* copyCertFile, in the main thread *)
copyCertFile(c) ==
    /\ copier[c] = "none"
    /\ Missing
    /\ copier' = [copier EXCEPT ![c] = "started"]
    /\ UNCHANGED <<pos, exists, file, last, failed>>

OpenAsset(c) ==
    /\ copier[c] = "started"
    /\ copier' = [copier EXCEPT ![c] = "asset"]
    /\ UNCHANGED <<pos, exists, file, last, failed>>

(* new FileOutputStream creates or truncates the file *)
OpenFile(c) ==
    /\ copier[c] = "asset"
    /\ copier' = [copier EXCEPT ![c] = "copying"]
    /\ exists' = TRUE
    /\ file' = {}
    /\ last' = {c}
    /\ UNCHANGED <<pos, failed>>

(* mutant: the piece after the one that was read is written *)
PieceAfter(c) == pos[c] + 1

Piece(c) == pos[c]

Copy(c) ==
    /\ copier[c] = "copying"
    /\ pos[c] < Size
    /\ file' = file \cup {Piece(c)}
    /\ pos' = [pos EXCEPT ![c] = @ + 1]
    /\ UNCHANGED <<copier, exists, last, failed>>

(* mutant: the last piece is not waited for *)
DoneEarly(c) == pos[c] >= Size - 1

Done(c) == pos[c] = Size

Finish(c) ==
    /\ copier[c] = "copying"
    /\ Done(c)
    /\ copier' = [copier EXCEPT ![c] = "ended"]
    /\ UNCHANGED <<pos, exists, file, last, failed>>

(* the exception is swallowed: the file remains as it is, and open *)
Throw(c) ==
    /\ c \in Alive
    /\ copier' = [copier EXCEPT ![c] = "ended"]
    /\ failed' = failed \cup {c}
    /\ UNCHANGED <<pos, exists, file, last>>

(* the process is killed, and started again *)
Crash ==
    /\ Alive # {}
    /\ copier' = [c \in Copiers |-> IF c \in Alive THEN "ended" ELSE copier[c]]
    /\ failed' = failed \cup Alive
    /\ UNCHANGED <<pos, exists, file, last>>

Thread(c) == OpenAsset(c) \/ OpenFile(c) \/ Copy(c) \/ Finish(c)

Next ==
    \/ \E c \in Copiers : copyCertFile(c) \/ Thread(c) \/ Throw(c)
    \/ Crash

Spec == Init /\ [][Next]_vars

(* a thread that has been started goes on until it ends, fails or is killed *)
FairSpec == Spec /\ \A c \in Copiers : WF_vars(Thread(c))

-------------------------------------------------------------------------------
Whole == file = 0 .. Size - 1

TypeOK ==
    /\ copier \in [Copiers -> {"none", "started", "asset", "copying", "ended"}]
    /\ pos \in [Copiers -> 0 .. Size]
    /\ exists \in BOOLEAN
    /\ file \subseteq 0 .. Size - 1
    /\ last \subseteq Copiers
    /\ failed \subseteq Copiers

(* A file that nobody is copying any more is whole, or the copier that truncated it
   last has failed: isFile, which takes any file for a whole one, is mistaken in no
   other case, however many copiers have written to it. *)
WholeOrFailed ==
    exists /\ Alive = {} => Whole \/ \E c \in last : c \in failed

(* The copiers write to the file as writers of one file do. *)
Copying == {c \in Copiers : copier[c] = "copying"}
File == INSTANCE SharedFile WITH
          Writers <- Copiers, at <- pos, writing <- Copying
KeepsFile == File!Spec

(* What a copier has begun comes to an end that lasts: the file is whole for good,
   also if others were copying at that time, unless one of them has failed. *)
WholeForGood ==
    (\E c \in Copiers : copier[c] = "started") ~> (failed # {} \/ [](Whole \/ failed # {}))
===============================================================================
