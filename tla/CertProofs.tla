------------------------------- MODULE CertProofs -------------------------------
(***************************************************************************)
(* The safety properties of CertCopy and of CertUpload, for any number of  *)
(* copiers, uploads and pieces. The uploads only read the file, so the     *)
(* copiers' own invariant serves both.                                     *)
(***************************************************************************)
EXTENDS CertUpload, TLAPS


(* Who has not opened the file has written nothing. *)
PosInv == \A c \in Copiers : copier[c] \in {"none", "started", "asset"} => pos[c] = 0

(* What the copier that opened the file last has written is in the file, since
   nobody has truncated it after that copier. *)
LastInv ==
    \A c \in last :
        /\ copier[c] \in {"copying", "ended"}
        /\ 0 .. pos[c] - 1 \subseteq file
        /\ copier[c] = "ended" /\ c \notin failed => pos[c] = Size

(* A file that exists has been opened by a copier. *)
NothingWithoutOpen == exists => last # {}

IInv == TypeOK /\ PosInv /\ LastInv /\ NothingWithoutOpen

-------------------------------------------------------------------------------
LEMMA InitInv == Init => IInv
<1> SUFFICES ASSUME Init
             PROVE  IInv
  OBVIOUS
<1>1. 0 \in 0 .. Size
  BY CertCopyAssumption
<1>2. TypeOK
  BY <1>1 DEF Init, TypeOK
<1>3. PosInv /\ LastInv /\ NothingWithoutOpen
  BY DEF Init, PosInv, LastInv, NothingWithoutOpen
<1> QED
  BY <1>2, <1>3 DEF IInv

(* One more piece is in the file. *)
LEMMA CopyInv ==
    ASSUME IInv, NEW c \in Copiers, Copy(c)
    PROVE  IInv'
<1> USE DEF IInv
<1>1. pos[c] \in 0 .. Size - 1 /\ Size \in Nat
  BY CertCopyAssumption DEF TypeOK, Copy
<1>2. /\ pos' = [pos EXCEPT ![c] = pos[c] + 1]
      /\ file' = file \cup {pos[c]}
      /\ copier[c] = "copying"
      /\ UNCHANGED <<copier, exists, last, failed>>
  BY DEF Copy, Piece
<1>3. TypeOK'
  <2>1. pos[c] + 1 \in 0 .. Size /\ pos[c] \in 0 .. Size - 1
    BY <1>1
  <2>2. pos' \in [Copiers -> 0 .. Size]
    BY <1>2, <2>1 DEF TypeOK
  <2>3. file' \subseteq 0 .. Size - 1
    BY <1>2, <2>1 DEF TypeOK
  <2> QED
    BY <1>2, <2>2, <2>3 DEF TypeOK
<1>4. PosInv'
  BY <1>1, <1>2 DEF PosInv, TypeOK
<1>5. LastInv'
  <2> SUFFICES ASSUME NEW d \in last
               PROVE  /\ copier[d] \in {"copying", "ended"}
                      /\ 0 .. pos'[d] - 1 \subseteq file'
                      /\ copier[d] = "ended" /\ d \notin failed => pos'[d] = Size
    BY <1>2 DEF LastInv
  <2>1. d \in Copiers
    BY DEF TypeOK
  <2>2. CASE d = c
    <3>1. pos'[c] = pos[c] + 1
      BY <1>2, <2>1, <2>2 DEF TypeOK
    <3>2. 0 .. pos[c] - 1 \subseteq file
      BY <2>2 DEF LastInv
    <3>3. 0 .. pos'[c] - 1 \subseteq file'
      BY <1>1, <1>2, <3>1, <3>2
    <3> QED
      BY <1>2, <2>2, <3>3
  <2>3. CASE d # c
    <3>1. pos'[d] = pos[d]
      BY <1>2, <2>1, <2>3 DEF TypeOK
    <3> QED
      BY <1>2, <3>1 DEF LastInv
  <2> QED
    BY <2>2, <2>3
<1>6. NothingWithoutOpen'
  BY <1>2 DEF NothingWithoutOpen
<1> QED
  BY <1>3, <1>4, <1>5, <1>6

LEMMA StepInv == IInv /\ [Next]_vars => IInv'
<1> SUFFICES ASSUME IInv, [Next]_vars
             PROVE  IInv'
  OBVIOUS
<1> USE CertCopyAssumption DEF IInv
<1>1. ASSUME NEW c \in Copiers, copyCertFile(c)
      PROVE  IInv'
  BY <1>1 DEF copyCertFile, TypeOK, PosInv, LastInv, NothingWithoutOpen
<1>2. ASSUME NEW c \in Copiers, OpenAsset(c)
      PROVE  IInv'
  BY <1>2 DEF OpenAsset, TypeOK, PosInv, LastInv, NothingWithoutOpen
<1>3. ASSUME NEW c \in Copiers, OpenFile(c)
      PROVE  IInv'
  <2>1. pos[c] = 0
    BY <1>3 DEF OpenFile, PosInv
  <2>2. TypeOK' /\ PosInv' /\ NothingWithoutOpen'
    BY <1>3, <2>1 DEF OpenFile, TypeOK, PosInv, NothingWithoutOpen
  <2>3. LastInv'
    BY <1>3, <2>1 DEF OpenFile, TypeOK, LastInv
  <2> QED
    BY <2>2, <2>3
<1>4. ASSUME NEW c \in Copiers, Copy(c)
      PROVE  IInv'
  BY <1>4, CopyInv
<1>5. ASSUME NEW c \in Copiers, Finish(c)
      PROVE  IInv'
  BY <1>5 DEF Finish, Done, TypeOK, PosInv, LastInv, NothingWithoutOpen
<1>6. ASSUME NEW c \in Copiers, Throw(c)
      PROVE  IInv'
  BY <1>6 DEF Throw, TypeOK, PosInv, LastInv, NothingWithoutOpen
<1>7. CASE Crash
  <2>1. TypeOK' /\ PosInv' /\ NothingWithoutOpen'
    BY <1>7 DEF Crash, Alive, TypeOK, PosInv, NothingWithoutOpen
  <2>2. LastInv'
    BY <1>7 DEF Crash, Alive, TypeOK, LastInv
  <2> QED
    BY <2>1, <2>2
<1>8. CASE UNCHANGED vars
  BY <1>8 DEF vars, TypeOK, PosInv, LastInv, NothingWithoutOpen
<1> QED
  BY <1>1, <1>2, <1>3, <1>4, <1>5, <1>6, <1>7, <1>8 DEF Next, Thread

THEOREM Invariance == Spec => []IInv
  BY InitInv, StepInv, PTL DEF Spec

-------------------------------------------------------------------------------
(* Every value has its type: nothing but pieces of the asset gets into the file. *)
THEOREM TypeCorrect == Spec => []TypeOK
<1>1. IInv => TypeOK
  BY DEF IInv
<1> QED
  BY <1>1, Invariance, PTL

(* A file that nobody is copying is whole, or the copier that opened it last has
   failed. *)
THEOREM WholeUnlessFailed == Spec => []WholeOrFailed
<1>1. IInv => WholeOrFailed
  <2> SUFFICES ASSUME IInv, exists, Alive = {}, \A c \in last : c \notin failed
               PROVE  Whole
    BY DEF WholeOrFailed
  <2>1. PICK c \in last : TRUE
    BY DEF IInv, NothingWithoutOpen
  <2>2. c \in Copiers /\ copier[c] # "copying"
    BY DEF IInv, TypeOK, Alive
  <2>3. pos[c] = Size /\ 0 .. pos[c] - 1 \subseteq file
    BY <2>2 DEF IInv, LastInv
  <2> QED
    BY <2>3 DEF IInv, TypeOK, Whole
<1> QED
  BY <1>1, Invariance, PTL

-------------------------------------------------------------------------------
LEMMA RefinesInit == Init => File!Init
  BY DEF Init, File!Init, Copying

LEMMA RefinesNext == IInv /\ [Next]_vars => [File!Next]_File!vars
<1> SUFFICES ASSUME IInv, [Next]_vars
             PROVE  File!Next \/ UNCHANGED File!vars
  BY DEF File!vars
<1> USE CertCopyAssumption DEF IInv
<1>1. ASSUME NEW c \in Copiers, copyCertFile(c) \/ OpenAsset(c)
      PROVE  UNCHANGED File!vars
  BY <1>1 DEF copyCertFile, OpenAsset, TypeOK, Copying, File!vars
<1>2. ASSUME NEW c \in Copiers, OpenFile(c)
      PROVE  File!Open(c)
  <2>1. pos[c] = 0 /\ pos' = pos
    BY <1>2 DEF OpenFile, PosInv
  <2>2. pos' = [pos EXCEPT ![c] = 0]
    BY <2>1 DEF TypeOK
  <2>3. Copying' = Copying \cup {c} /\ c \notin Copying
    BY <1>2 DEF OpenFile, Copying, TypeOK
  <2> QED
    BY <1>2, <2>2, <2>3 DEF OpenFile, File!Open
<1>3. ASSUME NEW c \in Copiers, Copy(c)
      PROVE  \E n \in 0 .. Size : File!Write(c, n)
  <2>1. pos[c] \in 0 .. Size - 1 /\ Size \in Nat
    BY <1>3 DEF Copy, TypeOK
  <2>2. pos[c] .. (pos[c] + 1) - 1 = {pos[c]}
    BY <2>1
  <2>3. Copying' = Copying /\ c \in Copying
    BY <1>3 DEF Copy, Copying
  <2>4. File!Write(c, pos[c] + 1)
    BY <1>3, <2>1, <2>2, <2>3 DEF Copy, Piece, File!Write
  <2> QED
    BY <2>1, <2>4
<1>4. ASSUME NEW c \in Copiers, Finish(c)
      PROVE  \E n \in 0 .. Size : File!Close(c, n)
  <2>1. pos[c] \in 0 .. Size /\ Size \in Nat
    BY DEF TypeOK
  <2>2. pos[c] .. pos[c] - 1 = {} /\ pos' = [pos EXCEPT ![c] = pos[c]]
    BY <1>4, <2>1 DEF Finish, TypeOK
  <2>3. Copying' = Copying \ {c} /\ c \in Copying
    BY <1>4 DEF Finish, Copying, TypeOK
  <2>4. file' = file \cup pos[c] .. pos[c] - 1 /\ last' = last /\ pos[c] <= pos[c]
    BY <1>4, <2>1, <2>2 DEF Finish
  <2>5. File!Close(c, pos[c])
    BY <2>2, <2>3, <2>4 DEF File!Close
  <2> QED
    BY <2>1, <2>5
<1>5. ASSUME NEW c \in Copiers, Throw(c)
      PROVE  File!Abandon({c})
  BY <1>5 DEF Throw, Copying, TypeOK, File!Abandon
<1>6. CASE Crash
  <2>1. Copying' = Copying \ Alive
    BY <1>6 DEF Crash, Copying, Alive, TypeOK
  <2>2. File!Abandon(Alive)
    BY <1>6, <2>1 DEF Crash, File!Abandon
  <2> QED
    BY <2>2 DEF File!Next, Alive
<1>7. CASE UNCHANGED vars
  BY <1>7 DEF vars, Copying, File!vars
<1> QED
  BY <1>1, <1>2, <1>3, <1>4, <1>5, <1>6, <1>7 DEF Next, Thread, File!Next

(* The copiers are writers of one file: each opens it, writes from the beginning and
   closes or abandons it. *)
THEOREM CopiersShareFile == Spec => KeepsFile
<1>1. Init => File!Init
  BY RefinesInit
<1>2. IInv /\ [Next]_vars => [File!Next]_File!vars
  BY RefinesNext
<1> QED
  BY <1>1, <1>2, Invariance, PTL DEF Spec, KeepsFile, File!Spec

-------------------------------------------------------------------------------
(* The uploads *)


(* A started copier stays started, so two that are determine what may follow. *)
Two == \E c, d \in Copiers : c # d /\ copier[c] # "none" /\ copier[d] # "none"

Alone(c) == \A d \in Copiers : d # c => copier[d] = "none"

(* A single copier leaves a beginning of the asset. *)
AloneInv ==
    /\ (\A c \in Copiers : copier[c] = "none") => file = {}
    /\ \A c \in Copiers : Alone(c) => file = 0 .. pos[c] - 1

(* Once an upload has opened the file in a calm, the file never changes. *)
CalmInv == calm # {} => exists /\ Alive = {} /\ Whole

(* How far an upload is. *)
ReadInv ==
    \A u \in Uploads :
        /\ m_uploadsize[u] <= fetched[u]
        /\ stage[u] = "new" => u \notin calm /\ zeros[u] = {}
        /\ stage[u] \in {"new", "queued", "performing"} => told[u] = "none"
        /\ stage[u] \in {"new", "queued"} => m_file[u] \in {"none", "open"}
        /\ u \in calm => m_file[u] # "none"

(* A stream of a calm upload that is at its end, or closed by readfunc, has given
   everything. *)
WholeInv ==
    \A u \in calm :
        m_file[u] # "open" /\ stage[u] = "performing" => m_uploadsize[u] = Size

UpInv ==
    /\ IInv /\ UpTypeOK
    /\ AloneInv /\ CalmInv /\ ReadInv /\ WholeInv /\ WholeUpload /\ ZerosByTwo

-------------------------------------------------------------------------------
LEMMA UpInitInv == UpInit => UpInv
<1> SUFFICES ASSUME UpInit
             PROVE  UpInv
  OBVIOUS
<1>1. IInv /\ Size \in Nat /\ 0 \in 0 .. Size
  BY InitInv, CertCopyAssumption DEF UpInit
<1>2. UpTypeOK
  BY <1>1 DEF UpInit, Up!Init, UpTypeOK, Up!TypeOK, IInv
<1>3. AloneInv
  BY <1>1 DEF UpInit, Init, AloneInv, Alone
<1>4. CalmInv /\ ReadInv /\ WholeInv /\ WholeUpload /\ ZerosByTwo
  BY <1>1 DEF UpInit, Up!Init, CalmInv, ReadInv, WholeInv, WholeUpload, ZerosByTwo
<1> QED
  BY <1>1, <1>2, <1>3, <1>4 DEF UpInv

(* A file without a gap has no zeros below its end, wherever its end is. *)
LEMMA NoZeros ==
    ASSUME NEW k \in Nat, file = 0 .. k - 1, NEW n \in Nat, Up!EndsAt(n)
    PROVE  n = k
<1>1. CASE k = 0
  BY <1>1 DEF Up!EndsAt
<1>2. CASE k > 0
  <2>1. k - 1 \in file
    BY <1>2
  <2>2. k - 1 < n
    BY <2>1 DEF Up!EndsAt
  <2>3. n - 1 \in file
    BY <1>2, <2>2 DEF Up!EndsAt
  <2> QED
    BY <2>2, <2>3
<1> QED
  BY <1>1, <1>2

(* Without two copiers the file has no gap. *)
LEMMA FileIsBeginning ==
    ASSUME UpInv, ~Two
    PROVE  \E k \in Nat : file = 0 .. k - 1
<1>1. CASE \A c \in Copiers : copier[c] = "none"
  <2>1. file = 0 .. 0 - 1
    BY <1>1 DEF UpInv, AloneInv
  <2> QED
    BY <2>1
<1>2. CASE \E c \in Copiers : copier[c] # "none"
  <2>1. PICK c \in Copiers : copier[c] # "none"
    BY <1>2
  <2>2. Alone(c)
    BY <2>1 DEF Alone, Two
  <2>3. pos[c] \in Nat
    BY CertCopyAssumption DEF UpInv, UpTypeOK, TypeOK
  <2> QED
    BY <2>2, <2>3 DEF UpInv, AloneInv
<1> QED
  BY <1>1, <1>2

-------------------------------------------------------------------------------
(* The copiers. *)

LEMMA CopierAlone ==
    ASSUME UpInv, NEW c \in Copiers, copyCertFile(c) \/ Thread(c) \/ Throw(c)
    PROVE  AloneInv'
<1> USE DEF UpInv, IInv
<1>1. \A d \in Copiers : d # c => copier'[d] = copier[d] /\ pos'[d] = pos[d]
  BY DEF copyCertFile, Thread, OpenAsset, OpenFile, Copy, Finish, Throw, TypeOK
<1>2. \A d \in Copiers : copier[d] # "none" => copier'[d] # "none"
  BY DEF copyCertFile, Thread, OpenAsset, OpenFile, Copy, Finish, Throw, TypeOK, Alive
<1>3. copier'[c] # "none"
  BY DEF copyCertFile, Thread, OpenAsset, OpenFile, Copy, Finish, Throw, TypeOK, Alive
<1>4. ASSUME NEW d \in Copiers, Alone(d)'
      PROVE  file' = 0 .. pos'[d] - 1
  <2>1. d = c
    BY <1>3, <1>4 DEF Alone
  <2>2. Alone(c)
    BY <1>1, <1>4, <2>1 DEF Alone
  <2>3. file = 0 .. pos[c] - 1
    BY <2>2 DEF AloneInv
  <2>4. CASE OpenFile(c)
    <3>1. pos[c] = 0 /\ pos' = pos /\ file' = {}
      BY <2>4 DEF OpenFile, PosInv
    <3> QED
      BY <2>1, <3>1
  <2>5. CASE Copy(c)
    <3>1. pos[c] \in Nat
      BY CertCopyAssumption DEF TypeOK
    <3>2. pos'[c] = pos[c] + 1 /\ file' = file \cup {pos[c]}
      BY <2>5 DEF Copy, Piece, TypeOK
    <3> QED
      BY <2>1, <2>3, <3>1, <3>2
  <2>6. CASE copyCertFile(c) \/ OpenAsset(c) \/ Finish(c) \/ Throw(c)
    BY <2>1, <2>3, <2>6 DEF copyCertFile, OpenAsset, Finish, Throw
  <2> QED
    BY <2>4, <2>5, <2>6 DEF Thread
<1> QED
  BY <1>3, <1>4 DEF AloneInv

LEMMA CopierInv ==
    ASSUME UpInv, NEW c \in Copiers, copyCertFile(c) \/ Thread(c) \/ Throw(c), UNCHANGED upVars
    PROVE  UpInv'
<1> USE DEF UpInv
<1>1. IInv'
  BY StepInv DEF Next
<1>2. UpTypeOK' /\ ReadInv' /\ WholeInv' /\ WholeUpload'
  BY <1>1 DEF upVars, UpTypeOK, Up!TypeOK, IInv, ReadInv, WholeInv, WholeUpload
<1>3. CalmInv'
  <2>1. calm # {} => FALSE
    BY DEF CalmInv, Alive, copyCertFile, Missing, Thread, OpenAsset, OpenFile, Copy,
           Finish, Throw
  <2> QED
    BY <2>1 DEF CalmInv, upVars
<1>4. ZerosByTwo'
  <2>1. \A d \in Copiers : copier[d] # "none" => copier'[d] # "none"
    BY DEF IInv, copyCertFile, Thread, OpenAsset, OpenFile, Copy, Finish, Throw, TypeOK, Alive
  <2> QED
    BY <2>1 DEF ZerosByTwo, upVars
<1> QED
  BY <1>1, <1>2, <1>3, <1>4, CopierAlone

LEMMA KillInv ==
    ASSUME UpInv, KillAll
    PROVE  UpInv'
<1> USE DEF UpInv
<1>1. IInv' /\ UNCHANGED <<pos, exists, file, last, calm>>
  BY StepInv DEF Next, KillAll, Crash
<1>2. Alive # {} /\ calm = {}
  BY DEF KillAll, Crash, CalmInv
<1>3. \A d \in Copiers : copier'[d] = "none" <=> copier[d] = "none"
  BY DEF KillAll, Crash, Alive, IInv, TypeOK
<1>4. UpTypeOK'
  BY <1>1 DEF IInv, KillAll, Up!Killed, UpTypeOK, Up!TypeOK
<1>5. AloneInv'
  BY <1>1, <1>3 DEF AloneInv, Alone
<1>6. ReadInv'
  BY <1>1 DEF KillAll, Up!Killed, ReadInv, UpTypeOK, Up!TypeOK
<1>7. CalmInv' /\ WholeInv' /\ WholeUpload'
  BY <1>1, <1>2 DEF CalmInv, WholeInv, WholeUpload
<1>8. ZerosByTwo'
  BY <1>3 DEF ZerosByTwo, KillAll, Up!Killed
<1> QED
  BY <1>1, <1>4, <1>5, <1>6, <1>7, <1>8

-------------------------------------------------------------------------------
(* The uploads. *)

(* In a calm the file that exists is whole. *)
LEMMA QuietIsWhole ==
    ASSUME IInv, exists, Quiet
    PROVE  Whole
<1>1. PICK c \in last : TRUE
  BY DEF IInv, NothingWithoutOpen
<1>2. c \in Copiers /\ copier[c] = "ended" /\ c \notin failed
  BY <1>1 DEF IInv, TypeOK, LastInv, Quiet, Alive
<1>3. 0 .. Size - 1 \subseteq file
  BY <1>1, <1>2 DEF IInv, LastInv
<1> QED
  BY <1>3 DEF IInv, TypeOK, Whole

LEMMA OpenCertInv ==
    ASSUME UpInv, NEW u \in Uploads, OpenCert(u)
    PROVE  UpInv'
<1> USE DEF UpInv
<1>1. UNCHANGED vars
  BY DEF OpenCert
<1>2. IInv' /\ AloneInv'
  BY <1>1, StepInv DEF vars, AloneInv, Alone
<1>3. CASE Up!OpenFails(u) /\ UNCHANGED calm
  <2>1. UpTypeOK'
    BY <1>2, <1>3 DEF Up!OpenFails, UpTypeOK, Up!TypeOK, IInv
  <2>2. CalmInv'
    BY <1>1, <1>3 DEF vars, CalmInv, Alive, Whole
  <2>3. u \notin calm
    BY <1>3 DEF Up!OpenFails, ReadInv
  <2>4. ReadInv'
    BY <1>3, <2>3 DEF Up!OpenFails, ReadInv, UpTypeOK, Up!TypeOK
  <2>5. WholeInv' /\ WholeUpload' /\ ZerosByTwo'
    BY <1>1, <1>3, <2>3 DEF vars, Up!OpenFails, WholeInv, WholeUpload, ZerosByTwo, UpTypeOK, Up!TypeOK
  <2> QED
    BY <1>2, <2>1, <2>2, <2>4, <2>5
<1>4. CASE Up!set_filepath(u) /\ calm' = IF Quiet THEN calm \cup {u} ELSE calm
  <2>1. PICK n \in 0 .. Size : Up!EndsAt(n) /\ m_filesize' = [m_filesize EXCEPT ![u] = n]
    BY <1>4 DEF Up!set_filepath
  <2>2. /\ stage[u] = "new" /\ exists
        /\ stage' = [stage EXCEPT ![u] = "queued"]
        /\ m_file' = [m_file EXCEPT ![u] = "open"]
        /\ UNCHANGED <<told, m_uploadsize, fetched, zeros>>
    BY <1>4 DEF Up!set_filepath
  <2>3. u \notin calm /\ zeros[u] = {} /\ told[u] = "none"
    BY <2>2 DEF ReadInv
  <2>4. calm' \subseteq calm \cup {u}
    BY <1>4
  <2>5. UpTypeOK'
    BY <1>2, <2>1, <2>2, <2>4 DEF UpTypeOK, Up!TypeOK, IInv
  <2>6. Quiet => Whole
    BY <2>2, QuietIsWhole
  <2>7. CalmInv'
    BY <1>1, <1>4, <2>2, <2>6 DEF vars, CalmInv, Quiet, Alive, Whole
  <2>8. ReadInv'
    BY <2>2, <2>3, <2>4 DEF ReadInv, UpTypeOK, Up!TypeOK
  <2>9. WholeInv'
    BY <2>2, <2>4 DEF WholeInv, UpTypeOK, Up!TypeOK
  <2>10. u \in calm' => n = Size
    <3>1. u \in calm' => Whole
      BY <1>4, <2>3, <2>6
    <3> QED
      BY <2>1, <3>1, NoZeros, CertCopyAssumption DEF Whole
  <2>11. WholeUpload'
    BY <2>1, <2>2, <2>3, <2>4, <2>10 DEF WholeUpload, UpTypeOK, Up!TypeOK
  <2>12. ZerosByTwo'
    BY <1>1, <2>2 DEF vars, ZerosByTwo
  <2> QED
    BY <1>2, <2>5, <2>7, <2>8, <2>9, <2>11, <2>12
<1> QED
  BY <1>3, <1>4 DEF OpenCert

(* The steps of an upload that leave the file and the stream's reading alone. *)
LEMMA FileKept ==
    ASSUME UpInv, UNCHANGED <<vars, calm>>
    PROVE  IInv' /\ AloneInv' /\ CalmInv'
<1>1. IInv'
  BY StepInv DEF UpInv
<1> QED
  BY <1>1 DEF UpInv, vars, AloneInv, Alone, CalmInv, Alive, Whole

LEMMA ProgressInv ==
    ASSUME UpInv, UNCHANGED <<vars, calm>>, NEW u \in Uploads,
           Up!Perform(u) \/ Up!Succeed(u) \/ Up!Fail(u) \/ Up!Close(u)
    PROVE  UpInv'
<1> USE DEF UpInv
<1>1. UNCHANGED <<m_filesize, m_uploadsize, fetched, zeros>>
  BY DEF Up!Perform, Up!Succeed, Up!Fail, Up!Close, Up!Called
<1>2. UpTypeOK'
  BY <1>1, FileKept DEF Up!Perform, Up!Succeed, Up!Fail, Up!Close, Up!Called,
                        UpTypeOK, Up!TypeOK, IInv
<1>3. ReadInv'
  BY <1>1 DEF Up!Perform, Up!Succeed, Up!Fail, Up!Close, Up!Called, ReadInv, UpTypeOK,
              Up!TypeOK
<1>4. WholeInv'
  BY <1>1 DEF Up!Perform, Up!Succeed, Up!Fail, Up!Close, Up!Called, WholeInv, ReadInv,
              UpTypeOK, Up!TypeOK
<1>5. WholeUpload'
  <2>1. CASE Up!Succeed(u)
    <3>1. u \in calm => m_uploadsize[u] = Size
      BY <2>1, CertCopyAssumption
         DEF Up!Succeed, WholeInv, WholeUpload, UpTypeOK, Up!TypeOK
    <3> QED
      BY <1>1, <2>1, <3>1 DEF Up!Succeed, Up!Called, WholeUpload, UpTypeOK, Up!TypeOK
  <2>2. CASE Up!Perform(u) \/ Up!Fail(u) \/ Up!Close(u)
    BY <1>1, <2>2 DEF Up!Perform, Up!Fail, Up!Close, Up!Called, WholeUpload, UpTypeOK,
                      Up!TypeOK
  <2> QED
    BY <2>1, <2>2
<1>6. ZerosByTwo'
  BY <1>1 DEF ZerosByTwo, vars
<1> QED
  BY <1>2, <1>3, <1>4, <1>5, <1>6, FileKept

LEMMA ReadfuncInv ==
    ASSUME UpInv, UNCHANGED <<vars, calm>>, NEW u \in Uploads, NEW b \in 1 .. Size,
           Up!readfunc(u, b)
    PROVE  UpInv'
<1> USE DEF UpInv
<1>1. PICK n \in 0 .. Size, e \in fetched[u] .. Size :
          /\ Up!EndsAt(n)
          /\ e <= n \/ e = fetched[u]
          /\ e >= m_uploadsize[u] + b \/ e >= n
          /\ Up!Fetch(u, e)
          /\ m_uploadsize' = [m_uploadsize EXCEPT ![u] = m_uploadsize[u] + Up!Given(u, b, e)]
          /\ m_file' = [m_file EXCEPT ![u] = Up!StreamAfter(u, b, e)]
  BY DEF Up!readfunc
<1>2. /\ stage[u] = "performing" /\ m_file[u] = "open"
      /\ UNCHANGED <<stage, told, m_filesize>>
  BY DEF Up!readfunc
<1>3. /\ Size \in Nat /\ b \in Nat /\ b > 0 /\ n \in Nat /\ e \in Nat /\ e <= Size
      /\ m_uploadsize[u] \in Nat /\ fetched[u] \in Nat
      /\ m_uploadsize[u] <= fetched[u] /\ fetched[u] <= e
  BY CertCopyAssumption DEF UpTypeOK, Up!TypeOK, ReadInv
<1>4. /\ m_uploadsize'[u] = m_uploadsize[u] + Up!Given(u, b, e)
      /\ m_uploadsize'[u] \in 0 .. Size /\ m_uploadsize'[u] <= e
  BY <1>1, <1>3 DEF Up!Given, UpTypeOK, Up!TypeOK
<1>5. /\ fetched' = [fetched EXCEPT ![u] = e]
      /\ zeros' = [zeros EXCEPT ![u] = zeros[u] \cup ((fetched[u] .. e - 1) \ file)]
  BY <1>1 DEF Up!Fetch
<1>6. (fetched[u] .. e - 1) \subseteq 0 .. Size - 1
  BY <1>3
<1>7. UpTypeOK'
  <2>1. fetched' \in [Uploads -> 0 .. Size]
    BY <1>3, <1>5 DEF UpTypeOK, Up!TypeOK
  <2>2. zeros' \in [Uploads -> SUBSET (0 .. Size - 1)]
    BY <1>5, <1>6 DEF UpTypeOK, Up!TypeOK
  <2>3. m_uploadsize' \in [Uploads -> 0 .. Size]
    BY <1>1, <1>4 DEF UpTypeOK, Up!TypeOK
  <2>4. m_file' \in [Uploads -> {"none", "open", "ended", "closed"}]
    BY <1>1 DEF Up!StreamAfter, UpTypeOK, Up!TypeOK
  <2> QED
    BY <1>2, <2>1, <2>2, <2>3, <2>4, FileKept DEF UpTypeOK, Up!TypeOK, IInv
<1>8. ReadInv'
  BY <1>1, <1>2, <1>4, <1>5 DEF Up!StreamAfter, ReadInv, UpTypeOK, Up!TypeOK
<1>9. u \in calm => n = Size
  BY <1>1, <1>3, NoZeros DEF CalmInv, Whole
<1>10. WholeInv'
  <2>1. ASSUME u \in calm, m_file'[u] # "open"
        PROVE  m_uploadsize'[u] = Size
    <3>1. m_file'[u] = Up!StreamAfter(u, b, e)
      BY <1>1 DEF UpTypeOK, Up!TypeOK
    <3>2. e - m_uploadsize[u] < b
      BY <1>3, <2>1, <3>1 DEF Up!StreamAfter
    <3>3. e = Size
      BY <1>1, <1>3, <1>9, <2>1, <3>2
    <3> QED
      BY <1>3, <1>4, <3>2, <3>3 DEF Up!Given
  <2> QED
    BY <1>1, <1>2, <2>1 DEF WholeInv, UpTypeOK, Up!TypeOK
<1>11. ~Two => zeros'[u] = zeros[u]
  <2>1. SUFFICES ASSUME ~Two
                 PROVE  (fetched[u] .. e - 1) \ file = {}
    BY <1>5 DEF UpTypeOK, Up!TypeOK
  <2>2. PICK k \in Nat : file = 0 .. k - 1
    BY <2>1, FileIsBeginning
  <2>3. n = k
    BY <1>1, <1>3, <2>2, NoZeros
  <2>4. (fetched[u] .. e - 1) \subseteq 0 .. k - 1
    BY <1>1, <1>3, <2>3
  <2> QED
    BY <2>2, <2>4
<1>12. u \in calm => zeros'[u] = zeros[u]
  <2>1. SUFFICES ASSUME u \in calm
                 PROVE  (fetched[u] .. e - 1) \subseteq file
    BY <1>5 DEF UpTypeOK, Up!TypeOK
  <2> QED
    BY <1>6, <2>1 DEF CalmInv, Whole
<1>13. WholeUpload'
  BY <1>1, <1>2, <1>5, <1>12 DEF WholeUpload, ReadInv, UpTypeOK, Up!TypeOK
<1>14. ZerosByTwo'
  BY <1>5, <1>11 DEF ZerosByTwo, Two, vars, UpTypeOK, Up!TypeOK
<1> QED
  BY <1>7, <1>8, <1>10, <1>13, <1>14, FileKept

-------------------------------------------------------------------------------
LEMMA UpStepInv == UpInv /\ [UpNext]_<<vars, upVars>> => UpInv'
<1> SUFFICES ASSUME UpInv, [UpNext]_<<vars, upVars>>
             PROVE  UpInv'
  OBVIOUS
<1>1. ASSUME NEW u \in Uploads, Up!Worker(u), UNCHANGED <<vars, calm>>
      PROVE  UpInv'
  BY <1>1, ProgressInv, ReadfuncInv DEF Up!Worker, Up!Onward
<1>2. CASE UNCHANGED <<vars, upVars>>
  <2>1. UNCHANGED <<vars, calm>>
    BY <1>2 DEF upVars
  <2> QED
    BY <1>2, <2>1, FileKept
       DEF UpInv, upVars, vars, IInv, UpTypeOK, Up!TypeOK, ReadInv, WholeInv, WholeUpload, ZerosByTwo
<1> QED
  BY <1>1, <1>2, CopierInv, KillInv, OpenCertInv DEF UpNext

THEOREM UpInvariance == UpSpec => []UpInv
  BY UpInitInv, UpStepInv, PTL DEF UpSpec

-------------------------------------------------------------------------------
(* Every value of the composition has its type: no upload gives more than the file may
   have. *)
THEOREM UpTypeCorrect == UpSpec => []UpTypeOK
<1>1. UpInv => UpTypeOK
  BY DEF UpInv
<1> QED
  BY <1>1, UpInvariance, PTL

(* An upload that found the certificate file in a calm sends the whole of it. *)
THEOREM CalmUploadsAreWhole == UpSpec => []WholeUpload
<1>1. UpInv => WholeUpload
  BY DEF UpInv
<1> QED
  BY <1>1, UpInvariance, PTL

(* Zeros are sent only if two copiers have been started. *)
THEOREM ZerosNeedTwoCopiers == UpSpec => []ZerosByTwo
<1>1. UpInv => ZerosByTwo
  BY DEF UpInv
<1> QED
  BY <1>1, UpInvariance, PTL

(* An upload sends the certificates unless copying them was disturbed. *)
THEOREM CertificatesSent == UpSpec => []SendsCertificates
  BY CalmUploadsAreWhole, ZerosNeedTwoCopiers, PTL DEF SendsCertificates
===============================================================================
