------------------------------- MODULE CertUpload -------------------------------
(***************************************************************************)
(* CertCopy with FileUpload: MainActivity.testCasePostFile uploads the     *)
(* certificate file, which copiers may still be writing. Buffers are       *)
(* counted in pieces, as the copy is.                                      *)
(***************************************************************************)
EXTENDS CertCopy

CONSTANT Uploads

VARIABLES
    stage, told, m_file, m_filesize, m_uploadsize, fetched, zeros,
    calm            \* history: the uploads that opened the file when nobody was
                    \* copying it and its last copier had not failed

Up == INSTANCE FileUpload

upVars == <<stage, told, m_file, m_filesize, m_uploadsize, fetched, zeros, calm>>

UpInit == Init /\ Up!Init /\ calm = {}

Quiet == Alive = {} /\ \A c \in last : c \notin failed

(* onCreate runs before the button: copyCertFile has been called *)
OpenCert(u) ==
    /\ \/ Up!set_filepath(u) /\ calm' = IF Quiet THEN calm \cup {u} ELSE calm
       \/ Up!OpenFails(u) /\ UNCHANGED calm
    /\ UNCHANGED vars

(* the process is killed, with its uploads *)
KillAll == Crash /\ Up!Killed /\ UNCHANGED calm

UpNext ==
    \/ \E c \in Copiers : (copyCertFile(c) \/ Thread(c) \/ Throw(c)) /\ UNCHANGED upVars
    \/ KillAll
    \/ \E u \in Uploads : OpenCert(u)
    \/ \E u \in Uploads : Up!Worker(u) /\ UNCHANGED <<vars, calm>>

UpSpec == UpInit /\ [][UpNext]_<<vars, upVars>>

(* libcurl goes on asking for data; workers go on *)
UpFairSpec ==
    /\ UpSpec
    /\ \A c \in Copiers : WF_<<vars, upVars>>(Thread(c) /\ UNCHANGED upVars)
    /\ \A u \in Uploads :
          WF_<<vars, upVars>>(Up!Onward(u) /\ UNCHANGED <<vars, calm>>)

-------------------------------------------------------------------------------
UpTypeOK == TypeOK /\ Up!TypeOK /\ calm \subseteq Uploads

(* An upload that opened the certificate file when nobody was copying it, and the last
   copier had not failed, sends the whole file and nothing else, and its progress ends
   at 100%: no Init that comes later touches the file under it. *)
WholeUpload ==
    \A u \in calm :
        /\ zeros[u] = {} /\ m_filesize[u] = Size
        /\ told[u] = "success" => m_uploadsize[u] = Size

(* An upload sends zeros in place of certificates only if two copiers were at work:
   one copier leaves the file shorter, but never with a gap. *)
ZerosByTwo ==
    \A u \in Uploads :
        zeros[u] # {} => \E c, d \in Copiers : c # d /\ copier[c] # "none" /\ copier[d] # "none"

(* So an upload sends the certificates, unless copying them was disturbed. *)
SendsCertificates == WholeUpload /\ ZerosByTwo

(* An upload comes to its end, also if the file is truncated or grows under it. *)
UploadEnds == \A u \in Uploads : stage[u] = "queued" ~> stage[u] = "closed"
===============================================================================
