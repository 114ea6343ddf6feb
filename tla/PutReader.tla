------------------------------- MODULE PutReader -------------------------------
(***************************************************************************)
(* The body of a put: HttpPutJsonRequest in request/putrequest.h, whose    *)
(* handle and document are reused for one put after the other.             *)
(*                                                                         *)
(* libcurl, external, asks read_callback for the next piece with a buffer  *)
(* of a size it chooses, and sends what it is given until it gets 0; a     *)
(* transfer may fail between two pieces. A document is its length: what is *)
(* sent are positions of it, and positions from its length on are memory   *)
(* behind it.                                                              *)
(***************************************************************************)
EXTENDS Integers, Sequences

CONSTANTS
    Lengths,        \* of the documents
    Buffers         \* sizes of the buffer, size * nitems

ASSUME PutReaderAssumption ==
    /\ Lengths \subseteq Nat
    /\ Buffers \subseteq Nat \ {0}

VARIABLES
    phase,          \* of the handle: "idle", "sending", "sent" or "failed"
    len, offset,    \* members of JSONDATA
    sent,           \* the positions sent in this transfer
    offered         \* history: the buffers offered in this transfer

vars == <<phase, len, offset, sent, offered>>

Init ==
    /\ phase = "idle"
    /\ len = 0 /\ offset = 0
    /\ sent = <<>> /\ offered = {}

(* mutant: the offset of the previous document is kept *)
OffsetKept == offset

Offset == 0

(* set_json, then go: curl_easy_perform starts the transfer *)
set_json(n) ==
    /\ phase # "sending"
    /\ len' = n
    /\ offset' = Offset
    /\ sent' = <<>> /\ offered' = {}
    /\ phase' = "sending"

Advance(b) == IF len > b THEN offset + b ELSE offset + len

(* mutant: a full buffer is given also when the document is shorter *)
PieceOfBuffer(b) == b

(* read_callback with a buffer of b bytes: it compares the whole length with the
   buffer, not what is left of it *)
Piece(b) == IF len > b THEN b ELSE len

read_callback(b) ==
    /\ phase = "sending"
    /\ offset < len
    /\ sent' = sent \o [i \in 1 .. Piece(b) |-> offset + i - 1]
    /\ offset' = Advance(b)
    /\ offered' = offered \cup {b}
    /\ UNCHANGED <<phase, len>>

(* mutant: a document of one byte is taken for an empty one *)
AtEndEarly == offset + 1 >= len
(* mutant: the end is missed by an offset that has gone beyond it *)
AtEndExact == offset = len

AtEnd == offset >= len

(* it returns 0: the body is complete *)
End ==
    /\ phase = "sending"
    /\ AtEnd
    /\ phase' = "sent"
    /\ UNCHANGED <<len, offset, sent, offered>>

Fail ==
    /\ phase = "sending"
    /\ phase' = "failed"
    /\ UNCHANGED <<len, offset, sent, offered>>

Next ==
    \/ \E n \in Lengths : set_json(n)
    \/ \E b \in Buffers : read_callback(b)
    \/ End
    \/ Fail

Spec == Init /\ [][Next]_vars

(* libcurl goes on asking for the body of a transfer that has not failed *)
FairSpec ==
    /\ Spec
    /\ WF_vars(End \/ \E b \in Buffers : read_callback(b))

-------------------------------------------------------------------------------
TypeOK ==
    /\ phase \in {"idle", "sending", "sent", "failed"}
    /\ len \in Nat /\ offset \in Nat /\ offered \subseteq Buffers
    /\ sent \in Seq(Nat)

(* What has been sent starts with the document of this put: no byte is skipped,
   repeated or left over from the document the handle sent before. *)
InOrder == \A i \in DOMAIN sent : sent[i] = i - 1

(* A body that libcurl takes for complete has the whole document. *)
WholeWhenSent == phase = "sent" => Len(sent) >= len

(* A body may exceed its document, by less than a second copy of it, and only if a
   buffer was too short for it: a document that fits is sent exactly. *)
OverrunOnlyInPieces ==
    Len(sent) > len => (\E b \in offered : b < len) /\ Len(sent) < 2 * len

(* So the body of a put is its document, and where the buffers are too short a little
   more: all that a put sends, in its first use of the handle and in every later one. *)
SendsDocument == InOrder /\ WholeWhenSent /\ OverrunOnlyInPieces

(* A transfer that has begun comes to its end. *)
Terminates == phase = "sending" ~> phase \in {"sent", "failed"}

(* curl.h on CURLOPT_READFUNCTION: "parameters will use fread() syntax, make sure
   to follow them": a reader gives no more than there is. *)
NothingBeyond == Len(sent) <= len
===============================================================================
