--------------------------- MODULE FileDownloadProofs ---------------------------
(***************************************************************************)
(* The safety properties of FileDownload, for any number of downloads into *)
(* one file, any size and any announced lengths.                           *)
(***************************************************************************)
EXTENDS FileDownload, TLAPS

(* Before the transfer nothing has been written or reported. *)
FreshInv ==
    \A d \in Downloads :
        /\ stage[d] \in {"new", "queued"} =>
              /\ m_file_len[d] = 0 /\ flushed[d] = 0 /\ progress[d] = 0
              /\ told[d] = "none"
        /\ stage[d] = "new" => m_file[d] = "none" /\ badSince[d] = Never
        /\ stage[d] = "performing" => told[d] = "none"

(* The stream has gone bad with the last piece it has taken, or could not be opened
   and takes none. *)
StreamInv ==
    \A d \in Downloads :
        /\ flushed[d] <= m_file_len[d]
        /\ m_file[d] = "good" => badSince[d] = Never
        /\ badSince[d] \in {Never, m_file_len[d]}
        /\ m_file[d] = "none" => flushed[d] = 0 /\ m_file_len[d] = 0
        /\ m_file[d] = "none" /\ stage[d] # "new" => badSince[d] = 0
        /\ m_file[d] = "closed" <=> stage[d] = "closed"
        /\ told[d] = "success" => m_file_len[d] = Size

ProgressInv == \A d \in Downloads : cl[d] = Size => progress[d] = m_file_len[d]

(* What the download that opened the file last has written is in the file. *)
LastInv ==
    \A d \in last :
        /\ stage[d] # "new" /\ m_file[d] # "none"
        /\ 0 .. flushed[d] - 1 \subseteq file
        /\ stage[d] = "closed" /\ told[d] # "none" /\ badSince[d] = Never
              => flushed[d] = m_file_len[d]

IInv == TypeOK /\ FreshInv /\ StreamInv /\ ProgressInv /\ LastInv

-------------------------------------------------------------------------------
LEMMA Sizes == Size \in Nat /\ 0 \in 0 .. Size /\ Unknown = -1 /\ Never = -1
  BY FileDownloadAssumption DEF Unknown, Never

LEMMA InitInv == Init => IInv
<1> SUFFICES ASSUME Init
             PROVE  IInv
  OBVIOUS
<1>1. TypeOK
  BY Sizes DEF Init, TypeOK
<1>2. FreshInv /\ StreamInv /\ ProgressInv /\ LastInv
  BY Sizes DEF Init, FreshInv, StreamInv, ProgressInv, LastInv
<1> QED
  BY <1>1, <1>2 DEF IInv

(* Writing up to k brings the bytes up to k into the file. *)
LEMMA FlushFills ==
    ASSUME TypeOK, NEW d \in Downloads, NEW k \in flushed[d] .. Size, Flush(d, k)
    PROVE  /\ flushed' \in [Downloads -> 0 .. Size]
           /\ flushed'[d] = k
           /\ \A e \in Downloads \ {d} : flushed'[e] = flushed[e]
           /\ file \subseteq file' /\ file' \subseteq 0 .. Size - 1
           /\ 0 .. flushed[d] - 1 \subseteq file => 0 .. k - 1 \subseteq file'
<1>1. Size \in Nat /\ flushed[d] \in 0 .. Size /\ k \in 0 .. Size
  BY Sizes DEF TypeOK
<1>2. /\ flushed' = [flushed EXCEPT ![d] = k]
      /\ file' = file \cup flushed[d] .. k - 1
  BY DEF Flush
<1>3. file' \subseteq 0 .. Size - 1
  <2>1. flushed[d] .. k - 1 \subseteq 0 .. Size - 1
    BY <1>1
  <2> QED
    BY <1>2, <2>1 DEF TypeOK
<1>4. ASSUME 0 .. flushed[d] - 1 \subseteq file
      PROVE  0 .. k - 1 \subseteq file'
  <2>1. \A i \in 0 .. k - 1 : i \in 0 .. flushed[d] - 1 \/ i \in flushed[d] .. k - 1
    BY <1>1
  <2> QED
    BY <1>2, <1>4, <2>1
<1> QED
  BY <1>1, <1>2, <1>3, <1>4 DEF TypeOK

LEMMA WriteInv ==
    ASSUME IInv, NEW d \in Downloads, NEW n \in 1 .. Size, Write(d, n)
    PROVE  IInv'
<1> USE DEF IInv
<1> DEFINE total == m_file_len[d] + n
<1>1. /\ m_file_len[d] \in 0 .. Size /\ Size \in Nat /\ total \in 1 .. Size
      /\ n \in 1 .. Size /\ n <= Size
  BY Sizes DEF TypeOK, Write
<1>2. PICK k \in flushed[d] .. total : Flush(d, k)
  BY DEF Write
<1>3. k \in flushed[d] .. Size /\ k <= total /\ flushed[d] \in 0 .. Size
  BY <1>1, <1>2 DEF TypeOK
<1>4. /\ flushed' \in [Downloads -> 0 .. Size]
      /\ flushed'[d] = k
      /\ \A e \in Downloads \ {d} : flushed'[e] = flushed[e]
      /\ file \subseteq file' /\ file' \subseteq 0 .. Size - 1
      /\ 0 .. flushed[d] - 1 \subseteq file => 0 .. k - 1 \subseteq file'
  BY <1>2, <1>3, FlushFills
<1>5. /\ m_file_len' = [m_file_len EXCEPT ![d] = total]
      /\ stage[d] = "performing" /\ m_file[d] = "good"
      /\ UNCHANGED <<stage, told, cl, last>>
  BY DEF Write, Counted, Writable
<1>6. /\ m_file_len' \in [Downloads -> 0 .. Size]
      /\ m_file_len'[d] = total
      /\ \A e \in Downloads \ {d} : m_file_len'[e] = m_file_len[e]
  BY <1>1, <1>5 DEF TypeOK
<1>7. /\ progress' \in [Downloads -> 0 .. Size]
      /\ \A e \in Downloads \ {d} : progress'[e] = progress[e]
      /\ cl[d] = Size => progress'[d] = total
  <2>1. cl[d] = Size => AtMost(n, cl[d])
    BY <1>1 DEF AtMost
  <2>2. progress' = IF AtMost(n, cl[d]) THEN [progress EXCEPT ![d] = total] ELSE progress
    BY <1>6 DEF Write
  <2>3. CASE AtMost(n, cl[d])
    BY <1>1, <2>2, <2>3 DEF TypeOK
  <2>4. CASE ~AtMost(n, cl[d])
    BY <2>1, <2>2, <2>4 DEF TypeOK
  <2> QED
    BY <2>3, <2>4
<1>8. /\ m_file' \in [Downloads -> {"none", "good", "bad", "closed"}]
      /\ badSince' \in [Downloads -> 0 .. Size \cup {Never}]
      /\ \A e \in Downloads \ {d} : m_file'[e] = m_file[e] /\ badSince'[e] = badSince[e]
      /\ \/ m_file'[d] = "good" /\ badSince'[d] = Never
         \/ m_file'[d] = "bad" /\ badSince'[d] = total
  <2>1. badSince[d] = Never
    BY <1>5 DEF StreamInv
  <2>2. CASE UNCHANGED <<m_file, badSince>>
    BY <1>5, <2>1, <2>2 DEF TypeOK
  <2>3. CASE m_file' = [m_file EXCEPT ![d] = "bad"] /\ DiskFails(d, total)
    <3>1. badSince' = [badSince EXCEPT ![d] = total]
      BY <2>1, <2>3 DEF DiskFails
    <3> QED
      BY <1>1, <2>3, <3>1 DEF TypeOK
  <2> QED
    BY <2>2, <2>3 DEF Write
<1> HIDE DEF total
<1>9. TypeOK'
  BY <1>4, <1>5, <1>6, <1>7, <1>8 DEF TypeOK
<1>10. FreshInv'
  BY <1>4, <1>5, <1>6, <1>7, <1>8 DEF FreshInv
<1>11. StreamInv'
  <2> SUFFICES ASSUME NEW e \in Downloads
               PROVE  /\ flushed'[e] <= m_file_len'[e]
                      /\ m_file'[e] = "good" => badSince'[e] = Never
                      /\ badSince'[e] \in {Never, m_file_len'[e]}
                      /\ m_file'[e] = "none" => flushed'[e] = 0 /\ m_file_len'[e] = 0
                      /\ m_file'[e] = "none" /\ stage[e] # "new" => badSince'[e] = 0
                      /\ m_file'[e] = "closed" <=> stage[e] = "closed"
                      /\ told[e] = "success" => m_file_len'[e] = Size
    BY <1>5 DEF StreamInv
  <2>1. CASE e = d
    BY <1>3, <1>4, <1>5, <1>6, <1>8, <2>1 DEF FreshInv
  <2>2. CASE e # d
    BY <1>4, <1>5, <1>6, <1>8, <2>2 DEF StreamInv
  <2> QED
    BY <2>1, <2>2
<1>12. ProgressInv'
  BY <1>5, <1>6, <1>7 DEF ProgressInv
<1>13. LastInv'
  <2> SUFFICES ASSUME NEW e \in last
               PROVE  /\ stage[e] # "new" /\ m_file'[e] # "none"
                      /\ 0 .. flushed'[e] - 1 \subseteq file'
                      /\ stage[e] = "closed" /\ told[e] # "none" /\ badSince'[e] = Never
                            => flushed'[e] = m_file_len'[e]
    BY <1>5 DEF LastInv
  <2>0. e \in Downloads
    BY DEF TypeOK
  <2>1. CASE e = d
    BY <1>4, <1>5, <1>8, <2>1 DEF LastInv
  <2>2. CASE e # d
    BY <1>4, <1>5, <1>6, <1>8, <2>0, <2>2 DEF LastInv
  <2> QED
    BY <2>1, <2>2
<1> QED
  BY <1>9, <1>10, <1>11, <1>12, <1>13

LEMMA CloseInv ==
    ASSUME IInv, NEW d \in Downloads, Close(d)
    PROVE  IInv'
<1> USE DEF IInv
<1>1. /\ stage[d] = "called"
      /\ stage' = [stage EXCEPT ![d] = "closed"]
      /\ m_file' = [m_file EXCEPT ![d] = "closed"]
      /\ UNCHANGED <<told, m_file_len, cl, progress, last>>
  BY DEF Close, Closing
<1>2. /\ m_file_len[d] \in 0 .. Size /\ Size \in Nat
      /\ flushed[d] \in 0 .. Size /\ flushed[d] <= m_file_len[d]
  BY Sizes DEF TypeOK, StreamInv
<1>3. /\ flushed' \in [Downloads -> 0 .. Size]
      /\ flushed'[d] <= m_file_len[d]
      /\ \A e \in Downloads \ {d} : flushed'[e] = flushed[e]
      /\ file \subseteq file' /\ file' \subseteq 0 .. Size - 1
      /\ 0 .. flushed[d] - 1 \subseteq file => 0 .. flushed'[d] - 1 \subseteq file'
      /\ badSince' \in [Downloads -> 0 .. Size \cup {Never}]
      /\ \A e \in Downloads \ {d} : badSince'[e] = badSince[e]
      /\ badSince'[d] \in {Never, m_file_len[d]}
      /\ m_file[d] # "none" /\ badSince'[d] = Never => flushed'[d] = m_file_len[d]
  <2>1. CASE m_file[d] = "good" /\ Flush(d, m_file_len[d]) /\ UNCHANGED badSince
    <3>1. m_file_len[d] \in flushed[d] .. Size
      BY <1>2
    <3> QED
      BY <1>2, <2>1, <3>1, FlushFills DEF TypeOK, StreamInv
  <2>2. CASE /\ m_file[d] # "none" /\ DiskFails(d, m_file_len[d])
             /\ \E k \in flushed[d] .. m_file_len[d] : Flush(d, k)
    <3>1. PICK k \in flushed[d] .. m_file_len[d] : Flush(d, k)
      BY <2>2
    <3>2. k \in flushed[d] .. Size /\ k <= m_file_len[d]
      BY <1>2, <3>1
    <3>3. /\ flushed' \in [Downloads -> 0 .. Size]
          /\ flushed'[d] <= m_file_len[d]
          /\ \A e \in Downloads \ {d} : flushed'[e] = flushed[e]
          /\ file \subseteq file' /\ file' \subseteq 0 .. Size - 1
          /\ 0 .. flushed[d] - 1 \subseteq file => 0 .. flushed'[d] - 1 \subseteq file'
      BY <3>1, <3>2, FlushFills
    <3>4. /\ badSince' \in [Downloads -> 0 .. Size \cup {Never}]
          /\ \A e \in Downloads \ {d} : badSince'[e] = badSince[e]
          /\ badSince'[d] = m_file_len[d]
      <4>1. CASE badSince[d] = Never
        BY <1>2, <2>2, <4>1 DEF DiskFails, TypeOK
      <4>2. CASE badSince[d] # Never
        BY <2>2, <4>2 DEF DiskFails, TypeOK, StreamInv
      <4> QED
        BY <4>1, <4>2
    <3>5. badSince'[d] # Never
      BY <1>2, <3>4, Sizes
    <3> QED
      BY <3>3, <3>4, <3>5
  <2>3. CASE m_file[d] = "none" /\ UNCHANGED <<file, flushed, badSince>>
    BY <1>2, <2>3 DEF TypeOK, StreamInv
  <2> QED
    BY <2>1, <2>2, <2>3 DEF Close
<1>4. /\ stage'[d] = "closed" /\ m_file'[d] = "closed"
      /\ \A e \in Downloads \ {d} : stage'[e] = stage[e] /\ m_file'[e] = m_file[e]
  BY <1>1 DEF TypeOK
<1>5. TypeOK'
  BY <1>1, <1>3 DEF TypeOK
<1>6. FreshInv' /\ ProgressInv'
  BY <1>1, <1>3, <1>4 DEF FreshInv, ProgressInv
<1>7. StreamInv'
  BY <1>1, <1>3, <1>4 DEF StreamInv
<1>8. LastInv'
  <2> SUFFICES ASSUME NEW e \in last
               PROVE  /\ stage'[e] # "new" /\ m_file'[e] # "none"
                      /\ 0 .. flushed'[e] - 1 \subseteq file'
                      /\ stage'[e] = "closed" /\ told[e] # "none" /\ badSince'[e] = Never
                            => flushed'[e] = m_file_len[e]
    BY <1>1 DEF LastInv
  <2>0. e \in Downloads
    BY DEF TypeOK
  <2>1. CASE e = d
    BY <1>3, <1>4, <2>1 DEF LastInv
  <2>2. CASE e # d
    BY <1>3, <1>4, <2>0, <2>2 DEF LastInv
  <2> QED
    BY <2>1, <2>2
<1> QED
  BY <1>5, <1>6, <1>7, <1>8

LEMMA StepInv == IInv /\ [Next]_vars => IInv'
<1> SUFFICES ASSUME IInv, [Next]_vars
             PROVE  IInv'
  OBVIOUS
<1> USE DEF IInv
<1>1. ASSUME NEW d \in Downloads, Open(d)
      PROVE  IInv'
  <2>1. TypeOK'
    BY <1>1 DEF Open, TypeOK
  <2>2. FreshInv' /\ StreamInv' /\ ProgressInv'
    BY <1>1, Sizes DEF Open, TypeOK, FreshInv, StreamInv, ProgressInv
  <2>3. LastInv'
    BY <1>1, Sizes DEF Open, TypeOK, FreshInv, LastInv
  <2> QED
    BY <2>1, <2>2, <2>3
<1>2. ASSUME NEW d \in Downloads, OpenFails(d)
      PROVE  IInv'
  <2>1. badSince' = [badSince EXCEPT ![d] = 0]
    BY <1>2 DEF OpenFails, DiskFails, FreshInv
  <2>2. TypeOK'
    BY <1>2, <2>1, Sizes DEF OpenFails, TypeOK
  <2>3. FreshInv' /\ StreamInv' /\ ProgressInv'
    BY <1>2, <2>1, Sizes DEF OpenFails, TypeOK, FreshInv, StreamInv, ProgressInv
  <2>4. LastInv'
    BY <1>2, <2>1 DEF OpenFails, TypeOK, LastInv
  <2> QED
    BY <2>2, <2>3, <2>4
<1>3. ASSUME NEW d \in Downloads, Perform(d)
      PROVE  IInv'
  <2>1. TypeOK'
    BY <1>3, FileDownloadAssumption DEF Perform, TypeOK
  <2>2. FreshInv' /\ StreamInv' /\ LastInv'
    BY <1>3 DEF Perform, TypeOK, FreshInv, StreamInv, LastInv
  <2>3. ProgressInv'
    BY <1>3 DEF Perform, TypeOK, FreshInv, ProgressInv
  <2> QED
    BY <2>1, <2>2, <2>3
<1>4. ASSUME NEW d \in Downloads, Refuse(d) \/ Fail(d)
      PROVE  IInv'
  <2>1. stage[d] = "performing" /\ Called(d, "failed")
    BY <1>4 DEF Refuse, Fail
  <2>2. TypeOK'
    BY <2>1 DEF Called, TypeOK
  <2>3. FreshInv' /\ StreamInv' /\ ProgressInv' /\ LastInv'
    BY <2>1 DEF Called, TypeOK, FreshInv, StreamInv, ProgressInv, LastInv
  <2> QED
    BY <2>2, <2>3
<1>5. ASSUME NEW d \in Downloads, Succeed(d)
      PROVE  IInv'
  <2>1. TypeOK'
    BY <1>5 DEF Succeed, Called, TypeOK
  <2>2. FreshInv' /\ StreamInv' /\ ProgressInv' /\ LastInv'
    BY <1>5 DEF Succeed, Called, TypeOK, FreshInv, StreamInv, ProgressInv, LastInv
  <2> QED
    BY <2>1, <2>2
<1>6. ASSUME NEW d \in Downloads, NEW n \in 1 .. Size, Write(d, n)
      PROVE  IInv'
  BY <1>6, WriteInv
<1>7. ASSUME NEW d \in Downloads, Close(d)
      PROVE  IInv'
  BY <1>7, CloseInv
<1>8. ASSUME NEW d \in Downloads, Drop(d)
      PROVE  IInv'
  <2>1. TypeOK'
    BY <1>8 DEF Drop, TypeOK
  <2>2. FreshInv' /\ StreamInv' /\ ProgressInv' /\ LastInv'
    BY <1>8 DEF Drop, TypeOK, FreshInv, StreamInv, ProgressInv, LastInv
  <2> QED
    BY <2>1, <2>2
<1>9. CASE UNCHANGED vars
  BY <1>9 DEF vars, TypeOK, FreshInv, StreamInv, ProgressInv, LastInv
<1> QED
  BY <1>1, <1>2, <1>3, <1>4, <1>5, <1>6, <1>7, <1>8, <1>9 DEF Next, Main, Worker

THEOREM Invariance == Spec => []IInv
  BY InitInv, StepInv, PTL DEF Spec

-------------------------------------------------------------------------------
(* Every value has its type: no download counts, writes or reports more than the
   body has. *)
THEOREM TypeCorrect == Spec => []TypeOK
<1>1. IInv => TypeOK
  BY DEF IInv
<1> QED
  BY <1>1, Invariance, PTL

(* The file is whole once the download that opened it last has succeeded and closed
   it, if the disk has not failed. *)
THEOREM WholeWhenClosed == Spec => []LastIsWhole
<1>1. IInv => LastIsWhole
  <2> SUFFICES ASSUME IInv, NEW d \in last, stage[d] = "closed", told[d] = "success",
                      badSince[d] = Never
               PROVE  file = 0 .. Size - 1
    BY DEF LastIsWhole
  <2>1. d \in Downloads
    BY DEF IInv, TypeOK
  <2>2. flushed[d] = m_file_len[d] /\ m_file_len[d] = Size
    BY <2>1 DEF IInv, LastInv, StreamInv
  <2>3. 0 .. Size - 1 \subseteq file
    BY <2>2 DEF IInv, LastInv
  <2> QED
    BY <2>3 DEF IInv, TypeOK
<1> QED
  BY <1>1, Invariance, PTL

(* Only a failure of the last bytes is reported as a success. *)
THEOREM FailureNoticed == Spec => []NoticedInTime
<1>1. IInv => NoticedInTime
  BY DEF IInv, StreamInv, NoticedInTime
<1> QED
  BY <1>1, Invariance, PTL

(* The last progress before a success is the announced length, if that is the length
   of the body. *)
THEOREM ProgressComplete == Spec => []FullBeforeSuccess
<1>1. IInv => FullBeforeSuccess
  BY DEF IInv, StreamInv, ProgressInv, FullBeforeSuccess
<1> QED
  BY <1>1, Invariance, PTL

(* What a success says of the disk and of the progress before it. *)
THEOREM SuccessIsMeant == Spec => []SuccessMeans
  BY FailureNoticed, ProgressComplete, PTL DEF SuccessMeans

-------------------------------------------------------------------------------
LEMMA RefinesInit == Init => File!Init
  BY DEF Init, File!Init, HasOpen

LEMMA RefinesNext == IInv /\ [Next]_vars => [File!Next]_File!vars
<1> SUFFICES ASSUME IInv, [Next]_vars
             PROVE  File!Next \/ UNCHANGED File!vars
  BY DEF File!vars
<1> USE DEF IInv
<1>1. ASSUME NEW d \in Downloads, Open(d)
      PROVE  File!Open(d)
  <2>1. flushed[d] = 0 /\ m_file[d] = "none"
    BY <1>1 DEF Open, FreshInv
  <2>2. flushed' = [flushed EXCEPT ![d] = 0]
    BY <1>1, <2>1 DEF Open, TypeOK
  <2>3. HasOpen' = HasOpen \cup {d} /\ d \notin HasOpen
    BY <1>1, <2>1 DEF Open, HasOpen, TypeOK
  <2> QED
    BY <1>1, <2>2, <2>3 DEF Open, File!Open
<1>2. ASSUME NEW d \in Downloads, OpenFails(d) \/ Perform(d)
      PROVE  UNCHANGED File!vars
  BY <1>2 DEF OpenFails, Perform, HasOpen, File!vars
<1>3. ASSUME NEW d \in Downloads, Refuse(d) \/ Fail(d) \/ Succeed(d)
      PROVE  UNCHANGED File!vars
  BY <1>3 DEF Refuse, Fail, Succeed, Called, HasOpen, File!vars
<1>4. ASSUME NEW d \in Downloads, NEW n \in 1 .. Size, Write(d, n)
      PROVE  \E k \in 0 .. Size : File!Write(d, k)
  <2>1. PICK k \in flushed[d] .. m_file_len[d] + n : Flush(d, k)
    BY <1>4 DEF Write
  <2>2. k \in 0 .. Size /\ flushed[d] <= k
    <3>1. /\ m_file_len[d] \in 0 .. Size /\ Size \in Nat /\ flushed[d] \in 0 .. Size
          /\ m_file_len[d] + n <= Size
      BY <1>4, Sizes DEF TypeOK, Write
    <3> QED
      BY <2>1, <3>1
  <2>3. HasOpen' = HasOpen /\ d \in HasOpen /\ last' = last
    BY <1>4 DEF Write, Writable, HasOpen, TypeOK
  <2>4. File!Write(d, k)
    BY <2>1, <2>2, <2>3 DEF Flush, File!Write
  <2> QED
    BY <2>2, <2>4
<1>5. ASSUME NEW d \in Downloads, Close(d)
      PROVE  (\E k \in 0 .. Size : File!Close(d, k)) \/ UNCHANGED File!vars
  <2>1. m_file' = [m_file EXCEPT ![d] = "closed"] /\ last' = last
    BY <1>5 DEF Close
  <2>2. HasOpen' = HasOpen \ {d}
    BY <2>1 DEF HasOpen, TypeOK
  <2>3. /\ m_file_len[d] \in 0 .. Size /\ Size \in Nat /\ flushed[d] \in 0 .. Size
        /\ flushed[d] <= m_file_len[d]
    BY Sizes DEF TypeOK, StreamInv
  <2>4. CASE m_file[d] = "none" /\ UNCHANGED <<file, flushed, badSince>>
    BY <2>1, <2>2, <2>4 DEF HasOpen, File!vars
  <2>5. ASSUME m_file[d] \in {"good", "bad"},
               NEW k \in flushed[d] .. m_file_len[d], Flush(d, k)
        PROVE  \E j \in 0 .. Size : File!Close(d, j)
    <3>1. k \in 0 .. Size /\ flushed[d] <= k
      BY <2>3
    <3>2. d \in HasOpen
      BY <2>5 DEF HasOpen
    <3>3. File!Close(d, k)
      BY <2>1, <2>2, <2>5, <3>1, <3>2 DEF Flush, File!Close
    <3> QED
      BY <3>1, <3>3
  <2>6. m_file_len[d] \in flushed[d] .. m_file_len[d]
    BY <2>3
  <2>7. m_file[d] # "closed"
    <3>1. stage[d] = "called"
      BY <1>5 DEF Close, Closing
    <3> QED
      BY <3>1 DEF StreamInv
  <2>8. m_file[d] \in {"none", "good", "bad"}
    BY <2>7 DEF TypeOK
  <2> QED
    BY <1>5, <2>4, <2>5, <2>6, <2>8 DEF Close
<1>6. ASSUME NEW d \in Downloads, Drop(d)
      PROVE  File!Abandon({d})
  BY <1>6 DEF Drop, HasOpen, TypeOK, File!Abandon
<1>7. CASE UNCHANGED vars
  BY <1>7 DEF vars, HasOpen, File!vars
<1> QED
  BY <1>1, <1>2, <1>3, <1>4, <1>5, <1>6, <1>7 DEF Next, Main, Worker, File!Next

(* The downloads are writers of one file: each opens it, writes from the beginning,
   and closes it with the rest of its bytes. *)
THEOREM DownloadsShareFile == Spec => KeepsFile
<1>1. Init => File!Init
  BY RefinesInit
<1>2. IInv /\ [Next]_vars => [File!Next]_File!vars
  BY RefinesNext
<1> QED
  BY <1>1, <1>2, Invariance, PTL DEF Spec, KeepsFile, File!Spec
===============================================================================
