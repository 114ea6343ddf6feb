------------------------------ MODULE MCPutReader ------------------------------
(***************************************************************************)
(* Instances of PutReader for TLC.                                         *)
(***************************************************************************)
EXTENDS PutReader

(* shorter than, as long as and longer than every buffer, and multiples *)
FewLengths == 0 .. 9
FewBuffers == {1, 2, 3, 4}
===============================================================================
