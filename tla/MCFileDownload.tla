----------------------------- MODULE MCFileDownload -----------------------------
(***************************************************************************)
(* An instance of FileDownload for TLC.                                    *)
(***************************************************************************)
EXTENDS FileDownload

CONSTANTS d1, d2

(* without a length, of the body, and of an encoded body that is shorter *)
Lengths == {Unknown, Size, Size - 1}
===============================================================================
