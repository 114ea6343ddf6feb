------------------------------ MODULE MCCertUpload ------------------------------
(***************************************************************************)
(* An instance of CertUpload for TLC.                                      *)
(***************************************************************************)
EXTENDS CertUpload

CONSTANTS c1, c2, u1
===============================================================================
