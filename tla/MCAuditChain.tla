---------------------------- MODULE MCAuditChain ----------------------------
(***************************************************************************)
(* Small instances of AuditChain for TLC.  The threads are not             *)
(* interchangeable (one of them runs the tamper tests) and the digests     *)
(* carry the bodies, so no symmetry is declared.                           *)
(***************************************************************************)
EXTENDS AuditChain
=============================================================================
