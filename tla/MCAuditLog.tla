----------------------------- MODULE MCAuditLog -----------------------------
(***************************************************************************)
(* Instances of AuditLog: one proxy restarted at will, or two processes on *)
(* the same file.                                                          *)
(***************************************************************************)
EXTENDS AuditLog

CONSTANTS p1, p2, a, b
=============================================================================
