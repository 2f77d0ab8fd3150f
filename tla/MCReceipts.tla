----------------------------- MODULE MCReceipts -----------------------------
(***************************************************************************)
(* An instance of Receipts: one proxy restarted at will, covenant-verify   *)
(* run at will, two keys that may be generated, a log of up to MaxEntries  *)
(* lines, and one receipt made at any moment.                              *)
(***************************************************************************)
EXTENDS Receipts

CONSTANTS p1, verify, a, b, k1, k2

ReceiptsSymmetry == Permutations(Payloads) \cup Permutations(Keys)
=============================================================================
