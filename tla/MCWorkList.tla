----------------------------- MODULE MCWorkList -----------------------------
(***************************************************************************)
(* The instance of run worklist: two students, one of the first class, so  *)
(* that a filter shows fewer; two edits and two loads, the least of each   *)
(* that can cross another of its kind.                                     *)
(***************************************************************************)
EXTENDS WorkList
=============================================================================
