---------------------------- MODULE MCPhoneHome ----------------------------
(***************************************************************************)
(* The instance of run phone: three students, so that a page of one has    *)
(* two after it and a page of two has a next one; two groups, one of which *)
(* exists at the start.                                                    *)
(***************************************************************************)
EXTENDS PhoneHome
=============================================================================
