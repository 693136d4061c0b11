--------------------------- MODULE MCBrowserSession ---------------------------
(***************************************************************************)
(* The instance of run session: two tabs, of which one or both are open,   *)
(* one account with one reset of its password, and up to two operations    *)
(* that were queued offline.                                               *)
(***************************************************************************)
EXTENDS BrowserSession
=============================================================================
