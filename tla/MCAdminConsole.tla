--------------------------- MODULE MCAdminConsole ---------------------------
(***************************************************************************)
(* The instance of the runs console and handover_target.  Each desk has    *)
(* the clicks that its initial views, which are in the middle of work,     *)
(* still need; two changes by others, as a lead that is taken back is      *)
(* given out and given up again.                                           *)
(***************************************************************************)
EXTENDS AdminConsole
TwoBatches(s) == IF s = 3 THEN 2 ELSE 1
TwoRegions(p) == IF p = 2 THEN "east" ELSE "west"
Clicks == [handover |-> 4, agents |-> 3, leads |-> 2, settlement |-> 4, reclaim |-> 2, visits |-> 3]
Others == [p \in Pages |-> 2]
Alike == Permutations(Agents) \cup Permutations(Leads)
=============================================================================
